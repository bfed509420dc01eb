SPECIFICATION Spec
CONSTANTS
    crc16 <- CheapCrc
    Capacity = 251
    Available = {251}
    Frames <- MoreSeparators
    Garbage <- SomeGarbage
    Noise <- NoNoise
    MaxFrames = 1
    MaxNoise = 0
    Resets = FALSE
INVARIANTS
    DocumentedDataArrives
