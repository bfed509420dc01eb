SPECIFICATION Spec
CONSTANTS
    crc16 <- TableCrc
    Capacity = 251
    Available = {100, 251}
    Frames <- LongFrames
    Garbage <- SomeGarbage
    Noise <- NoNoise
    MaxFrames = 1
    MaxNoise = 0
    Resets = FALSE
INVARIANTS
    NothingLost
    CodeIsArc
