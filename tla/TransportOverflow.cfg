SPECIFICATION FairSpec
CONSTANTS
    crc16 <- CheapCrc
    Capacity = 16
    Available = {1, 9, 16}
    Frames <- SmallFrames
    Garbage <- NoGarbage
    Noise <- SomeNoise
    MaxFrames = 2
    MaxNoise = 1
    Resets = TRUE
INVARIANTS
    CountersDescribeBuffer
    NothingForged
PROPERTIES
    ProcessingEnds
