SPECIFICATION Spec
CONSTANTS
    crc16 <- CheapCrc
    Capacity = 64
    Available = {1, 2, 3, 5, 8, 13, 64}
    Frames <- SmallFrames
    Garbage <- NoGarbage
    Noise <- SomeNoise
    MaxFrames = 2
    MaxNoise = 2
    Resets = FALSE
INVARIANTS
    TypeOK
    CountersDescribeBuffer
    OnlyUnfinishedLeft
    NothingLost
