SPECIFICATION FairSpec
CONSTANTS
    crc16 <- CheapCrc
    Capacity = 64
    Available = {64}
    Frames <- SmallFrames
    Garbage <- NoGarbage
    Noise <- SomeNoise
    MaxFrames = 1
    MaxNoise = 1
    Resets = FALSE
PROPERTIES
    UnfinishedFrameGivenUp
