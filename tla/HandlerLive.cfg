SPECIFICATION FairSpec
CONSTANTS
    MAX_PACKET_RETRIES = 1
    DEFAULT_ANSWER_TIMEOUT = 1
    DEFAULT_COOLDOWN_INTERVAL = 3
    Repeats = {1}
    RetryIntervals = {2}
    AnswerTimeouts = {}
    CooldownIntervals = {}
    Writes = {"sent", "refused"}
    Unsolicited = TRUE
    MaxMessages = 2
    MaxFrames = 2
    MaxLag = 1
    MaxAnswerDelay = 2
    Horizon = 4
INVARIANTS
    AnswerMatchesRequest
PROPERTIES
    EveryMessageSettles
