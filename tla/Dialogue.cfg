SPECIFICATION FairDialogue
CONSTANTS
    MAX_PACKET_RETRIES = 1
    DEFAULT_ANSWER_TIMEOUT = 3
    DEFAULT_COOLDOWN_INTERVAL = 4
    Repeats = {1}
    RetryIntervals = {0}
    AnswerTimeouts = {}
    CooldownIntervals = {}
    Writes = {"sent"}
    Unsolicited = FALSE
    MaxMessages = 2
    MaxFrames = 2
    MaxLag = 1
    MaxAnswerDelay = 1
    Horizon = 5
    ServerMessages = 1
    ServerRepeats = {0}
    ServerLag = 1
INVARIANTS
    OneFrameAtATime
    ReportedAsServed
    RetryOnlyAfterLoss
    OwnAnswer
PROPERTIES
    BothSettle
