SPECIFICATION Spec
CONSTANTS
    MAX_PACKET_RETRIES = 1
    DEFAULT_ANSWER_TIMEOUT = 1
    DEFAULT_COOLDOWN_INTERVAL = 2
    Repeats = {0}
    RetryIntervals = {0}
    AnswerTimeouts = {}
    CooldownIntervals = {}
    Writes = {"sent"}
    Unsolicited = FALSE
    MaxMessages = 2
    MaxFrames = 2
    MaxLag = 2
    MaxAnswerDelay = 3
    Horizon = 5
INVARIANTS
    RequestCausedThisAnswer
