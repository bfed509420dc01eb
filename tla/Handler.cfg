SPECIFICATION Spec
CONSTANTS
    MAX_PACKET_RETRIES = 1
    DEFAULT_ANSWER_TIMEOUT = 1
    DEFAULT_COOLDOWN_INTERVAL = 2
    Repeats = {0, 2}
    RetryIntervals = {0, 3}
    AnswerTimeouts = {2}
    CooldownIntervals = {0}
    Writes = {"sent", "wrapped", "refused"}
    Unsolicited = TRUE
    MaxMessages = 2
    MaxFrames = 1
    MaxLag = 1
    MaxAnswerDelay = 1
    Horizon = 4
INVARIANTS
    TypeOK
    QueueIsSuffix
    WaitingForHead
    TransmissionBudget
    OutcomeJustified
    RetryDelayBelongsToHead
PROPERTIES
    ImplementsLedger
    CooldownRespected
    RetransmissionSpacing
    AnswerWindowKept
