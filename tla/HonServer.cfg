SPECIFICATION FairSpec
CONSTANTS
    HON_ALARM_COUNT = 51
    SHORT_ALARM_REPORT_INTERVAL = 0
    LONG_ALARM_REPORT_INTERVAL = 1
    SIZE_T_BYTES = 8
    RandomIds <- SomeIds
    Requests <- SomeRequests
    ToggleKeys <- Quiet
    MaxPending = 1
INVARIANTS
    TypeOK
    StoppedOnlyOnRequest
PROPERTIES
    KeyActedOn
    RaisedAlarmIsSent
