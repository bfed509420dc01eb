SPECIFICATION Spec
CONSTANTS
    HON_ALARM_COUNT = 51
    SHORT_ALARM_REPORT_INTERVAL = 0
    LONG_ALARM_REPORT_INTERVAL = 1
    SIZE_T_BYTES = 8
    RandomIds <- SomeIds
    Requests <- SettingRequests
    ToggleKeys <- NoKey
    MaxPending = 0
INVARIANTS
    ControlInRange
