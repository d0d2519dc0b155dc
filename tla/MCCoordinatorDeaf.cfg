CONSTANTS
    NoCall = NoCall
    Calls = {c1}
    AutoCall = NoCall
    Kinds <- Nothing
    Steps <- ShortCook
    Transports <- Local
    Starts = TRUE
    SkipPreheat = FALSE
    EagerTasks = TRUE
    START_CONFIRM_GRACE = 1
    ISSUE_GRACE = 2
    BEACON_TTL = 3
    OFFLINE_AFTER = 3
    BLE_RETRY = 1
SPECIFICATION DeafSpec
PROPERTIES IdleFollows
