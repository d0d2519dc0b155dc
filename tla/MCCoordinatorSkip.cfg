CONSTANTS
    NoCall = NoCall
    Calls = {c1, auto}
    AutoCall = auto
    Kinds <- Changes
    Steps <- LongCook
    Transports <- Local
    Starts = FALSE
    SkipPreheat = TRUE
    EagerTasks = TRUE
    START_CONFIRM_GRACE = 0
    ISSUE_GRACE = 1
    BEACON_TTL = 2
    OFFLINE_AFTER = 0
    BLE_RETRY = 1
SPECIFICATION Spec
PROPERTIES SkipSparesStopped IdleHeldInGrace
