CONSTANTS
    NoCall = NoCall
    Calls = {c1}
    AutoCall = NoCall
    Kinds <- Stopping
    Steps <- ShortCook
    Transports <- Hybrid
    Starts = TRUE
    SkipPreheat = FALSE
    EagerTasks = TRUE
    START_CONFIRM_GRACE = 0
    ISSUE_GRACE = 1
    BEACON_TTL = 2
    OFFLINE_AFTER = 0
    BLE_RETRY = 1
SPECIFICATION FairSpec
PROPERTIES ViewFollows
