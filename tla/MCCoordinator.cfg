CONSTANTS
    NoCall = NoCall
    Calls = {c1, c2}
    AutoCall = NoCall
    Kinds <- Buttons
    Steps <- ShortCook
    Transports <- Local
    Starts = FALSE
    SkipPreheat = FALSE
    EagerTasks = TRUE
    START_CONFIRM_GRACE = 1
    ISSUE_GRACE = 2
    BEACON_TTL = 3
    OFFLINE_AFTER = 3
    BLE_RETRY = 1
SPECIFICATION Spec
SYMMETRY CallSymmetry
INVARIANTS AsleepUnconfirmed
PROPERTIES WakeSparesFreshStart
