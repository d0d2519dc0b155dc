CONSTANTS
    Cooks = {bake, probed}
    Probed = {probed}
    Nothing = Nothing
    MaxPolls = 2
    MaxStops = 2
SPECIFICATION FairSpec
INVARIANTS NoneLeftBehind StopIsFinal AcknowledgedRan WithdrawalKeepsLock
PROPERTIES NothingRepeated EverythingEnds
