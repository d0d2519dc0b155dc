CONSTANTS
    Calls = {c1, c2}
    IdTokens = {i1, i2, i3, i4}
    AccessTokens = {t1, t2, t3, t4}
    NoToken = NoToken
    FirstGrant = "password"
SPECIFICATION FairSpec
INVARIANTS Recovers LocksOrdered
PROPERTIES FreshKept AttemptsBounded EveryCallEnds
