CONSTANTS
    Calls = {c1, c2, c3}
    NoCall = NoCall
SPECIFICATION FairSpec
INVARIANTS StopWins
PROPERTIES LastWishCounts ImplementsControl StopReturns
