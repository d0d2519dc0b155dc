CONSTANTS
    Polls = {p1, p2}
    Commands = {start, stop}
    Links = {l1, l2, l3, l4}
    NoLink = NoLink
    READ_ATTEMPTS = 2
    CONNECT_ATTEMPTS = 2
SPECIFICATION FairSpec
INVARIANTS OwnSession Released
PROPERTIES NobodyStays WhileInside EveryUserEnds
