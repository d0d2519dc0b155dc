CONSTANTS
    TOTAL = 1
    TARGET = 1
    MaxCooks = 2
    MaxPolls = 2
SPECIFICATION Spec
INVARIANTS TypeOK  DoneOnce StartedOnce
VIEW Distinct
