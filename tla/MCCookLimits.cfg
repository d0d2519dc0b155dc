CONSTANTS
    NoChange = NoChange
    NoCook = NoCook
    Limits <- SmallLimits
    Others = {"griddle"}
    LevelMode = "grill"
    DefaultMode = "grill"
    Fitted = {0}
    Reports <- SomeReports
    Services = {service}
    Cards = {card}
    Asks <- SomeAsks
SPECIFICATION Spec
INVARIANTS SentWithinLimits AcceptedSent SmokeStaged
