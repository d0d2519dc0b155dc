---------------------------- MODULE MCCookLimits -----------------------------
(* A grill with one probe and three modes: one with heat levels, one that   *)
(* requires smoke and one with neither smoke nor probes.                    *)
EXTENDS CookLimits

Mode(low, high, smoke, always, probe) ==
    [low |-> low, high |-> high, default |-> high, smoke |-> smoke, withSmoke |-> always,
     always |-> always, probe |-> probe]

SmallLimits ==
    [m \in {"grill", "smoker", "dehydrate"} |->
        CASE m = "grill" -> Mode(1, 1, TRUE, FALSE, TRUE)
          [] m = "smoker" -> Mode(2, 2, TRUE, TRUE, TRUE)
          [] m = "dehydrate" -> Mode(2, 2, FALSE, FALSE, FALSE)]

Report(phase, mode, temp, smoke, probes) ==
    [phase |-> phase, mode |-> mode, temp |-> temp, smoke |-> smoke, probes |-> probes]

SomeReports ==
    {Report("offline", "grill", 0, FALSE, {}), Report("rest", "dehydrate", 2, FALSE, {}),
     Report("cook", "grill", 1, TRUE, {}), Report("cook", "smoker", 2, TRUE, {0}),
     Report("cook", "griddle", 2, FALSE, {})}

Asking(start, mode, temp, smoke, on) ==
    [start |-> start, mode |-> mode, temp |-> temp, smoke |-> smoke, on |-> on, off |-> {}]

\* Smoke is asked for where there is none, and turned off where it may be chosen; where it
\* is required the card's switch asks for less.
SomeAsks ==
    {Asking(TRUE, "dehydrate", NoChange, TRUE, {}), Asking(FALSE, NoChange, 1, FALSE, {0})}
=============================================================================
