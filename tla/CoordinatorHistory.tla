------------------------- MODULE CoordinatorHistory -------------------------
(***************************************************************************)
(* What the coordinator promises its callers, told of the coordinator with *)
(* all its commands, polls and beacons: once a Stop has returned, the      *)
(* grill cooks for no call that the Stop was made after.  Coordinator says *)
(* what the grill does, not for whom.  This module adds that as history,   *)
(* which follows every step and never stands in its way, and shows the     *)
(* coordinator to implement GrillControl.                                  *)
(***************************************************************************)
EXTENDS Coordinator

VARIABLES
    use,        \* which of its two names a call goes by
    cook,       \* the use of a call that the grill cooks for
    older,      \* what was open, or cooked, when a call was made
    revoked     \* what some returned Stop was made after

history == <<use, cook, older, revoked>>

\* A call that is made while the grill still cooks for the last one of its name goes
\* by its other name: no identity stands for two calls that matter.
Uses == Calls \X {0, 1}
Use(c) == <<c, use[c]>>
NoCook == <<NoCall, 0>>

OpenUses == {Use(c) : c \in {d \in Calls : pc[d] # "returned"}}

Remembering ==
    /\ use = [c \in Calls |-> 0]
    /\ cook = NoCook
    /\ older = [u \in Uses |-> {}]
    /\ revoked = {}

\* The calls that a step makes (one that is declined at once is none), whose command
\* the grill acts upon, and whose Stop returns as done.
Made == {c \in Calls : pc[c] = "returned" /\ pc'[c] # "returned"}
Acting == {c \in Calls : Act(c)}
Stopped == {c \in Calls : kind[c] = "stop" /\ Succeed(c)}

\* The grill cooks for the call whose command it acted upon last. A cook that is
\* started at the grill is nobody's, and one that ends is over.
CookAfter ==
    IF grill' \notin CookSteps THEN {NoCook}
    ELSE IF Acting # {} THEN {Use(c) : c \in Acting}
    ELSE IF grill \notin CookSteps THEN {NoCook} ELSE {cook}

Remember ==
    /\ use' = [c \in Calls |-> IF c \notin Made THEN use[c]
                                  ELSE IF cook = <<c, 0>> THEN 1 ELSE 0]
    /\ cook' \in CookAfter
    /\ LET new == {<<c, use'[c]>> : c \in Made}
       IN  /\ older' = [u \in Uses |-> IF u \in new THEN (OpenUses \cup {cook}) \ {NoCook}
                                       ELSE older[u] \ new]
           /\ revoked' = (revoked \cup UNION {older[Use(c)] : c \in Stopped}) \ new

HSpec == Init /\ Remembering /\ [][Next /\ Remember]_<<vars, history>>

\* However commands, the coordinator's own skip, polls and beacons overlap: once a Stop
\* has returned to its caller, the grill does not cook for a call that was under way, or
\* was being cooked, when that Stop was made (coordinator.py:897-901).
Control == INSTANCE GrillControl WITH Calls <- Uses, NoCall <- NoCook, open <- OpenUses
ImplementsControl == Control!Spec
=============================================================================
