---------------------------- MODULE GrillControl ----------------------------
(***************************************************************************)
(* What the command layer of the coordinator promises to its callers, told *)
(* without locks, queues or cancellation: calls are made, the grill acts   *)
(* on some of them, and once a Stop has returned to its caller no start    *)
(* that was already under way when Stop was called may be acted upon.      *)
(*                                                                         *)
(*   coordinator.py:897-901  "`preempt` (Stop) cancels whatever command is *)
(*   still in flight, so a long-running start can never land after the     *)
(*   user stopped the cook."                                               *)
(*                                                                         *)
(* CommandLock is the mechanism; it is shown to implement this module.     *)
(***************************************************************************)

CONSTANTS
    Calls,      \* service calls: entity writes, buttons, service actions
    NoCall      \* "the grill cooks for nobody"

VARIABLES
    open,       \* calls made and not yet returned
    older,      \* older[c]: calls that were open, or cooking, when c was made
    revoked,    \* calls that some returned Stop was made after
    cook        \* the call the grill is cooking for

vars == <<open, older, revoked, cook>>

Init ==
    /\ open = {}
    /\ older = [c \in Calls |-> {}]
    /\ revoked = {}
    /\ cook = NoCall

\* A call identity is used again only once nothing of its previous use is left.
Call(c) ==
    /\ c \notin open
    /\ c # cook
    /\ open' = open \cup {c}
    /\ older' = [d \in Calls |-> IF d = c THEN (open \cup {cook}) \ {NoCall}
                                          ELSE older[d] \ {c}]
    /\ revoked' = revoked \ {c}
    /\ UNCHANGED cook

\* The grill takes up a cook, but never for a call that has been revoked.
StartActs(c) ==
    /\ c \in Calls \ revoked
    /\ cook' = c
    /\ UNCHANGED <<open, older, revoked>>

StopActs ==
    /\ cook' = NoCall
    /\ UNCHANGED <<open, older, revoked>>

Return(c) ==
    /\ c \in open
    /\ open' = open \ {c}
    /\ UNCHANGED <<older, revoked, cook>>

\* A Stop may return as done only when the grill cooks for nobody it revokes.
StopReturns(c) ==
    /\ c \in open
    /\ cook \notin older[c]
    /\ open' = open \ {c}
    /\ revoked' = revoked \cup older[c]
    /\ UNCHANGED <<older, cook>>

Next ==
    \/ StopActs
    \/ \E c \in Calls : Call(c) \/ StartActs(c) \/ Return(c) \/ StopReturns(c)

Spec == Init /\ [][Next]_vars
=============================================================================
