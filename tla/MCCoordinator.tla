--------------------------- MODULE MCCoordinator ----------------------------
(* Small coordinators for TLC: two service calls, a few steps of the cook,  *)
(* and graces of at most three ticks in the order of the code's 25, 30, 60 s. *)
EXTENDS Coordinator, TLC

CallSymmetry == Permutations(Calls)

ShortCook == {"asleep", "idle", "preheat"}
LongCook == ShortCook \cup {"addfood", "cooking", "lidopen"}

Nothing == {}
Stopping == {"stop"}
Changes == {"start", "stop", "modify"}
Buttons == {"start", "stop", "wake"}

Local == {"ble"}
Hybrid == {"ble", "cloud"}
=============================================================================
