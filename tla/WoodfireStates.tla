--------------------------- MODULE WoodfireStates ---------------------------
(***************************************************************************)
(* The cook phases the grill reports and the classes the integration sorts *)
(* them into (_lib/const.py:117-135, coordinator.py:56-120).               *)
(***************************************************************************)

PREHEAT_STATES == {"preheat", "preheating", "start", "ignition"}
COOKING_STATES == {"cooking", "cook", "heat"}
REST_STATES == {"rest", "resting"}
PAUSED_STATES == {"flip", "get food", "get_food", "lid open", "lid_open", "insert_food"}
ACTIVE_STATES == PREHEAT_STATES \cup COOKING_STATES \cup REST_STATES \cup PAUSED_STATES
WAITING_STATES == {"wait lid closed before cook"}
IDLE_STATES == {"idle", "none", "powered off", "powered_off", "unknown", ""}

\* What positively confirms standby; "unknown" and "" are no reading at all.
STANDBY_STATES == IDLE_STATES \ {"unknown", ""}

\* The display prompt of a beacon as the step of the cook it stands for.
PROMPT_STATE == [addfood |-> "insert_food", flipfood |-> "flip",
                 getfood |-> "get_food", done |-> "done"]

\* The phases of a beacon that count as a running cook.
BEACON_PHASES == {"ignition", "preheat", "cooking"}

IsActive(g) == g \in ACTIVE_STATES

\* A transition that ends a cook: coordinator.py:681.
EndsCook(prev, g) ==
    \/ g = "done" /\ prev # "done"
    \/ prev \in ACTIVE_STATES /\ g \in IDLE_STATES \cup WAITING_STATES

ASSUME PhasesDisjoint == ACTIVE_STATES \cap (IDLE_STATES \cup WAITING_STATES \cup {"done"}) = {}
=============================================================================
