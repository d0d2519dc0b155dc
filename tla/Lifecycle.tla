----------------------------- MODULE Lifecycle ------------------------------
(***************************************************************************)
(* The events of a cook (coordinator.py, `_emit_lifecycle_events`): what   *)
(* is announced of a cook that is only seen through polls and beacons.     *)
(*                                                                         *)
(* Over a cloud refreshes overlap (`_burst_refresh`), so readings may be   *)
(* shown in another order than they were taken, and the grill may be       *)
(* offline.  Over Bluetooth there is no frame of the state: the view is    *)
(* made up from the last beacon, from its absence or from what was shown   *)
(* before, and the timer is an estimate.  The lid may be opened at any     *)
(* step, Home Assistant may restart, and a start sent from here may be     *)
(* answered after its cook has been seen, or its end.                      *)
(*                                                                         *)
(* One probe with a fixed target; timer and temperature in a few units.    *)
(* Left out: the probe's half way, which is counted afresh after a gap;    *)
(* Bluetooth frames with a state and a timer of their own; a Stop from     *)
(* here; a change of the backend; cloud readings without a state, which    *)
(* are skipped (coordinator.py:634-636).                                   *)
(***************************************************************************)
EXTENDS Integers, Sequences, WoodfireStates

CONSTANTS
    TOTAL,      \* the cook time, in units
    TARGET,     \* the probe's target
    MaxCooks,   \* bound on the cooks that are begun
    MaxPolls    \* bound on the polls under way

ASSUME UnitsAssumption == TOTAL \in Nat \ {0} /\ TARGET \in Nat \ {0} /\ MaxCooks \in Nat
ASSUME PollsAssumption == MaxPolls \in Nat

VARIABLES
    grill,      \* the grill: the number of its cook, step, phase, time left, probe
    unanswered, \* the grill acted on a start from here that is not answered yet
    local,      \* the backend is Bluetooth
    polls,      \* the readings of the cloud polls under way, in the order they were taken
    beacon,     \* the last beacon while it is live, or NoReading
    shown,      \* over Bluetooth what self.data shows, or NoView
    cookSeen,   \* _cook_seen
    timer,      \* the time up to _local_cook_end, or Off
    prev,       \* _prev_grill_state, None after a restart or while offline
    newCook,    \* _new_cook
    flags,      \* the milestones of _reset_cook_flags
    prevPrompt, \* _prev_prompt
    fired,      \* history: how often each event was fired for the present cook, since the
                \* last thing that may repeat it (Recount)
    behind      \* history: how many of `polls` are older than a reading that was shown

sources == <<polls, behind, beacon>>
merged == <<shown, cookSeen, timer>>
memory == <<prev, newCook, flags, prevPrompt>>
vars == <<grill, unanswered, local, sources, merged, memory, fired>>

None == "none"
Off == -1
LidWait == "wait lid closed before cook"
Steps == {"idle", LidWait, "preheat", "insert_food", "cooking", "lid open", "done"}
\* The kinds of events, without those of the prompts that a cook may show twice.
Events == {"started", "preheatComplete", "halftime", "done", "addfood", "probeTarget"}

Readings == [cook : 0..MaxCooks, step : Steps, phase : {"preheat", "cooking", "none"},
             left : 0..TOTAL, temp : 0..TARGET]
Views == [cook : 0..MaxCooks, step : Steps \cup {"powered_off"}, left : 0..TOTAL,
          online : BOOLEAN]
Flags == [seenPreheat : BOOLEAN, preheat : BOOLEAN, halftime : BOOLEAN,
          target : BOOLEAN]
NoReading == [cook |-> 0, step |-> None]
NoView == [cook |-> 0, step |-> None, online |-> FALSE]

Reset == [seenPreheat |-> FALSE, preheat |-> FALSE, halftime |-> FALSE,
          target |-> FALSE]

Nothing == [e \in Events |-> 0]

\* History: the events of `again` may be fired once more from here on.
Recount(again) == [e \in Events |-> IF e \in again THEN 0 ELSE fired[e]]

Init ==
    /\ grill = [cook |-> 0, step |-> "idle", phase |-> "none", left |-> TOTAL, temp |-> 0]
    /\ unanswered = FALSE /\ local \in BOOLEAN
    /\ polls = <<>> /\ behind = 0 /\ beacon = NoReading
    /\ shown = NoView /\ cookSeen = FALSE /\ timer = Off
    /\ prev = None /\ newCook = FALSE /\ flags = Reset /\ prevPrompt = FALSE
    /\ fired = Nothing
-----------------------------------------------------------------------------
(* The grill (external).                                                   *)

\* A new cook: it preheats, or waits for the lid first; the probe may be in hot food.
Begin(step) ==
    /\ grill.cook < MaxCooks
    /\ \E temp \in 0..TARGET :
          grill' = [cook |-> grill.cook + 1, step |-> step, left |-> TOTAL, temp |-> temp,
                    phase |-> IF step = "preheat" THEN "preheat" ELSE "none"]
    /\ fired' = Nothing

To(step, phase) ==
    /\ grill' = [grill EXCEPT !.step = step, !.phase = phase,
                              !.left = IF phase = "none" THEN TOTAL ELSE @]
    /\ UNCHANGED fired

Lid == grill.step = "lid open"

\* A cook goes through preheat, add food and cooking, with the lid opened on the way;
\* it may be stopped in every step, under an open lid into the wait for the lid.
GrillMoves ==
    /\ \/ grill.step = "idle" /\ \E s \in {"preheat", LidWait} : Begin(s)
       \/ grill.step = LidWait /\ Begin("preheat")
       \/ grill.step = "preheat" /\ To("insert_food", "preheat")
       \/ grill.step = "insert_food" /\ \E s \in {"cooking", "lid open"} : To(s, "cooking")
       \/ grill.step \in {"preheat", "cooking"} /\ To("lid open", grill.phase)
       \/ Lid /\ To(grill.phase, grill.phase)
       \/ Lid /\ To(LidWait, "none")
       \/ grill.step = "cooking" /\ grill.left = 0 /\ To("done", "none")
       \/ grill.step # "idle" /\ To("idle", "none")
    /\ UNCHANGED <<unanswered, local, sources, merged, memory>>

\* Time passes in a cook.
CookGoesOn ==
    /\ \/ /\ grill.step = "cooking" /\ grill.left > 0
          /\ grill' = [grill EXCEPT !.left = @ - 1]
       \/ /\ grill.step \in {"preheat", "cooking", "lid open"} /\ grill.temp < TARGET
          /\ grill' = [grill EXCEPT !.temp = @ + 1]
    /\ UNCHANGED <<unanswered, local, sources, merged, memory, fired>>

\* The estimate runs by itself.
TimerRuns ==
    /\ timer > 0 /\ timer' = timer - 1
    /\ UNCHANGED <<grill, unanswered, local, sources, shown, cookSeen, memory, fired>>
-----------------------------------------------------------------------------
(* A start from Home Assistant.                                            *)

\* Whatever the grill did before, it begins anew, or waits for its lid.
StartActs ==
    /\ ~unanswered /\ unanswered' = TRUE
    /\ \E s \in {"preheat", LidWait} : Begin(s)
    /\ UNCHANGED <<local, sources, merged, memory>>

\* The events that the answer to a start may repeat.
Restarted == IF local THEN Events \ {"addfood"} ELSE {"started", "halftime", "probeTarget"}

\* `_start_cook` goes on after its answer: what it shows at once over a cloud, the next poll
\* replaces, and over Bluetooth a beacon without a cook keeps it.
StartReturns(first) ==
    /\ unanswered /\ unanswered' = FALSE
    /\ newCook' = TRUE
    /\ fired' = Recount(Restarted)
    /\ IF local
       THEN /\ cookSeen' = FALSE
            /\ shown' = IF shown = NoView THEN NoView
                        ELSE [shown EXCEPT !.step = first, !.online = TRUE, !.cook = grill.cook]
       ELSE UNCHANGED <<cookSeen, shown>>
    /\ UNCHANGED <<grill, local, sources, timer, prev, flags, prevPrompt>>

\* It may also fail although the grill acted.
StartFails ==
    /\ unanswered /\ unanswered' = FALSE
    /\ UNCHANGED <<grill, local, sources, merged, memory, fired>>
-----------------------------------------------------------------------------
(* The events.                                                             *)

Active(r) == r.step \in ACTIVE_STATES

\* `CombinedState.preheating`: at the add-food prompt the preheat is over, although
\* the cook state still says preheat.
Preheating(r) ==
    /\ r.step # "insert_food"
    /\ r.step \in PREHEAT_STATES \/ r.phase \in PREHEAT_STATES
Halftime(r) == r.left * 2 <= TOTAL
AtTarget(r) == r.probe /\ r.temp >= TARGET

\* Mutant: a restart starts counting afresh.
SeededFresh(r) == IF Active(r) THEN [Reset EXCEPT !.seenPreheat = Preheating(r)] ELSE Reset

\* `_seed_cook_flags`: what has been passed already is not announced again.
Seeded(r) ==
    IF ~Active(r) THEN Reset
    ELSE [seenPreheat |-> Preheating(r), preheat |-> ~Preheating(r), halftime |-> Halftime(r),
          target |-> AtTarget(r)]

\* Mutant: a lid that closes again begins a cook.
BeganOutOfPause(r) == Active(r) /\ (prev \notin ACTIVE_STATES \ PAUSED_STATES \/ newCook)

Began(r) == Active(r) /\ (prev \notin ACTIVE_STATES \/ newCook)

\* Mutant: done is announced as long as it is shown.
EndedAgain(r) ==
    r.step = "done" \/ (prev \in ACTIVE_STATES /\ r.step \in IDLE_STATES \cup WAITING_STATES)

Ended(r) == EndsCook(prev, r.step)

\* The flags as a reading leaves them: after the start, after preheat and half time, and
\* after the end.
Begun(r) == IF Began(r) THEN Reset ELSE flags
PreheatOver(r) ==
    /\ Active(r) /\ ~Preheating(r)
    /\ Begun(r).seenPreheat /\ ~Begun(r).preheat
    /\ r.step # "lid open"
HalfOver(r) == Active(r) /\ ~Begun(r).halftime /\ Halftime(r)
Timed(r) == [Begun(r) EXCEPT !.seenPreheat = @ \/ (Active(r) /\ Preheating(r)),
                             !.preheat = @ \/ PreheatOver(r),
                             !.halftime = @ \/ HalfOver(r)]
Counted(r) == IF Ended(r) THEN Reset ELSE Timed(r)

Fires(e, r) ==
    CASE e = "started" -> Began(r)
      [] e = "preheatComplete" -> PreheatOver(r)
      [] e = "halftime" -> HalfOver(r)
      [] e = "done" -> Ended(r)
      [] e = "addfood" -> r.prompt /\ ~prevPrompt
      [] e = "probeTarget" -> Active(r) /\ ~Counted(r).target /\ AtTarget(r)

\* The cook an event is of: that of the beacon for what the beacon alone says.
CookOf(e, r) == IF e \in {"addfood", "probeTarget"} THEN r.sensed ELSE r.cook

\* The first reading after a restart or a gap announces nothing.  The estimate of a cook may
\* begin anew with it.
First(r, again) ==
    /\ flags' = Seeded(r)
    /\ fired' = Recount(again \cup (IF local /\ ~Seeded(r).halftime THEN {"halftime"} ELSE {}))
    /\ UNCHANGED newCook

Emit(r, again) ==
    /\ flags' = [Counted(r) EXCEPT !.target = @ \/ Fires("probeTarget", r)]
    /\ newCook' = (newCook /\ ~Began(r))
    /\ fired' = [e \in Events |->
                    IF e \in again THEN 0
                    ELSE IF CookOf(e, r) = grill.cook /\ fired[e] < 2 /\ Fires(e, r)
                    THEN fired[e] + 1 ELSE fired[e]]

\* `_emit_lifecycle_events` of the reading `r`, which may repeat the events `again`.
Announce(r, again) ==
    /\ prev' = r.step
    /\ prevPrompt' = r.prompt
    /\ IF prev = None THEN First(r, again) ELSE Emit(r, again)

Forget == prev' = None /\ UNCHANGED <<newCook, flags, prevPrompt, fired>>
-----------------------------------------------------------------------------
(* Cloud polls.                                                            *)

\* A poll takes its reading.
PollReads ==
    /\ ~local /\ Len(polls) < MaxPolls
    /\ polls' = Append(polls, grill)
    /\ UNCHANGED <<grill, unanswered, local, behind, beacon, merged, memory, fired>>

Without(s, i) == SubSeq(s, 1, i - 1) \o SubSeq(s, i + 1, Len(s))

Cloud(r) == [cook |-> r.cook, sensed |-> r.cook, step |-> r.step, phase |-> r.phase, left |-> r.left,
             temp |-> r.temp, probe |-> TRUE, prompt |-> r.step = "insert_food"]

\* It is shown; refreshes are not kept apart, so an older one may come after.
PollShows(i) ==
    /\ Announce(Cloud(polls[i]), IF i <= behind THEN Events ELSE {})
    /\ polls' = Without(polls, i)
    /\ behind' = IF i <= behind THEN behind - 1 ELSE i - 1
    /\ UNCHANGED <<grill, unanswered, local, beacon, merged>>

\* A poll, or the retries of one, finds the grill offline.
PollOffline ==
    /\ ~local /\ Forget
    /\ UNCHANGED <<grill, unanswered, local, sources, merged>>
-----------------------------------------------------------------------------
(* Bluetooth.                                                              *)

Live(b) == b # NoReading
ShowsCook(b) == b.step \in {"preheat", "insert_food", "cooking"}
BeaconLid(b) == b.step \in {"lid open", LidWait}

\* `_merge_beacon` of the beacon `b` into the view `k`: a beacon that shows no cook leaves
\* an active view as it is,
Keeps(k, b) ==
    /\ Live(b) /\ ~ShowsCook(b) /\ IsActive(k.step)
    /\ ~(cookSeen /\ (BeaconLid(b) \/ b.step = "done"))

\* Mutant: a connection without a frame leaves the state unknown.
MergedUnknown(k, b) ==
    IF ShowsCook(b) THEN b.step ELSE IF IsActive(k.step) \/ ~Live(b) THEN k.step ELSE "idle"

\* its step,
MergedStep(k, b) ==
    LET seen == cookSeen \/ ShowsCook(b)
    IN  IF ~Live(b) THEN (IF k.step = "unknown" THEN "powered_off" ELSE k.step)
        ELSE IF ShowsCook(b) \/ (b.step = "done" /\ seen) THEN b.step
        ELSE IF BeaconLid(b) /\ seen THEN "lid open"
        ELSE IF Keeps(k, b) THEN k.step ELSE "idle"

\* the estimate, which starts with a closed lid and ends with the cook,
MergedTimer(k, b) ==
    LET step == MergedStep(k, b)
    IN  IF ~Live(b) THEN timer
        ELSE IF step = "cooking" /\ timer = Off /\ ~BeaconLid(b) THEN TOTAL
        ELSE IF ~IsActive(step) THEN Off ELSE timer

\* and the whole view.
Merged(k, b) ==
    [cook |-> IF Live(b) /\ ~Keeps(k, b) THEN b.cook ELSE k.cook,
     sensed |-> b.cook,
     step |-> MergedStep(k, b), phase |-> "none",
     left |-> IF Live(b) /\ MergedStep(k, b) = "cooking" /\ MergedTimer(k, b) # Off
              THEN MergedTimer(k, b) ELSE k.left,
     temp |-> IF Live(b) THEN b.temp ELSE 0, probe |-> Live(b),
     prompt |-> b.step = "insert_food"]

Over(g) == g.step \in {"idle", "done"}

\* What a view may repeat: everything, when it shows no cook while one runs, be it for want
\* of a beacon or from one of an earlier cook; the prompt that it drops for want of a beacon.
Blurred(r, b) ==
    IF ~Active(r) /\ ~Over(IF Live(b) /\ b.cook = grill.cook THEN b ELSE grill) THEN Events
    ELSE IF prevPrompt /\ ~Live(b) THEN {"addfood"} ELSE {}

\* The view `k` is merged, shown and, if the grill is online, announced.
Show(k, b, polled) ==
    LET r == Merged(k, b)
    IN  /\ shown' = [cook |-> r.cook, step |-> r.step, left |-> r.left, online |-> k.online]
        /\ timer' = MergedTimer(k, b)
        /\ IF k.online
           THEN /\ Announce(r, Blurred(r, b))
                /\ cookSeen' = ((cookSeen \/ ShowsCook(b)) /\ ~(prev # None /\ Ended(r)))
           ELSE /\ IF polled THEN Forget ELSE UNCHANGED <<memory, fired>>
                /\ cookSeen' = ((cookSeen \/ ShowsCook(b)) /\ ~polled)
        /\ UNCHANGED <<grill, unanswered, local, polls, behind>>

\* `update_beacon`: it is pushed into what is shown.
BeaconComes ==
    /\ local /\ beacon' = grill
    /\ IF shown = NoView
       THEN UNCHANGED <<grill, unanswered, local, polls, behind, merged, memory, fired>>
       ELSE Show(shown, grill, FALSE)

BeaconAges ==
    /\ Live(beacon) /\ beacon' = NoReading
    /\ UNCHANGED <<grill, unanswered, local, polls, behind, merged, memory, fired>>

\* A poll connects, and gets no frame of the state.
PollFrameless ==
    /\ local
    /\ Show([cook |-> shown.cook, step |-> "unknown", left |-> TOTAL, online |-> TRUE],
            beacon, TRUE)
    /\ UNCHANGED beacon

\* A poll does not connect: `_ble_offline_or_last`.
PollUnconnected ==
    /\ local
    /\ \/ shown # NoView /\ Show(shown, beacon, TRUE)
       \/ /\ ~Live(beacon) \/ shown = NoView
          /\ Show([cook |-> shown.cook, step |-> "powered_off", left |-> TOTAL, online |-> FALSE],
                  beacon, TRUE)
    /\ UNCHANGED beacon
-----------------------------------------------------------------------------
\* Home Assistant restarts: nothing of this is stored.
Restart ==
    /\ polls' = <<>> /\ behind' = 0 /\ beacon' = NoReading
    /\ shown' = NoView /\ cookSeen' = FALSE /\ timer' = Off
    /\ prev' = None /\ newCook' = FALSE /\ flags' = Reset /\ prevPrompt' = FALSE
    /\ unanswered' = FALSE
    /\ UNCHANGED <<grill, local, fired>>

Next ==
    \/ GrillMoves \/ CookGoesOn \/ TimerRuns
    \/ StartActs \/ (\E s \in {"preheat", "cooking"} : StartReturns(s)) \/ StartFails
    \/ PollReads \/ (\E i \in 1..Len(polls) : PollShows(i)) \/ PollOffline
    \/ BeaconComes \/ BeaconAges \/ PollFrameless \/ PollUnconnected
    \/ Restart

Spec == Init /\ [][Next]_vars
-----------------------------------------------------------------------------
TypeOK ==
    /\ grill \in Readings
    /\ unanswered \in BOOLEAN /\ local \in BOOLEAN
    /\ polls \in Seq(Readings) /\ behind \in 0..Len(polls)
    /\ beacon \in Readings \cup {NoReading}
    /\ shown \in Views \cup {NoView} /\ cookSeen \in BOOLEAN /\ timer \in Off..TOTAL
    /\ prev \in Steps \cup {"powered_off", None}
    /\ newCook \in BOOLEAN /\ flags \in Flags /\ prevPrompt \in BOOLEAN
    /\ fired \in [Events -> 0..2]

\* Each milestone is announced at most once for a cook: the end of the preheat, half time,
\* the probe at its target, the call to add food, whatever the lid, gaps, restarts and the
\* order of the polls do (coordinator.py:611-625, tests/test_coordinator.py:153-168).  A
\* cook may be announced anew only by what `fired` begins to count again at:
\*  - a reading older than one shown before (overlapping refreshes, 594-598);
\*  - over Bluetooth, a view that shows no cook while one runs, or drops a prompt, for want
\*    of a beacon or from one of before the cook (376-390, 449-453);
\*  - the answer to a start that comes after the event (649, 1125, 1127-1144);
\*  - for half time, an estimate that begins anew after a gap (464-476, 667-678).
MilestonesOnce ==
    \A e \in {"preheatComplete", "halftime", "probeTarget", "addfood"} : fired[e] <= 1

\* So is its end, through done, idle, an open lid, gaps and restarts.
DoneOnce == fired["done"] <= 1

\* And its start: `_new_cook` outlives gaps, stops and starts that came to nothing, and still
\* spends itself on one cook only (coordinator.py:649-650, 1125).
StartedOnce == fired["started"] <= 1
=============================================================================
