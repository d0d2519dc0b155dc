---------------------------- MODULE Coordinator -----------------------------
(***************************************************************************)
(* The coordinator of one grill (coordinator.py): service calls that send  *)
(* cook commands through the command lock, the poll, the Bluetooth beacon, *)
(* the check that a local start took effect, and the optimistic state that *)
(* all of them show to the user.  The grill, its beacon and the cloud are  *)
(* the environment.                                                        *)
(*                                                                         *)
(* Time passes in ticks.  The limits of the code keep their order: a start *)
(* is checked (25 s) before the command and stop graces end (30 s), and a  *)
(* beacon outlives both (60 s).                                            *)
(***************************************************************************)
EXTENDS ExclusiveLock, WoodfireStates

CONSTANTS
    Kinds,          \* the service calls that users and automations make
    AutoCall,       \* the call made by the coordinator itself (auto-skip), or NoCall
    Transports,     \* what is configured: "ble", "cloud" or both
    Steps,          \* the steps the grill goes through (a bound)
    Starts,         \* TRUE: cooks are also started at the grill itself
    SkipPreheat,    \* cook_setting_skip_preheat
    EagerTasks,     \* hass.async_create_task runs the task at once (external)
    START_CONFIRM_GRACE, ISSUE_GRACE, BEACON_TTL, OFFLINE_AFTER, BLE_RETRY

\* "resting" stands for every step of a cook whose beacon phase and prompt are not
\* mapped (README.md:82-85). A cook that has run out shows "done", then "get food"
\* (ble_beacon.py:50-52); "emptying" is an idle grill with its lid open.
AllSteps == {"asleep", "idle", "preheat", "addfood", "cooking", "lidopen", "resting",
             "done", "getfood", "emptying"}
CookSteps == {"preheat", "addfood", "cooking", "lidopen", "resting"}

ASSUME EnvironmentAssumption ==
    /\ Kinds \subseteq {"start", "stop", "wake", "modify", "skip"}
    /\ AutoCall \in Calls \cup {NoCall}
    /\ Transports \subseteq {"ble", "cloud"} /\ Transports # {}
    /\ {"asleep", "idle", "preheat"} \subseteq Steps /\ Steps \subseteq AllSteps
    /\ {Starts, SkipPreheat, EagerTasks} \subseteq BOOLEAN
    /\ SkipPreheat => AutoCall # NoCall
ASSUME GraceAssumption ==
    /\ {START_CONFIRM_GRACE, ISSUE_GRACE, BEACON_TTL, OFFLINE_AFTER, BLE_RETRY} \subseteq Nat
    /\ START_CONFIRM_GRACE < ISSUE_GRACE
    /\ ISSUE_GRACE < BEACON_TTL

VARIABLES
    \* the environment
    grill,      \* the step the grill is in
    adv,        \* the step its advertisement shows, at most a tick behind
    reported,   \* the step the cloud knows of, arbitrarily behind
    \* the calls
    kind,       \* what an open call does
    pc,
    via,        \* the transport a command went out through, while it is under way
    \* the poll
    poll,       \* "none", the transport it waits for, or "answered" by the cloud
    answer,     \* the step in the cloud's answer, until it is taken in
    transport,  \* self.transport
    recheck,    \* ticks until _ble_recheck_at
    \* what the coordinator knows
    data,       \* self.data: grill.state and online
    beacon,     \* the step the last beacon shows (beacon_phase, _prompt, _lid)
    beaconAge,  \* ticks since _beacon_at
    contactAge, \* ticks since _last_contact_m
    pending,    \* ticks the pending command is still trusted for (0: none)
    stopAge,    \* ticks since _stop_issued_at
    cookSeen, likelyAsleep, autoSkip,
    prev,       \* _prev_grill_state
    verify,     \* ticks until _verify_start_confirmed wakes up
    \* history
    ours,       \* ticks since the last start that succeeded, if it is fresh
    halted      \* a Stop succeeded, and nobody has started a cook since

environment == <<grill, adv, reported>>
calls == <<kind, pc, via>>
polling == <<poll, answer, transport, recheck>>
timers == <<beaconAge, contactAge, pending, stopAge, verify, ours>>
view == <<data, cookSeen, likelyAsleep, prev>>
vars == <<lock, environment, calls, polling, timers, view, beacon, autoSkip, halted>>

Off == -1               \* a timer that is not set; None
None == "none"

BeaconPhase(step) == CASE step = "preheat" -> "preheat"
                       [] step \in {"addfood", "cooking"} -> "cooking"
                       [] OTHER -> None
BeaconPrompt(step) == CASE step = "addfood" -> "addfood"
                        [] step \in {"done", "getfood"} -> step
                        [] OTHER -> None
BeaconLid(step) == step \in {"lidopen", "emptying"}
ShowsCook(step) == BeaconPhase(step) \in BEACON_PHASES

\* What a poll reads. Over Bluetooth the state frame may be missing ("unknown"); the
\* cloud tells more steps apart, and knows when the grill is not connected. To both a
\* cook that has run out is still "cooking" (tests/fixtures/aws_cook_done.json).
BleReadings(step) ==
    {"unknown"} \cup CASE step \in CookSteps \cup {"done", "getfood"} -> {"cooking"}
                       [] step = "asleep" -> {}
                       [] OTHER -> {"idle"}
CloudReading(step) ==
    CASE step = "asleep" -> "powered off" [] step = "addfood" -> "insert_food"
      [] step = "lidopen" -> "lid open"   [] step = "resting" -> "rest"
      [] step \in {"done", "getfood"} -> "cooking" [] step = "emptying" -> "idle"
      [] OTHER -> step

Init ==
    /\ LockInit
    /\ grill \in {"asleep", "idle"} /\ adv = grill /\ reported = grill
    /\ kind = [c \in Calls |-> None]
    /\ pc = [c \in Calls |-> "returned"]
    /\ transport = IF "ble" \in Transports THEN "ble" ELSE "cloud"
    /\ via = [c \in Calls |-> None]
    /\ poll = "none" /\ answer = None /\ recheck = 0
    /\ data = [state |-> IF grill = "idle" THEN "idle" ELSE "powered_off", online |-> TRUE]
    /\ beacon = "idle" /\ beaconAge = BEACON_TTL + 1 /\ contactAge = 0
    /\ pending = 0 /\ stopAge = Off /\ verify = Off /\ ours = Off
    /\ cookSeen = FALSE /\ likelyAsleep = FALSE /\ autoSkip = FALSE
    /\ prev = data.state
    /\ halted = FALSE
-----------------------------------------------------------------------------
(* What a reading becomes before it is shown.                              *)

\* Mutant: the grace of a Stop never ends.
StoppedOnce == stopAge # Off

InStopGrace == stopAge # Off /\ stopAge <= ISSUE_GRACE
BeaconLive == beaconAge <= BEACON_TTL

\* Mutant: within the grace the beacon is ignored, and idle is not pinned.
MergedUnpinned(s, b, seen) ==
    LET prompt == IF seen THEN BeaconPrompt(b) ELSE None
    IN  IF InStopGrace THEN s
        ELSE IF prompt # None THEN PROMPT_STATE[prompt]
        ELSE IF ShowsCook(b) THEN BeaconPhase(b)
        ELSE IF BeaconLid(b) /\ seen THEN "lid_open"
        ELSE IF IsActive(s) THEN s ELSE "idle"

\* `_merge_beacon` with a live beacon `b`; `seen` is `_cook_seen` after the beacon.
Merged(s, b, seen) ==
    LET prompt == IF seen THEN BeaconPrompt(b) ELSE None
    IN  IF InStopGrace THEN "idle"
        ELSE IF prompt # None THEN PROMPT_STATE[prompt]
        ELSE IF ShowsCook(b) THEN BeaconPhase(b)
        ELSE IF BeaconLid(b) /\ seen THEN "lid_open"
        ELSE IF IsActive(s) THEN s ELSE "idle"

\* Shows the reading `s`, merged over Bluetooth with the beacon `b` (if live), and
\* follows the lifecycle: the end of a cook clears `_cook_seen`. A poll that finds
\* the grill offline forgets the cook; a beacon that does leaves it alone.
Show(s, online, b, live, polled) ==
    LET ble == transport = "ble"
        saw == ble /\ live /\ ~InStopGrace /\ ShowsCook(b)
        seen == cookSeen \/ saw
        g == CASE ble /\ live -> Merged(s, b, seen)
               [] ble /\ ~live /\ s = "unknown" -> "powered_off"
               [] OTHER -> s
        ended == prev # None /\ EndsCook(prev, g)
    IN  /\ data' = [state |-> g, online |-> online]
        /\ likelyAsleep' = (likelyAsleep /\ ~saw)
        /\ prev' = IF online THEN (IF g = "unknown" THEN prev ELSE g)
                   ELSE IF polled THEN None ELSE prev
        /\ cookSeen' = (seen /\ ~(online /\ g # "unknown" /\ ended) /\ ~(~online /\ polled))
-----------------------------------------------------------------------------
(* The grill (external).                                                   *)

\* The grill moves on by itself, or is worked on by hand.
Moves(step) ==
    CASE step = "asleep"   -> {"idle"}
      [] step = "idle"     -> {"asleep", "emptying"} \cup (IF Starts THEN {"preheat"} ELSE {})
      [] step = "preheat"  -> {"addfood", "idle"}
      [] step = "addfood"  -> {"cooking", "idle"}
      [] step = "cooking"  -> {"lidopen", "resting", "done", "idle"}
      [] step = "lidopen"  -> {"cooking", "emptying"}
      [] step = "resting"  -> {"done", "idle"}
      [] step = "done"     -> {"getfood", "idle"}
      [] step = "getfood"  -> {"emptying", "idle"}
      [] step = "emptying" -> {"idle"}

GrillMoves ==
    /\ grill' \in Moves(grill) \cap Steps
    /\ halted' = (halted /\ grill' \notin CookSteps)
    /\ UNCHANGED <<lock, adv, reported, calls, polling, timers, view, beacon, autoSkip>>

Advertises ==
    /\ adv # grill /\ adv' = grill
    /\ UNCHANGED <<lock, grill, reported, calls, polling, timers, view, beacon, autoSkip,
                   halted>>

CloudLearns ==
    /\ "cloud" \in Transports /\ reported # grill /\ reported' = grill
    /\ UNCHANGED <<lock, grill, adv, calls, polling, timers, view, beacon, autoSkip, halted>>

\* Ages a timer, up to one past the limit that is asked of it.
Older(age, limit) == IF age = Off \/ age > limit THEN age ELSE age + 1
Sooner(left) == IF left \in {0, Off} THEN left ELSE left - 1

\* Time does not pass over what the event loop has ready: a start check that is due,
\* the waiter that a release has woken.
Tick ==
    /\ verify # 0 /\ (owner = NoCall => waiters = <<>>)
    /\ adv' = grill
    /\ beaconAge' = Older(beaconAge, BEACON_TTL)
    /\ contactAge' = Older(contactAge, OFFLINE_AFTER)
    /\ pending' = Sooner(pending)
    /\ stopAge' = Older(stopAge, ISSUE_GRACE)
    /\ verify' = Sooner(verify)
    /\ ours' = IF ours = ISSUE_GRACE THEN Off ELSE Older(ours, ISSUE_GRACE)
    /\ recheck' = Sooner(recheck)
    /\ UNCHANGED <<lock, grill, reported, calls, poll, answer, transport, view, beacon,
                   autoSkip, halted>>
-----------------------------------------------------------------------------
(* The command bodies.                                                     *)

\* Mutant: Wake does not ask for a pending command.
DeclinesUnasked(k, d) ==
    CASE k = "start"  -> ~d.online
      [] k = "stop"   -> FALSE
      [] k = "wake"   -> d.state \notin STANDBY_STATES
      [] k = "modify" -> ~(d.online /\ IsActive(d.state)) \/ d.state \in REST_STATES
      [] k = "skip"   -> ~(d.online /\ d.state \in PREHEAT_STATES)

\* The guards of a command's body, in the order of the code: what it declines to
\* send when the view it finds inside the lock is `d`.
Declines(k, d) ==
    CASE k = "start"  -> ~d.online
      [] k = "stop"   -> FALSE
      [] k = "wake"   -> pending # 0 \/ d.state \notin STANDBY_STATES
      [] k = "modify" -> ~(d.online /\ IsActive(d.state)) \/ d.state \in REST_STATES
      [] k = "skip"   -> ~(d.online /\ d.state \in PREHEAT_STATES)

\* Inside the lock: the body runs to its send, or declines and the lock is released.
Enter(c, k, d) ==
    IF Declines(k, d)
    THEN /\ pc' = [pc EXCEPT ![c] = "returned"]
         /\ kind' = [kind EXCEPT ![c] = None]
         /\ UNCHANGED <<owner, cmdTask, via>>
    ELSE /\ Take(c)
         /\ pc' = [pc EXCEPT ![c] = "sent"]
         /\ kind' = [kind EXCEPT ![c] = k]
         /\ via' = [via EXCEPT ![c] = transport]

\* The lock is free and nobody waits for it, or the call queues.
EnterOrQueue(c, k, d) ==
    \/ Free /\ Enter(c, k, d) /\ UNCHANGED waiters
    \/ /\ Enqueue(c)
       /\ pc' = [pc EXCEPT ![c] = "queued"]
       /\ kind' = [kind EXCEPT ![c] = k]
       /\ UNCHANGED via

\* Wake forgets the guess that the grill sleeps as it sends.
Woken(c, k) == k = "wake" /\ pc'[c] = "sent"

\* A service call. Stop first drops the watch on the last start and cancels the
\* command in flight; Wake only goes on over Bluetooth.
Call(c, k) ==
    /\ pc[c] = "returned" /\ c # AutoCall
    /\ k = "wake" => transport = "ble"
    /\ verify' = IF k = "stop" THEN Off ELSE verify
    /\ Preempt(k = "stop")
    /\ EnterOrQueue(c, k, data)
    /\ likelyAsleep' = (likelyAsleep /\ ~Woken(c, k))
    /\ UNCHANGED <<environment, polling, beaconAge, contactAge, pending, stopAge, ours,
                   data, cookSeen, prev, beacon, autoSkip, halted>>

\* The first waiter is resumed inside the lock.
Resume(c) ==
    /\ First(c)
    /\ Enter(c, kind[c], data)
    /\ likelyAsleep' = (likelyAsleep /\ ~Woken(c, kind[c]))
    /\ UNCHANGED <<doomed, environment, polling, timers, data, cookSeen, prev,
                   beacon, autoSkip, halted>>

\* What the grill makes of a command (external). Asleep, it takes a start without
\* acting on it, and a stop wakes it over Bluetooth; a start ignores its skip flag,
\* which only a re-issue during preheat gets through (coordinator.py:214-216).
Obeys(k, t) ==
    CASE grill = "asleep" -> IF k \in {"stop", "wake"} /\ t = "ble" THEN "idle" ELSE "asleep"
      [] grill # "asleep" /\ k \in {"stop", "wake"} -> "idle"
      [] grill # "asleep" /\ k = "start" -> "preheat"
      [] grill # "asleep" /\ k \in {"modify", "skip"} ->
            IF grill \notin CookSteps THEN "preheat"
            ELSE IF grill = "preheat" /\ k = "skip" /\ "addfood" \in Steps THEN "addfood"
            ELSE grill

Act(c) ==
    /\ pc[c] = "sent"
    /\ pc' = [pc EXCEPT ![c] = "acted"]
    /\ grill' = Obeys(kind[c], via[c])
    /\ halted' = (halted /\ grill' \notin CookSteps)
    /\ UNCHANGED <<lock, adv, reported, kind, via, polling, timers, view, beacon, autoSkip>>

Leave(c) ==
    /\ Release(c)
    /\ pc' = [pc EXCEPT ![c] = "returned"]
    /\ kind' = [kind EXCEPT ![c] = None]
    /\ via' = [via EXCEPT ![c] = None]
    /\ UNCHANGED <<environment, polling, beaconAge, contactAge, beacon>>

\* A start returned: remembered as pending, shown at once, and, over Bluetooth,
\* watched until a beacon confirms it.
StartDone(c) ==
    /\ kind[c] = "start"
    /\ Leave(c)
    /\ pending' = ISSUE_GRACE + 1
    /\ stopAge' = Off
    /\ ours' = 0
    /\ autoSkip' = SkipPreheat
    /\ data' = [state |-> IF SkipPreheat THEN "cooking" ELSE "preheat", online |-> TRUE]
    /\ IF transport = "ble"
       THEN cookSeen' = FALSE /\ verify' = START_CONFIRM_GRACE
       ELSE UNCHANGED <<cookSeen, verify>>
    /\ halted' = FALSE
    /\ UNCHANGED <<likelyAsleep, prev>>

\* A change of the running cook returned: only remembered as pending.
ReissueDone(c) ==
    /\ kind[c] \in {"modify", "skip"}
    /\ Leave(c)
    /\ pending' = ISSUE_GRACE + 1
    /\ UNCHANGED <<stopAge, verify, ours, view, autoSkip, halted>>

\* Mutant: the auto-skip survives a Stop.
StopDoneStillSkips(c) ==
    /\ kind[c] = "stop"
    /\ Leave(c)
    /\ pending' = 0 /\ stopAge' = 0 /\ ours' = Off
    /\ cookSeen' = FALSE /\ data' = [data EXCEPT !.state = "idle"] /\ halted' = TRUE
    /\ UNCHANGED <<verify, likelyAsleep, prev, autoSkip>>

\* A Stop returned: everything about the cook is dropped and idle is shown.
StopDone(c) ==
    /\ kind[c] = "stop"
    /\ Leave(c)
    /\ pending' = 0
    /\ stopAge' = 0
    /\ ours' = Off
    /\ autoSkip' = FALSE
    /\ cookSeen' = FALSE
    /\ data' = [data EXCEPT !.state = "idle"]
    /\ halted' = TRUE
    /\ UNCHANGED <<verify, likelyAsleep, prev>>

WakeDone(c) ==
    /\ kind[c] = "wake"
    /\ Leave(c)
    /\ UNCHANGED <<pending, stopAge, verify, ours, view, autoSkip, halted>>

Succeed(c) ==
    /\ pc[c] = "acted" /\ c \notin doomed
    /\ StartDone(c) \/ ReissueDone(c) \/ StopDone(c) \/ WakeDone(c)

\* The transport fails, before or after the grill acted (Wake swallows it); or the
\* cancellation of a Stop arrives. Either way nothing is remembered.
Fail(c) ==
    /\ pc[c] \in {"sent", "acted"}
    /\ Leave(c)
    /\ UNCHANGED <<pending, stopAge, verify, ours, view, autoSkip, halted>>

\* Mutant: alarms without looking whether the cook was seen.
VerifyBlind ==
    /\ verify = 0 /\ verify' = Off
    /\ likelyAsleep' = TRUE
    /\ UNCHANGED <<lock, environment, calls, polling, beaconAge, contactAge, pending,
                   stopAge, ours, data, cookSeen, prev, beacon, autoSkip, halted>>

\* `_verify_start_confirmed` wakes up after START_CONFIRM_GRACE.
VerifyFires ==
    /\ verify = 0
    /\ verify' = Off
    /\ likelyAsleep' = (likelyAsleep \/ ~cookSeen)
    /\ UNCHANGED <<lock, environment, calls, polling, beaconAge, contactAge, pending,
                   stopAge, ours, data, cookSeen, prev, beacon, autoSkip, halted>>
-----------------------------------------------------------------------------
(* Beacons and polls.                                                      *)

\* `update_beacon`: stored, and pushed into the view while Bluetooth serves it.
ReceiveBeacon ==
    /\ "ble" \in Transports /\ adv # "asleep"
    /\ beacon' = adv /\ beaconAge' = 0 /\ contactAge' = 0
    /\ IF transport = "ble" THEN Show(data.state, data.online, adv, TRUE, FALSE)
                            ELSE UNCHANGED view
    /\ UNCHANGED <<lock, environment, calls, polling, pending, stopAge, verify, ours,
                   autoSkip, halted>>

\* A poll begins; Bluetooth is tried again when its retry time has come.
PollStart ==
    /\ poll = "none"
    /\ transport' = IF "ble" \in Transports /\ recheck = 0 THEN "ble" ELSE transport
    /\ poll' = transport'
    /\ UNCHANGED <<lock, environment, calls, answer, recheck, timers, view, beacon, autoSkip,
                   halted>>

\* The auto-skip at the end of a poll: the flag goes, and a task skips the preheat.
AutoSkip ==
    IF autoSkip /\ data'.online /\ data'.state \in PREHEAT_STATES
    THEN /\ pc[AutoCall] = "returned"
         /\ autoSkip' = FALSE
         /\ EnterOrQueue(AutoCall, "skip", IF EagerTasks THEN data ELSE data')
         /\ UNCHANGED doomed
    ELSE UNCHANGED <<lock, calls, autoSkip>>

\* The rest of a poll that got the reading `s`.
Apply(s, online) ==
    /\ Show(s, online, beacon, BeaconLive, TRUE)
    /\ AutoSkip
    /\ poll' = "none" /\ answer' = None
    /\ UNCHANGED <<environment, transport, recheck, beaconAge, pending, stopAge,
                   verify, ours, beacon, halted>>

\* The Bluetooth link has one user at a time, and a command lets go of it last.
RadioFree == \A c \in Calls : ~(pc[c] = "acted" /\ via[c] = "ble")

BleReads(readings) ==
    /\ poll = "ble" /\ RadioFree
    /\ \E s \in readings : Apply(s, TRUE)
    /\ contactAge' = 0

BleAnswers == BleReads(BleReadings(grill))
BleReports == BleReads(BleReadings(grill) \ {"unknown"})

\* Without a cloud: the last state for a while, then offline. `_merge_beacon` and
\* the rest work on that state as on any other.
BleFailsAlone ==
    /\ poll = "ble" /\ RadioFree /\ "cloud" \notin Transports
    /\ IF contactAge <= OFFLINE_AFTER THEN Apply(data.state, data.online)
                                      ELSE Apply("powered_off", FALSE)
    /\ UNCHANGED contactAge

\* With a cloud: the same poll goes on there, and Bluetooth rests for a while.
BleFallsBack ==
    /\ poll = "ble" /\ RadioFree /\ "cloud" \in Transports
    /\ transport' = "cloud" /\ poll' = "cloud" /\ recheck' = BLE_RETRY
    /\ UNCHANGED <<lock, environment, calls, answer, timers, view, beacon, autoSkip, halted>>

\* The cloud takes its snapshot; the answer arrives later.
CloudAnswers ==
    /\ poll = "cloud"
    /\ poll' = "answered" /\ answer' = reported
    /\ UNCHANGED <<lock, environment, calls, transport, recheck, timers, view, beacon,
                   autoSkip, halted>>

CloudArrives ==
    /\ poll = "answered"
    /\ Apply(CloudReading(answer), answer # "asleep")
    /\ contactAge' = 0

\* The cloud fails as well: UpdateFailed, and the view is left as it is.
CloudFails ==
    /\ poll = "cloud" /\ poll' = "none"
    /\ UNCHANGED <<lock, environment, calls, answer, transport, recheck, timers, view,
                   beacon, autoSkip, halted>>
-----------------------------------------------------------------------------
World == GrillMoves \/ Advertises \/ CloudLearns \/ Tick

Poll == PollStart \/ BleAnswers \/ BleFailsAlone \/ BleFallsBack
        \/ CloudAnswers \/ CloudArrives \/ CloudFails

Command(c) ==
    \/ \E k \in Kinds : Call(c, k)
    \/ Resume(c) \/ Act(c) \/ Succeed(c) \/ Fail(c)

Next ==
    \/ World \/ ReceiveBeacon \/ Poll \/ VerifyFires
    \/ \E c \in Calls : Command(c)

Spec == Init /\ [][Next]_vars

\* The loop runs what is due and the grill advertises; a poll always ends, and of
\* infinitely many polls over Bluetooth some get the state frame of the grill.
Fairness ==
    /\ WF_vars(Tick) /\ WF_vars(ReceiveBeacon) /\ WF_vars(VerifyFires)
    /\ WF_vars(PollStart)
    /\ WF_vars(BleAnswers \/ BleFailsAlone \/ BleFallsBack)
    /\ WF_vars(CloudAnswers \/ CloudFails) /\ WF_vars(CloudArrives)
    /\ \A c \in Calls : WF_vars(Resume(c)) /\ WF_vars(Succeed(c) \/ Fail(c))

DeafSpec == Spec /\ Fairness
FairSpec == DeafSpec /\ SF_vars(BleReports)
-----------------------------------------------------------------------------
States == ACTIVE_STATES \cup IDLE_STATES \cup {"done"}
Points == {"returned", "queued", "sent", "acted"}

TypeOK ==
    /\ owner \in Calls \cup {NoCall} /\ cmdTask \in Calls \cup {NoCall}
    /\ waiters \in Seq(Calls) /\ doomed \subseteq {owner}
    /\ grill \in Steps /\ adv \in Steps /\ reported \in Steps
    /\ answer \in Steps \cup {None} /\ beacon \in Steps \ {"asleep"}
    /\ kind \in [Calls -> Kinds \cup {None, "skip"}]
    /\ pc \in [Calls -> Points]
    /\ via \in [Calls -> Transports \cup {None}]
    /\ transport \in Transports
    /\ poll \in {"none", "answered"} \cup Transports
    /\ data \in [state : States, online : BOOLEAN] /\ prev \in States
    /\ beaconAge \in 0..(BEACON_TTL + 1) /\ contactAge \in 0..(OFFLINE_AFTER + 1)
    /\ pending \in 0..(ISSUE_GRACE + 1) /\ recheck \in 0..BLE_RETRY
    /\ stopAge \in Off..(ISSUE_GRACE + 1) /\ ours \in Off..ISSUE_GRACE
    /\ verify \in Off..START_CONFIRM_GRACE
    /\ cookSeen \in BOOLEAN /\ likelyAsleep \in BOOLEAN
    /\ autoSkip \in BOOLEAN /\ halted \in BOOLEAN

\* The idle a Stop shows does not flicker back while the Stop is fresh and beacons
\* come in: whatever lagging beacon or poll, or cook at the grill, meets it, nothing
\* that is shown over Bluetooth meanwhile is active (coordinator.py:173-175, 397-400,
\* 427-435).
IdleHeldInGrace ==
    [][transport' = "ble" /\ (beaconAge <= BEACON_TTL /\ InStopGrace)' /\ data' # data
          => ~IsActive(data'.state)]_vars

\* The stop command of a Wake never ends a cook that a Start of this integration
\* brought up within the command grace: whatever they race through, the Start is
\* pending when the Wake gets the lock (coordinator.py:1197-1199).
WakeSparesFreshStart ==
    [][\A c \in Calls : Act(c) /\ kind[c] = "wake" =>
          ~(ours # Off /\ grill \in CookSteps)]_vars

\* "Probably asleep" and "a cook phase has been seen" are never both believed: the
\* card offers Wake only on an unconfirmed grill (coordinator.py:226-229).
AsleepUnconfirmed == ~(likelyAsleep /\ cookSeen)

\* While a Stop is fresh no skip of the preheat reaches the grill, which would take it
\* for a start: neither one that was queued behind the Stop nor one made on a view that
\* a late poll or beacon has touched (coordinator.py:1227-1236). A skip that waits for
\* the lock until the grace is over is on its own: it trusts the last beacon's phase.
NoSkipWhileStopFresh ==
    \A c \in Calls : Act(c) /\ kind[c] = "skip" => ~InStopGrace

\* After a Stop the coordinator makes no skip of its own until a cook is started, by
\* anybody (coordinator.py:298-302, 1176-1181).
NoSkipOfItsOwn ==
    \A c \in Calls : c = AutoCall /\ pc[c] = "returned" /\ pc'[c] # "returned" => ~halted

\* After a Stop no preheat is skipped on behalf of the cook it ended.
SkipSparesStopped == [][NoSkipWhileStopFresh /\ NoSkipOfItsOwn]_vars

\* A fresh beacon with no active phase means the grill is idle
\* (coordinator.py:450): a grill that stays idle is shown so again and again.
IdleFollows == <>[](grill = "idle") => []<>~IsActive(data.state)

\* What the view shows follows the grill: a cook that stays is shown again and again,
\* and so is a grill that stays idle, also across the grace of a Stop.
ViewFollows ==
    /\ <>[](grill = "preheat") => []<>IsActive(data.state)
    /\ IdleFollows
=============================================================================
