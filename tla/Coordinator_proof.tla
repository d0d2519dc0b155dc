-------------------------- MODULE Coordinator_proof -------------------------
(***************************************************************************)
(* TLAPS proofs about Coordinator, for any calls, transports, steps of the *)
(* cook and graces in the order of the code's: its types, that a grill     *)
(* with a confirmed cook is not called asleep, that no Wake ends a fresh   *)
(* start, that the idle a Stop shows holds through its grace, that no skip *)
(* is sent for a cook that was stopped, and that it keeps the promise of   *)
(* GrillControl to its callers.                                            *)
(***************************************************************************)
EXTENDS CoordinatorHistory, TLAPS

\* `_cmd_task` is the task inside the lock, and only that one has a command under
\* way (coordinator.py:896-910).
LockInv ==
    /\ cmdTask = owner /\ doomed \subseteq Calls
    /\ \A c \in Calls : pc[c] \in {"sent", "acted"} <=> c = owner

\* The waiters of the lock are the calls that queue, each once; an open call does
\* something.
QueueInv ==
    /\ \A i \in 1..Len(waiters) : pc[waiters[i]] = "queued"
    /\ \A i, j \in 1..Len(waiters) : waiters[i] = waiters[j] => i = j
    /\ \A c \in Calls : pc[c] # "returned" => kind[c] # None

\* The flag is armed by starts of cooks whose preheat is to be skipped, and dropped
\* by the Stop that ends them.
SkipInv == autoSkip => SkipPreheat /\ ~halted

\* A start that is still fresh is still pending, so that a Wake that got past the
\* question was sent with no fresh start about (coordinator.py:1197-1199).
FreshInv ==
    /\ ours # Off => pending >= ISSUE_GRACE + 1 - ours
    /\ \A c \in Calls : pc[c] = "sent" /\ kind[c] = "wake" => ours = Off

IInv == TypeOK /\ LockInv /\ QueueInv /\ SkipInv /\ FreshInv /\ AsleepUnconfirmed

-----------------------------------------------------------------------------
(* Lemmas about the constants and the operators.                           *)

\* Lemma: the graces are natural numbers.
LEMMA Graces ==
    /\ START_CONFIRM_GRACE \in Nat /\ ISSUE_GRACE \in Nat /\ BEACON_TTL \in Nat
    /\ OFFLINE_AFTER \in Nat /\ BLE_RETRY \in Nat
    /\ START_CONFIRM_GRACE < ISSUE_GRACE
  BY GraceAssumption

\* Lemma: ageing a timer keeps it within one of its limit.
LEMMA OlderType ==
  ASSUME NEW limit \in Nat, NEW age \in Off..(limit + 1)
  PROVE  /\ Older(age, limit) \in Off..(limit + 1)
         /\ age # Off => Older(age, limit) \in 0..(limit + 1)
  BY DEF Older, Off

\* Lemma: counting down stops at zero.
LEMMA SoonerType ==
  ASSUME NEW limit \in Nat, NEW left \in Off..limit
  PROVE  /\ Sooner(left) \in Off..limit
         /\ left # Off => Sooner(left) \in 0..limit
         /\ left > 0 => Sooner(left) = left - 1
  BY DEF Sooner, Off

\* Lemma: what is shown is one of the states, and an ended cook is not an active one.
LEMMA StateFacts ==
    /\ "idle" \in States /\ "powered_off" \in States /\ "cooking" \in States
    /\ "preheat" \in States /\ "unknown" \in States /\ "lid_open" \in States
    /\ None \in States /\ ~IsActive("idle")
  BY DEF States, ACTIVE_STATES, IDLE_STATES, PREHEAT_STATES, COOKING_STATES, REST_STATES,
         PAUSED_STATES, IsActive, None

\* Lemma: a reading merged with a beacon is a state.
LEMMA MergedType ==
  ASSUME NEW s \in States, NEW b \in Steps, NEW seen \in BOOLEAN
  PROVE  Merged(s, b, seen) \in States
  <1>1. b \in AllSteps
    BY EnvironmentAssumption
  <1>2. BeaconPhase(b) \in {"preheat", "cooking", None}
    BY DEF BeaconPhase
  <1>3. ShowsCook(b) => BeaconPhase(b) \in {"preheat", "cooking"}
    BY <1>2 DEF ShowsCook, BEACON_PHASES, None
  <1>4. BeaconPrompt(b) \in {"addfood", "done", "getfood", None}
    BY DEF BeaconPrompt
  <1>5. \A p \in {"addfood", "done", "getfood"} : PROMPT_STATE[p] \in States
    <2>1. /\ PROMPT_STATE["addfood"] = "insert_food"
          /\ PROMPT_STATE["getfood"] = "get_food"
          /\ PROMPT_STATE["done"] = "done"
      BY DEF PROMPT_STATE
    <2> QED BY <2>1 DEF States, ACTIVE_STATES, PAUSED_STATES
  <1> QED BY <1>3, <1>4, <1>5, StateFacts DEF Merged

\* Lemma: what the polls read is a state.
LEMMA ReadingType ==
    /\ \A step \in Steps : BleReadings(step) \subseteq States
    /\ \A step \in Steps \cup {None} : CloudReading(step) \in States
  BY EnvironmentAssumption
  DEF AllSteps, BleReadings, CloudReading, States, None, ACTIVE_STATES, IDLE_STATES,
      PREHEAT_STATES, COOKING_STATES, REST_STATES, PAUSED_STATES

\* Lemma: showing a reading keeps the types of the view, and never leaves both the
\* guess that the grill sleeps and a cook that was seen (coordinator.py:226-229).
LEMMA ShowView ==
  ASSUME IInv, NEW s \in States, NEW online \in BOOLEAN, NEW b \in Steps,
         NEW live \in BOOLEAN, NEW polled \in BOOLEAN, Show(s, online, b, live, polled)
  PROVE  /\ data' \in [state : States, online : BOOLEAN] /\ prev' \in States
         /\ cookSeen' \in BOOLEAN /\ likelyAsleep' \in BOOLEAN
         /\ ~(likelyAsleep' /\ cookSeen')
  <1> DEFINE ble == transport = "ble"
             saw == ble /\ live /\ ~InStopGrace /\ ShowsCook(b)
             seen == cookSeen \/ saw
             g == CASE ble /\ live -> Merged(s, b, seen)
                    [] ble /\ ~live /\ s = "unknown" -> "powered_off"
                    [] OTHER -> s
             ended == prev # None /\ EndsCook(prev, g)
  <1>1. /\ data' = [state |-> g, online |-> online]
        /\ likelyAsleep' = (likelyAsleep /\ ~saw)
        /\ prev' = IF online THEN (IF g = "unknown" THEN prev ELSE g)
                   ELSE IF polled THEN None ELSE prev
        /\ cookSeen' = (seen /\ ~(online /\ g # "unknown" /\ ended) /\ ~(~online /\ polled))
    BY DEF Show
  <1>2. seen \in BOOLEAN
    OBVIOUS
  <1>3. Merged(s, b, seen) \in States
    BY <1>2, MergedType
  <1>4. g \in States
    BY <1>3, StateFacts
  <1>5. prev \in States
    BY DEF IInv, TypeOK
  <1> HIDE DEF g, ended
  <1>6. prev' \in States
    BY <1>1, <1>4, <1>5, StateFacts
  <1>7. data' \in [state : States, online : BOOLEAN]
    BY <1>1, <1>4
  <1>8. ~(likelyAsleep' /\ cookSeen')
    BY <1>1 DEF IInv, AsleepUnconfirmed
  <1>9. cookSeen' \in BOOLEAN /\ likelyAsleep' \in BOOLEAN
    BY <1>1
  <1> QED BY <1>6, <1>7, <1>8, <1>9

-----------------------------------------------------------------------------
(* The lock.                                                               *)

\* The part of the invariant that is about the calls and their lock.
CallsInv ==
    /\ owner \in Calls \cup {NoCall} /\ cmdTask \in Calls \cup {NoCall}
    /\ waiters \in Seq(Calls) /\ doomed \subseteq {owner}
    /\ kind \in [Calls -> Kinds \cup {None, "skip"}]
    /\ pc \in [Calls -> Points]
    /\ via \in [Calls -> Transports \cup {None}]
    /\ LockInv /\ QueueInv

\* Lemma: while nobody is inside the lock, nothing is under way or doomed.
LEMMA LockEmpty ==
  ASSUME IInv, owner = NoCall
  PROVE  doomed = {} /\ \A c \in Calls : pc[c] \notin {"sent", "acted"}
  BY NoCallAssumption DEF IInv, TypeOK, LockInv

\* Lemma: a call that gets the lock takes it or is through, and a Wake that is sent
\* found nothing pending, so that no start is fresh.
LEMMA EnterKeeps ==
  ASSUME IInv, NEW c \in Calls, NEW k \in Kinds \cup {"skip"}, NEW d,
         owner = NoCall, Enter(c, k, d), doomed' = doomed, waiters' \in Seq(Calls),
         \A i \in 1..Len(waiters') : waiters'[i] # c /\ pc[waiters'[i]] = "queued",
         \A i, j \in 1..Len(waiters') : waiters'[i] = waiters'[j] => i = j
  PROVE  /\ CallsInv'
         /\ \A x \in Calls : pc'[x] = "sent" /\ kind'[x] = "wake" => ours = Off
  <1>1. doomed = {} /\ \A x \in Calls : pc[x] \notin {"sent", "acted"}
    BY LockEmpty
  <1>2. k # None
    BY EnvironmentAssumption DEF None
  <1>3. ASSUME NEW p \in Points, pc' = [pc EXCEPT ![c] = p],
               NEW q, kind' = [kind EXCEPT ![c] = q], p = "returned" \/ q # None
        PROVE  QueueInv'
    <2>1. \A i \in 1..Len(waiters') : waiters'[i] \in Calls
      OBVIOUS
    <2>2. \A i \in 1..Len(waiters') : pc'[waiters'[i]] = "queued"
      BY <1>3, <2>1 DEF IInv, TypeOK
    <2>3. \A x \in Calls : pc'[x] # "returned" => kind'[x] # None
      BY <1>3 DEF IInv, TypeOK, QueueInv
    <2> QED BY <2>2, <2>3 DEF QueueInv
  <1>4. CASE Declines(k, d)
    <2>1. /\ owner' = NoCall /\ cmdTask' = cmdTask /\ via' = via
          /\ pc' = [pc EXCEPT ![c] = "returned"] /\ kind' = [kind EXCEPT ![c] = None]
      BY <1>4 DEF Enter
    <2>2. \A x \in Calls : pc'[x] \notin {"sent", "acted"}
      BY <1>1, <2>1 DEF IInv, TypeOK
    <2>3. kind' \in [Calls -> Kinds \cup {None, "skip"}] /\ pc' \in [Calls -> Points]
      BY <2>1 DEF IInv, TypeOK, Points
    <2>4. QueueInv'
      BY <1>3, <2>1 DEF Points
    <2> QED BY <1>1, <2>1, <2>2, <2>3, <2>4, NoCallAssumption DEF IInv, TypeOK, LockInv, CallsInv
  <1>5. CASE ~Declines(k, d)
    <2>1. /\ owner' = c /\ cmdTask' = c
          /\ pc' = [pc EXCEPT ![c] = "sent"] /\ kind' = [kind EXCEPT ![c] = k]
          /\ via' = [via EXCEPT ![c] = transport]
      BY <1>5 DEF Enter, Take
    <2>2. \A x \in Calls : pc'[x] \in {"sent", "acted"} <=> x = c
      BY <1>1, <2>1 DEF IInv, TypeOK
    <2>3. /\ kind' \in [Calls -> Kinds \cup {None, "skip"}] /\ pc' \in [Calls -> Points]
          /\ via' \in [Calls -> Transports \cup {None}]
      BY <2>1 DEF IInv, TypeOK, Points
    <2>4. ASSUME NEW x \in Calls, pc'[x] = "sent", kind'[x] = "wake" PROVE ours = Off
      <3>1. x = c /\ k = "wake"
        BY <2>2, <2>4, <2>1 DEF IInv, TypeOK
      <3>2. pending = 0
        BY <3>1, <1>5 DEF Declines
      <3> QED BY <3>2, Graces DEF IInv, TypeOK, FreshInv, Off
    <2>5. QueueInv'
      <3>1. "sent" \in Points
        BY DEF Points
      <3>2. kind' = [kind EXCEPT ![c] = k]
        BY <2>1
      <3>3. pc' = [pc EXCEPT ![c] = "sent"]
        BY <2>1
      <3> QED BY ONLY <1>2, <1>3, <3>1, <3>2, <3>3, Zenon
    <2> QED BY <1>1, <2>1, <2>2, <2>3, <2>4, <2>5 DEF LockInv, CallsInv
  <1> QED BY <1>4, <1>5

\* Lemma: a call that is made, by a user or by the auto-skip, keeps the lock
\* invariant, whether it gets the lock at once or queues, and whether or not it
\* cancels what is in flight (coordinator.py:896-910).
LEMMA CallKeeps ==
  ASSUME IInv, NEW c \in Calls, NEW k \in Kinds \cup {"skip"}, NEW d,
         pc[c] = "returned", EnterOrQueue(c, k, d),
         doomed' \subseteq doomed \cup ({cmdTask} \ {NoCall})
  PROVE  /\ CallsInv'
         /\ \A x \in Calls : pc'[x] = "sent" /\ kind'[x] = "wake" => ours = Off
  <1>1. CASE Free /\ Enter(c, k, d) /\ UNCHANGED waiters
    <2>1. owner = NoCall /\ cmdTask = NoCall
      BY <1>1 DEF Free, IInv, LockInv
    <2>2. doomed' = doomed
      BY <2>1, LockEmpty
    <2>3. waiters' = <<>> /\ waiters' \in Seq(Calls) /\ Len(waiters') = 0
      BY <1>1 DEF Free
    <2> QED BY <1>1, <2>1, <2>2, <2>3, EnterKeeps
  <1>2. CASE /\ Enqueue(c)
             /\ pc' = [pc EXCEPT ![c] = "queued"] /\ kind' = [kind EXCEPT ![c] = k]
             /\ UNCHANGED via
    <2>1. UNCHANGED <<owner, cmdTask>> /\ waiters' \in Seq(Calls)
      BY <1>2 DEF Enqueue, IInv, TypeOK
    <2>2. \A x \in Calls : pc'[x] \in {"sent", "acted"} <=> x = owner
      BY <1>2 DEF IInv, TypeOK, LockInv
    <2>3. kind' \in [Calls -> Kinds \cup {None, "skip"}] /\ pc' \in [Calls -> Points]
      BY <1>2 DEF IInv, TypeOK, Points
    <2>4. \A x \in Calls : pc'[x] = "sent" /\ kind'[x] = "wake" => ours = Off
      BY <1>2 DEF IInv, TypeOK, FreshInv
    <2>5. doomed' \subseteq {owner} /\ doomed' \subseteq Calls
      BY DEF IInv, TypeOK, LockInv
    <2>6. /\ Len(waiters) \in Nat /\ Len(waiters') = Len(waiters) + 1
          /\ \A i \in 1..Len(waiters) : waiters'[i] = waiters[i] /\ waiters[i] \in Calls
          /\ waiters'[Len(waiters) + 1] = c
      BY <1>2 DEF Enqueue, IInv, TypeOK
    <2>7. QueueInv'
      <3>1. \A i \in 1..Len(waiters) : waiters[i] # c /\ pc[waiters[i]] = "queued"
        BY DEF IInv, QueueInv
      <3>2. k # None
        BY EnvironmentAssumption DEF None
      <3>3. \A i \in 1..Len(waiters') : pc'[waiters'[i]] = "queued"
        BY <1>2, <2>6, <3>1 DEF IInv, TypeOK
      <3>4. \A i, j \in 1..Len(waiters') : waiters'[i] = waiters'[j] => i = j
        BY <2>6, <3>1 DEF IInv, QueueInv
      <3>5. \A x \in Calls : pc'[x] # "returned" => kind'[x] # None
        BY <1>2, <3>2 DEF IInv, TypeOK, QueueInv
      <3> QED BY <3>3, <3>4, <3>5 DEF QueueInv
    <2> QED BY <1>2, <2>1, <2>2, <2>3, <2>4, <2>5, <2>7 DEF CallsInv, LockInv, IInv, TypeOK
  <1> QED BY <1>1, <1>2 DEF EnterOrQueue

\* Lemma: a command that leaves gives the lock up and takes its cancellation along.
LEMMA LeaveKeeps ==
  ASSUME IInv, NEW c \in Calls, pc[c] \in {"sent", "acted"}, Leave(c)
  PROVE  CallsInv' /\ \A x \in Calls : pc'[x] \notin {"sent", "acted"}
  <1>1. c = owner
    BY DEF IInv, LockInv
  <1>2. /\ owner' = NoCall /\ cmdTask' = NoCall /\ doomed' = doomed \ {c}
        /\ waiters' = waiters
        /\ pc' = [pc EXCEPT ![c] = "returned"] /\ kind' = [kind EXCEPT ![c] = None]
        /\ via' = [via EXCEPT ![c] = None]
    BY DEF Leave, Release
  <1>3. \A x \in Calls : pc'[x] \notin {"sent", "acted"}
    BY <1>1, <1>2 DEF IInv, TypeOK, LockInv
  <1>4. /\ kind' \in [Calls -> Kinds \cup {None, "skip"}] /\ pc' \in [Calls -> Points]
        /\ via' \in [Calls -> Transports \cup {None}]
    BY <1>2 DEF IInv, TypeOK, Points
  <1>5. doomed' = {}
    BY <1>1, <1>2 DEF IInv, TypeOK
  <1>6. QueueInv'
    <2>1. \A i \in 1..Len(waiters) : waiters[i] \in Calls /\ waiters[i] # c
      BY DEF IInv, TypeOK, QueueInv
    <2>2. \A i \in 1..Len(waiters') : pc'[waiters'[i]] = "queued"
      BY <1>2, <2>1 DEF IInv, TypeOK, QueueInv
    <2>3. \A x \in Calls : pc'[x] # "returned" => kind'[x] # None
      BY <1>2 DEF IInv, TypeOK, QueueInv
    <2> QED BY <1>2, <2>2, <2>3 DEF IInv, QueueInv
  <1> QED BY <1>2, <1>3, <1>4, <1>5, <1>6, NoCallAssumption
          DEF CallsInv, LockInv, IInv, TypeOK

-----------------------------------------------------------------------------
(* The invariant by the variables it is about.                             *)

WorldInv ==
    /\ grill \in Steps /\ adv \in Steps /\ reported \in Steps
    /\ answer \in Steps \cup {None} /\ beacon \in Steps \ {"asleep"}
    /\ transport \in Transports /\ poll \in {"none", "answered"} \cup Transports
    /\ recheck \in 0..BLE_RETRY

AgesInv ==
    /\ beaconAge \in 0..(BEACON_TTL + 1) /\ contactAge \in 0..(OFFLINE_AFTER + 1)
    /\ stopAge \in Off..(ISSUE_GRACE + 1) /\ verify \in Off..START_CONFIRM_GRACE

PendingInv ==
    /\ pending \in 0..(ISSUE_GRACE + 1) /\ ours \in Off..ISSUE_GRACE
    /\ ours # Off => pending >= ISSUE_GRACE + 1 - ours

WakeInv == \A c \in Calls : pc[c] = "sent" /\ kind[c] = "wake" => ours = Off

ViewInv ==
    /\ data \in [state : States, online : BOOLEAN] /\ prev \in States
    /\ cookSeen \in BOOLEAN /\ likelyAsleep \in BOOLEAN
    /\ ~(likelyAsleep /\ cookSeen)

FlagsInv == autoSkip \in BOOLEAN /\ halted \in BOOLEAN /\ (autoSkip => SkipPreheat /\ ~halted)

\* Lemma: the parts are the invariant, before a step and after it.
LEMMA Parts ==
    /\ IInv <=> CallsInv /\ WorldInv /\ AgesInv /\ PendingInv /\ WakeInv /\ ViewInv /\ FlagsInv
    /\ IInv' <=> CallsInv' /\ WorldInv' /\ AgesInv' /\ PendingInv' /\ WakeInv' /\ ViewInv'
                 /\ FlagsInv'
  BY DEF IInv, TypeOK, SkipInv, FreshInv, AsleepUnconfirmed, CallsInv, WorldInv, AgesInv,
         PendingInv, WakeInv, ViewInv, FlagsInv

\* Lemma: no call, no timer set, a view of what the grill is.
LEMMA InitIInv == Init => IInv
  <1> SUFFICES ASSUME Init PROVE IInv
    OBVIOUS
  <1>1. CallsInv /\ WakeInv
    <2>1. QueueInv
      BY DEF Init, LockInit, QueueInv
    <2> QED BY <2>1, NoCallAssumption
            DEF Init, LockInit, CallsInv, LockInv, WakeInv, Points, None
  <1>2. WorldInv
    <2>1. "asleep" \in Steps /\ "idle" \in Steps
      BY EnvironmentAssumption
    <2>2. transport \in Transports
      BY EnvironmentAssumption DEF Init
    <2> QED BY <2>1, <2>2, Graces DEF Init, WorldInv
  <1>3. AgesInv /\ PendingInv
    BY Graces DEF Init, AgesInv, PendingInv, Off
  <1>4. ViewInv /\ FlagsInv
    BY StateFacts DEF Init, ViewInv, FlagsInv
  <1> QED BY <1>1, <1>2, <1>3, <1>4, Parts

\* Lemma: time keeps the ages within their limits, and a start stays pending as long
\* as it is fresh.
LEMMA TickKeeps == IInv /\ Tick => IInv'
  <1> SUFFICES ASSUME IInv, Tick PROVE IInv'
    OBVIOUS
  <1> USE Parts
  <1>1. CallsInv' /\ ViewInv' /\ FlagsInv'
    BY DEF Tick, lock, calls, view, CallsInv, LockInv, QueueInv, ViewInv, FlagsInv
  <1>2. WorldInv'
    BY SoonerType, Graces DEF Tick, WorldInv, Off
  <1>3. AgesInv'
    <2>1. beaconAge' \in 0..(BEACON_TTL + 1)
      BY OlderType, Graces DEF Tick, AgesInv, Off
    <2>2. contactAge' \in 0..(OFFLINE_AFTER + 1)
      BY OlderType, Graces DEF Tick, AgesInv, Off
    <2>3. stopAge' \in Off..(ISSUE_GRACE + 1) /\ verify' \in Off..START_CONFIRM_GRACE
      BY OlderType, SoonerType, Graces DEF Tick, AgesInv
    <2> QED BY <2>1, <2>2, <2>3 DEF AgesInv
  <1>4. PendingInv'
    BY Graces DEF Tick, PendingInv, Older, Sooner, Off
  <1>5. WakeInv'
    BY DEF Tick, calls, WakeInv, Older, Off
  <1> QED BY <1>1, <1>2, <1>3, <1>4, <1>5

\* Lemma: what a command leaves behind: a start is pending and fresh, a Stop drops
\* both, and nothing is said of a grill that sleeps.
LEMMA LeavesKeep ==
  ASSUME IInv, NEW c \in Calls, Succeed(c) \/ Fail(c)
  PROVE  IInv'
  <1> USE Parts
  <1>1. pc[c] \in {"sent", "acted"} /\ Leave(c)
    BY DEF Succeed, Fail, StartDone, ReissueDone, StopDone, WakeDone
  <1>2. CallsInv' /\ \A x \in Calls : pc'[x] \notin {"sent", "acted"}
    BY <1>1, LeaveKeeps
  <1>3. WakeInv'
    BY <1>2 DEF WakeInv
  <1>4. WorldInv'
    BY <1>1 DEF Leave, environment, polling, WorldInv
  <1>5. CASE StartDone(c)
    <2>1. AgesInv'
      BY <1>1, <1>5, Graces DEF StartDone, Leave, AgesInv, Off
    <2>2. PendingInv'
      BY <1>5, Graces DEF StartDone, PendingInv, Off
    <2>3. ViewInv'
      BY <1>5, StateFacts DEF StartDone, ViewInv
    <2>4. FlagsInv'
      BY <1>5, EnvironmentAssumption DEF StartDone, FlagsInv
    <2> QED BY <1>2, <1>3, <1>4, <2>1, <2>2, <2>3, <2>4
  <1>6. CASE StopDone(c)
    <2>1. AgesInv'
      BY <1>1, <1>6, Graces DEF StopDone, Leave, AgesInv, Off
    <2>2. PendingInv'
      BY <1>6, Graces DEF StopDone, PendingInv, Off
    <2>3. ViewInv'
      BY <1>6, StateFacts DEF StopDone, ViewInv
    <2>4. FlagsInv'
      BY <1>6 DEF StopDone, FlagsInv
    <2> QED BY <1>2, <1>3, <1>4, <2>1, <2>2, <2>3, <2>4
  <1>7. CASE ReissueDone(c) \/ WakeDone(c) \/ Fail(c)
    <2>1. UNCHANGED <<stopAge, verify, ours, view, autoSkip, halted, beaconAge, contactAge>>
      BY <1>7 DEF ReissueDone, WakeDone, Fail, Leave
    <2>2. pending' \in {pending, ISSUE_GRACE + 1}
      BY <1>7 DEF ReissueDone, WakeDone, Fail
    <2>3. AgesInv' /\ ViewInv' /\ FlagsInv'
      BY <2>1 DEF view, AgesInv, ViewInv, FlagsInv
    <2>4. PendingInv'
      BY <2>1, <2>2, Graces DEF PendingInv, Off
    <2> QED BY <1>2, <1>3, <1>4, <2>3, <2>4
  <1> QED BY <1>5, <1>6, <1>7 DEF Succeed

\* Lemma: the end of a poll shows what it read, and may send the auto-skip.
LEMMA ApplyKeeps ==
  ASSUME IInv, NEW s \in States, NEW online \in BOOLEAN, Apply(s, online),
         contactAge' \in 0..(OFFLINE_AFTER + 1)
  PROVE  IInv'
  <1> USE Parts
  <1>1. Show(s, online, beacon, BeaconLive, TRUE) /\ AutoSkip
    BY DEF Apply
  <1>2. BeaconLive \in BOOLEAN /\ beacon \in Steps
    BY DEF BeaconLive, WorldInv
  <1>3. ViewInv'
    BY <1>1, <1>2, ShowView DEF ViewInv
  <1>4. WorldInv' /\ AgesInv' /\ PendingInv'
    BY DEF Apply, environment, WorldInv, AgesInv, PendingInv
  <1>5. CASE autoSkip /\ data'.online /\ data'.state \in PREHEAT_STATES
    <2>1. AutoCall \in Calls /\ pc[AutoCall] = "returned" /\ autoSkip' = FALSE
      BY <1>1, <1>5, EnvironmentAssumption DEF AutoSkip, FlagsInv
    <2>2. PICK d : EnterOrQueue(AutoCall, "skip", d)
      BY <1>1, <1>5 DEF AutoSkip
    <2>3. doomed' = doomed
      BY <1>1, <1>5 DEF AutoSkip
    <2>4. CallsInv' /\ \A x \in Calls : pc'[x] = "sent" /\ kind'[x] = "wake" => ours = Off
      BY <2>1, <2>2, <2>3, CallKeeps
    <2>5. WakeInv' /\ FlagsInv'
      BY <2>1, <2>4 DEF Apply, WakeInv, FlagsInv
    <2> QED BY <1>3, <1>4, <2>4, <2>5
  <1>6. CASE ~(autoSkip /\ data'.online /\ data'.state \in PREHEAT_STATES)
    <2>1. UNCHANGED <<lock, calls, autoSkip>>
      BY <1>1, <1>6 DEF AutoSkip
    <2>2. CallsInv' /\ WakeInv' /\ FlagsInv'
      BY <2>1 DEF Apply, lock, calls, CallsInv, LockInv, QueueInv, WakeInv, FlagsInv
    <2> QED BY <1>3, <1>4, <2>2
  <1> QED BY <1>5, <1>6

\* Lemma: the grill, its advertisement and what the cloud knows move on their own.
LEMMA EnvironmentKeeps == IInv /\ (GrillMoves \/ Advertises \/ CloudLearns) => IInv'
  <1> SUFFICES ASSUME IInv, GrillMoves \/ Advertises \/ CloudLearns PROVE IInv'
    OBVIOUS
  <1> USE Parts
  <1>1. UNCHANGED <<lock, calls, polling, timers, view, beacon, autoSkip>>
    BY DEF GrillMoves, Advertises, CloudLearns
  <1>2. WorldInv'
    BY <1>1 DEF polling, WorldInv, GrillMoves, Advertises, CloudLearns
  <1>3. CallsInv' /\ AgesInv' /\ PendingInv' /\ WakeInv' /\ ViewInv'
    BY <1>1 DEF lock, calls, timers, view, CallsInv, LockInv, QueueInv, AgesInv, PendingInv,
                WakeInv,
                ViewInv
  <1>4. FlagsInv'
    BY <1>1 DEF FlagsInv, GrillMoves, Advertises, CloudLearns
  <1> QED BY <1>2, <1>3, <1>4

\* Lemma: a beacon is stored and shown.
LEMMA BeaconKeeps == IInv /\ ReceiveBeacon => IInv'
  <1> SUFFICES ASSUME IInv, ReceiveBeacon PROVE IInv'
    OBVIOUS
  <1> USE Parts
  <1>1. ViewInv'
    <2>1. CASE transport = "ble"
      <3>1. Show(data.state, data.online, adv, TRUE, FALSE)
        BY <2>1 DEF ReceiveBeacon
      <3>2. data.state \in States /\ data.online \in BOOLEAN /\ adv \in Steps
        BY DEF ViewInv, WorldInv
      <3> QED BY <3>1, <3>2, ShowView DEF ViewInv
    <2>2. CASE transport # "ble"
      BY <2>2 DEF ReceiveBeacon, view, ViewInv
    <2> QED BY <2>1, <2>2
  <1>2. WorldInv'
    BY DEF ReceiveBeacon, environment, polling, WorldInv
  <1>3. AgesInv'
    BY Graces DEF ReceiveBeacon, AgesInv
  <1>4. CallsInv' /\ PendingInv' /\ WakeInv' /\ FlagsInv'
    BY DEF ReceiveBeacon, lock, calls, CallsInv, LockInv, QueueInv, PendingInv, WakeInv, FlagsInv
  <1> QED BY <1>1, <1>2, <1>3, <1>4

\* Lemma: a poll that begins, asks, or gives up leaves what is known alone.
LEMMA AskingKeeps ==
  IInv /\ (PollStart \/ BleFallsBack \/ CloudAnswers \/ CloudFails) => IInv'
  <1> SUFFICES ASSUME IInv, PollStart \/ BleFallsBack \/ CloudAnswers \/ CloudFails
               PROVE  IInv'
    OBVIOUS
  <1> USE Parts
  <1>1. UNCHANGED <<lock, environment, calls, timers, view, beacon, autoSkip, halted>>
    BY DEF PollStart, BleFallsBack, CloudAnswers, CloudFails
  <1>2. WorldInv'
    BY <1>1, Graces DEF environment, WorldInv, PollStart, BleFallsBack, CloudAnswers, CloudFails
  <1>3. CallsInv' /\ AgesInv' /\ PendingInv' /\ WakeInv' /\ ViewInv' /\ FlagsInv'
    BY <1>1 DEF lock, calls, timers, view, CallsInv, LockInv, QueueInv, AgesInv, PendingInv,
                WakeInv,
                ViewInv, FlagsInv
  <1> QED BY <1>2, <1>3

\* Lemma: a poll that got an answer, or has to do without one.
LEMMA AnswersKeep == IInv /\ (BleAnswers \/ BleFailsAlone \/ CloudArrives) => IInv'
  <1> SUFFICES ASSUME IInv, BleAnswers \/ BleFailsAlone \/ CloudArrives PROVE IInv'
    OBVIOUS
  <1> USE Parts
  <1>1. CASE BleAnswers
    <2>1. PICK s \in BleReadings(grill) : Apply(s, TRUE)
      BY <1>1 DEF BleAnswers, BleReads
    <2>2. s \in States
      BY <2>1, ReadingType DEF WorldInv
    <2>3. contactAge' \in 0..(OFFLINE_AFTER + 1)
      BY <1>1, Graces DEF BleAnswers, BleReads
    <2> QED BY <2>1, <2>2, <2>3, ApplyKeeps
  <1>2. CASE BleFailsAlone
    <2>1. contactAge' \in 0..(OFFLINE_AFTER + 1)
      BY <1>2 DEF BleFailsAlone, AgesInv
    <2>2. data.state \in States /\ data.online \in BOOLEAN
      BY DEF ViewInv
    <2>3. Apply(data.state, data.online) \/ Apply("powered_off", FALSE)
      BY <1>2 DEF BleFailsAlone
    <2> QED BY <2>1, <2>2, <2>3, ApplyKeeps, StateFacts
  <1>3. CASE CloudArrives
    <2>1. CloudReading(answer) \in States
      BY ReadingType DEF WorldInv
    <2>2. Apply(CloudReading(answer), answer # "asleep")
      BY <1>3 DEF CloudArrives
    <2>3. contactAge' \in 0..(OFFLINE_AFTER + 1)
      BY <1>3, Graces DEF CloudArrives
    <2>4. (answer # "asleep") \in BOOLEAN
      OBVIOUS
    <2> QED BY <2>1, <2>2, <2>3, <2>4, ApplyKeeps
  <1> QED BY <1>1, <1>2, <1>3

\* Lemma: the start check only guesses "asleep" of a cook that was not seen.
LEMMA VerifyKeeps == IInv /\ VerifyFires => IInv'
  <1> SUFFICES ASSUME IInv, VerifyFires PROVE IInv'
    OBVIOUS
  <1> USE Parts
  <1>1. ViewInv' /\ AgesInv'
    BY Graces DEF VerifyFires, ViewInv, AgesInv, Off
  <1>2. CallsInv' /\ WorldInv' /\ PendingInv' /\ WakeInv' /\ FlagsInv'
    BY DEF VerifyFires, lock, environment, calls, polling, CallsInv, LockInv, QueueInv, WorldInv,
           PendingInv, WakeInv, FlagsInv
  <1> QED BY <1>1, <1>2

\* Lemma: a call is made, or resumed inside the lock.
LEMMA CallingKeeps ==
  ASSUME IInv, NEW c \in Calls, (\E k \in Kinds : Call(c, k)) \/ Resume(c)
  PROVE  IInv'
  <1> USE Parts
  <1>1. ASSUME NEW k \in Kinds, Call(c, k) PROVE IInv'
    <2>1. doomed' \subseteq doomed \cup ({cmdTask} \ {NoCall})
      BY <1>1 DEF Call, Preempt
    <2>2. CallsInv' /\ \A x \in Calls : pc'[x] = "sent" /\ kind'[x] = "wake" => ours = Off
      BY <1>1, <2>1, CallKeeps DEF Call
    <2>3. AgesInv'
      BY <1>1, Graces DEF Call, AgesInv, Off
    <2>4. ViewInv'
      BY <1>1 DEF Call, ViewInv
    <2>5. WorldInv' /\ PendingInv' /\ WakeInv' /\ FlagsInv'
      BY <1>1, <2>2 DEF Call, environment, polling, WorldInv, PendingInv, WakeInv, FlagsInv
    <2> QED BY <2>2, <2>3, <2>4, <2>5
  <1>2. CASE Resume(c)
    <2>1. owner = NoCall /\ waiters' = Tail(waiters) /\ waiters # <<>>
      BY <1>2 DEF Resume, First
    <2>2. /\ Len(waiters) \in Nat \ {0} /\ waiters[1] = c /\ waiters' \in Seq(Calls)
          /\ Len(waiters') = Len(waiters) - 1
          /\ \A i \in 1..Len(waiters') : waiters'[i] = waiters[i + 1]
      BY <1>2, <2>1 DEF Resume, First, CallsInv
    <2>3. kind[c] \in Kinds \cup {"skip"}
      BY <2>2 DEF CallsInv, QueueInv
    <2>4. /\ \A i \in 1..Len(waiters') : waiters'[i] # c /\ pc[waiters'[i]] = "queued"
          /\ \A i, j \in 1..Len(waiters') : waiters'[i] = waiters'[j] => i = j
      <3>1. \A i \in 1..Len(waiters') : i + 1 \in 1..Len(waiters) /\ i + 1 # 1
        BY <2>2
      <3>2. 1 \in 1..Len(waiters)
        BY <2>2
      <3>3. \A i \in 1..Len(waiters') : waiters'[i] # c /\ pc[waiters'[i]] = "queued"
        BY <2>2, <3>1, <3>2 DEF CallsInv, QueueInv
      <3>4. \A i, j \in 1..Len(waiters') : waiters'[i] = waiters'[j] => i = j
        BY <2>2, <3>1 DEF CallsInv, QueueInv
      <3> QED BY <3>3, <3>4
    <2>5. CallsInv' /\ \A x \in Calls : pc'[x] = "sent" /\ kind'[x] = "wake" => ours = Off
      BY <1>2, <2>1, <2>2, <2>3, <2>4, EnterKeeps DEF Resume
    <2>6. ViewInv'
      BY <1>2 DEF Resume, ViewInv
    <2>7. WorldInv' /\ AgesInv' /\ PendingInv' /\ WakeInv' /\ FlagsInv'
      BY <1>2, <2>5 DEF Resume, environment, polling, timers, WorldInv, AgesInv, PendingInv,
                        WakeInv, FlagsInv
    <2> QED BY <2>5, <2>6, <2>7
  <1> QED BY <1>1, <1>2

\* Lemma: the grill acts on a command, and goes to one of its steps.
LEMMA ActKeeps ==
  ASSUME IInv, NEW c \in Calls, Act(c)
  PROVE  IInv'
  <1> USE Parts
  <1>1. grill' \in Steps
    <2>1. kind[c] \in {"start", "stop", "wake", "modify", "skip"}
      BY EnvironmentAssumption DEF Act, CallsInv, QueueInv
    <2>2. Obeys(kind[c], via[c]) \in {grill, "asleep", "idle", "preheat"}
                                      \cup ({"addfood"} \cap Steps)
      BY <2>1 DEF Obeys
    <2> QED BY <2>2, EnvironmentAssumption DEF Act, WorldInv
  <1>2. CallsInv'
    <2>1. pc' \in [Calls -> Points] /\ \A x \in Calls : pc'[x] \in {"sent", "acted"} <=> x = owner
      BY DEF Act, CallsInv, LockInv, Points
    <2>2. QueueInv'
      <3>1. \A i \in 1..Len(waiters) : waiters[i] \in Calls /\ waiters[i] # c
        BY DEF Act, CallsInv, QueueInv
      <3>2. \A i \in 1..Len(waiters') : pc'[waiters'[i]] = "queued"
        BY <3>1 DEF Act, lock, CallsInv, QueueInv
      <3>3. \A x \in Calls : pc'[x] # "returned" => kind'[x] # None
        BY DEF Act, CallsInv, QueueInv
      <3> QED BY <3>2, <3>3 DEF Act, lock, CallsInv, QueueInv
    <2> QED BY <2>1, <2>2 DEF Act, lock, CallsInv, LockInv
  <1>3. WakeInv'
    BY DEF Act, timers, CallsInv, WakeInv
  <1>4. WorldInv' /\ AgesInv' /\ PendingInv' /\ ViewInv' /\ FlagsInv'
    BY <1>1 DEF Act, polling, timers, view, WorldInv, AgesInv, PendingInv, ViewInv, FlagsInv
  <1> QED BY <1>2, <1>3, <1>4

-----------------------------------------------------------------------------
(* The theorems.                                                           *)

\* The invariant holds throughout.
THEOREM Invariance == Spec => []IInv
  <1>1. IInv /\ [Next]_vars => IInv'
    <2> SUFFICES ASSUME IInv, [Next]_vars PROVE IInv'
      OBVIOUS
    <2>1. CASE World
      BY <2>1, EnvironmentKeeps, TickKeeps DEF World
    <2>2. CASE ReceiveBeacon
      BY <2>2, BeaconKeeps
    <2>3. CASE Poll
      BY <2>3, AskingKeeps, AnswersKeep DEF Poll
    <2>4. CASE VerifyFires
      BY <2>4, VerifyKeeps
    <2>5. ASSUME NEW c \in Calls, Command(c) PROVE IInv'
      BY <2>5, CallingKeeps, ActKeeps, LeavesKeep DEF Command
    <2>6. CASE UNCHANGED vars
      <3>1. CallsInv' /\ WorldInv' /\ AgesInv' /\ PendingInv'
        BY <2>6, Parts DEF vars, lock, environment, calls, polling, timers, CallsInv, LockInv,
                           QueueInv, WorldInv, AgesInv, PendingInv
      <3>2. WakeInv' /\ ViewInv' /\ FlagsInv'
        BY <2>6, Parts DEF vars, calls, timers, view, WakeInv, ViewInv, FlagsInv
      <3> QED BY <3>1, <3>2, Parts
    <2> QED BY <2>1, <2>2, <2>3, <2>4, <2>5, <2>6 DEF Next
  <1> QED BY <1>1, InitIInv, PTL DEF Spec

\* Every variable of the coordinator keeps its type.
THEOREM TypeCorrect == Spec => []TypeOK
  <1>1. IInv => TypeOK
    BY DEF IInv
  <1> QED BY <1>1, Invariance, PTL

\* "Probably asleep" and a cook that was seen are never both believed
\* (coordinator.py:226-229).
THEOREM ConfirmedIsAwake == Spec => []AsleepUnconfirmed
  <1>1. IInv => AsleepUnconfirmed
    BY DEF IInv
  <1> QED BY <1>1, Invariance, PTL

\* The stop that a Wake sends meets no cook that a fresh start brought up
\* (coordinator.py:1197-1199).
THEOREM FreshStartSpared == Spec => WakeSparesFreshStart
  <1> DEFINE Spares == \A c \in Calls : Act(c) /\ kind[c] = "wake" =>
                          ~(ours # Off /\ grill \in CookSteps)
  <1>1. ASSUME IInv PROVE Spares
    BY <1>1 DEF Act, IInv, FreshInv
  <1>2. IInv /\ [Next]_vars => [Spares]_vars
    BY <1>1
  <1> QED BY <1>2, Invariance, PTL DEF Spec, WakeSparesFreshStart

\* Whatever is shown over Bluetooth while a Stop is fresh and beacons come in, it is
\* no running cook (coordinator.py:397-400, 427-435).
THEOREM StopKeepsIdle == Spec => IdleHeldInGrace
  <1> DEFINE Held == transport' = "ble" /\ (beaconAge <= BEACON_TTL /\ InStopGrace)'
                        /\ data' # data => ~IsActive(data'.state)
  <1>1. ASSUME NEW s, NEW online, NEW b, NEW live, NEW polled,
               Show(s, online, b, live, polled), transport = "ble", live, InStopGrace
        PROVE  ~IsActive(data'.state)
    <2>1. data'.state = "idle"
      BY <1>1 DEF Show, Merged
    <2> QED BY <2>1, StateFacts
  <1>2. ASSUME IInv, Next, transport' = "ble", (beaconAge <= BEACON_TTL /\ InStopGrace)',
               data' # data
        PROVE  ~IsActive(data'.state)
    <2>1. CASE ReceiveBeacon
      <3>1. /\ transport = "ble" /\ InStopGrace
            /\ Show(data.state, data.online, adv, TRUE, FALSE)
        BY <1>2, <2>1 DEF ReceiveBeacon, polling, view, InStopGrace
      <3> QED BY <3>1, <1>1
    <2>2. CASE BleAnswers \/ BleFailsAlone \/ CloudArrives
      <3>1. PICK s, online : Apply(s, online)
        BY <2>2 DEF BleAnswers, BleReads, BleFailsAlone, CloudArrives
      <3>2. /\ transport = "ble" /\ InStopGrace /\ BeaconLive
            /\ Show(s, online, beacon, BeaconLive, TRUE)
        BY <1>2, <3>1 DEF Apply, InStopGrace, BeaconLive
      <3> QED BY <3>2, <1>1
    <2>3. ASSUME NEW c \in Calls, Succeed(c) PROVE ~IsActive(data'.state)
      <3>1. CASE StartDone(c)
        BY <1>2, <3>1 DEF StartDone, InStopGrace
      <3>2. CASE StopDone(c)
        <4>1. data'.state = "idle"
          BY <3>2 DEF StopDone, IInv, TypeOK
        <4> QED BY <4>1, StateFacts
      <3> QED BY <1>2, <2>3, <3>1, <3>2 DEF Succeed, ReissueDone, WakeDone, view
    <2>4. CASE World \/ VerifyFires \/ PollStart \/ BleFallsBack \/ CloudAnswers \/ CloudFails
      BY <1>2, <2>4 DEF World, GrillMoves, Advertises, CloudLearns, Tick, VerifyFires,
                        PollStart, BleFallsBack, CloudAnswers, CloudFails, view
    <2>5. ASSUME NEW c \in Calls,
                 (\E k \in Kinds : Call(c, k)) \/ Resume(c) \/ Act(c) \/ Fail(c)
          PROVE  ~IsActive(data'.state)
      BY <1>2, <2>5 DEF Call, Resume, Act, Fail, view
    <2> QED BY <1>2, <2>1, <2>2, <2>3, <2>4, <2>5 DEF Next, Poll, Command
  <1>3. IInv /\ [Next]_vars => [Held]_vars
    BY <1>2
  <1> QED BY <1>3, Invariance, PTL DEF Spec, IdleHeldInGrace

\* After a Stop the coordinator skips nothing of its own (coordinator.py:298-302,
\* 1176-1181).
THEOREM FlagDropped == Spec => [][NoSkipOfItsOwn]_vars
  <1>1. ASSUME IInv, Next, NEW c \in Calls, c = AutoCall, pc[c] = "returned",
               pc'[c] # "returned"
        PROVE  ~halted
    <2>1. CASE BleAnswers \/ BleFailsAlone \/ CloudArrives
      <3>1. AutoSkip
        BY <2>1 DEF BleAnswers, BleReads, BleFailsAlone, CloudArrives, Apply
      <3>2. autoSkip
        BY <1>1, <3>1 DEF AutoSkip, calls
      <3> QED BY <1>1, <3>2 DEF IInv, SkipInv
    <2>2. CASE World \/ ReceiveBeacon \/ VerifyFires
      BY <1>1, <2>2 DEF World, GrillMoves, Advertises, CloudLearns, Tick, ReceiveBeacon,
                        VerifyFires, calls
    <2>3. CASE PollStart \/ BleFallsBack \/ CloudAnswers \/ CloudFails
      BY <1>1, <2>3 DEF PollStart, BleFallsBack, CloudAnswers, CloudFails, calls
    <2>4. ASSUME NEW x \in Calls, Command(x) PROVE FALSE
      <3>0. pc \in [Calls -> Points]
        BY <1>1 DEF IInv, TypeOK
      <3>1. ASSUME NEW k \in Kinds, Call(x, k) PROVE FALSE
        <4>1. x # c
          BY <1>1, <3>1 DEF Call
        <4> QED BY <1>1, <3>0, <3>1, <4>1 DEF Call, EnterOrQueue, Enter
      <3>2. CASE Resume(x)
        <4>1. pc[x] = "queued"
          BY <1>1, <3>2 DEF Resume, First, IInv, TypeOK, QueueInv
        <4> QED BY <1>1, <3>0, <3>2, <4>1 DEF Resume, Enter
      <3>3. CASE Act(x)
        BY <1>1, <3>0, <3>3 DEF Act
      <3>4. CASE Succeed(x) \/ Fail(x)
        BY <1>1, <3>0, <3>4 DEF Succeed, Fail, StartDone, ReissueDone, StopDone, WakeDone, Leave
      <3> QED BY <2>4, <3>1, <3>2, <3>3, <3>4 DEF Command
    <2> QED BY <1>1, <2>1, <2>2, <2>3, <2>4 DEF Next, Poll
  <1>2. IInv /\ [Next]_vars => [NoSkipOfItsOwn]_vars
    BY <1>1 DEF NoSkipOfItsOwn
  <1> QED BY <1>2, Invariance, PTL DEF Spec

-----------------------------------------------------------------------------
(* Without a cloud no skip gets past a fresh Stop: no view of a grill that *)
(* has just been stopped shows a preheat, and what a skip found inside the *)
(* lock still holds when it reaches the grill, for a Stop has to wait.     *)

LocalInv ==
    /\ poll # "answered"
    /\ InStopGrace => data.state \notin PREHEAT_STATES
    /\ \A c \in Calls : pc[c] = "sent" /\ kind[c] = "skip" => ~InStopGrace

\* Lemma: idle, a cook without a phase and a grill that is off are no preheat.
LEMMA NoPreheat == {"idle", "cooking", "powered_off", "unknown"} \cap PREHEAT_STATES = {}
  BY DEF PREHEAT_STATES

\* Lemma: nothing that is shown over Bluetooth while a Stop is fresh is a preheat.
LEMMA ShowNoPreheat ==
  ASSUME NEW s, NEW online, NEW b, NEW live \in BOOLEAN, NEW polled, transport = "ble",
         Show(s, online, b, live, polled), InStopGrace, s \notin PREHEAT_STATES
  PROVE  data'.state \notin PREHEAT_STATES
  <1>1. data'.state \in {"idle", "powered_off", s}
    BY DEF Show, Merged
  <1> QED BY <1>1, NoPreheat

\* Lemma: a skip that gets the lock has found a preheat, and no fresh Stop.
LEMMA SkipEnters ==
  ASSUME IInv, LocalInv, NEW c \in Calls, NEW k, NEW d, Enter(c, k, d) \/ EnterOrQueue(c, k, d),
         InStopGrace => d.state \notin PREHEAT_STATES
  PROVE  \A x \in Calls : pc'[x] = "sent" /\ kind'[x] = "skip" => ~InStopGrace
  <1> SUFFICES ASSUME NEW x \in Calls, pc'[x] = "sent", kind'[x] = "skip" PROVE ~InStopGrace
    OBVIOUS
  <1>1. pc \in [Calls -> Points] /\ kind \in [Calls -> Kinds \cup {None, "skip"}]
    BY DEF IInv, TypeOK
  <1>2. CASE x # c
    <2>1. pc'[x] = pc[x] /\ kind'[x] = kind[x]
      BY <1>1, <1>2 DEF Enter, EnterOrQueue
    <2> QED BY <2>1 DEF LocalInv
  <1>3. CASE x = c
    <2>1. Enter(c, k, d) /\ ~Declines(k, d) /\ k = "skip"
      BY <1>1, <1>3 DEF Enter, EnterOrQueue
    <2>2. d.state \in PREHEAT_STATES
      BY <2>1 DEF Declines
    <2> QED BY <2>2
  <1> QED BY <1>2, <1>3

\* Lemma: the end of a poll.
LEMMA ApplyLocal ==
  ASSUME IInv, LocalInv, NEW s, NEW online, Apply(s, online), transport = "ble",
         InStopGrace => s \notin PREHEAT_STATES
  PROVE  LocalInv'
  <1>1. Show(s, online, beacon, BeaconLive, TRUE) /\ AutoSkip
    BY DEF Apply
  <1>2. BeaconLive \in BOOLEAN
    BY DEF BeaconLive
  <1>3. InStopGrace => data'.state \notin PREHEAT_STATES
    BY <1>1, <1>2, ShowNoPreheat
  <1>4. InStopGrace' <=> InStopGrace
    BY DEF Apply, InStopGrace
  <1>5. \A c \in Calls : pc'[c] = "sent" /\ kind'[c] = "skip" => ~InStopGrace
    <2>1. CASE UNCHANGED <<lock, calls, autoSkip>>
      BY <2>1 DEF calls, LocalInv
    <2>2. CASE autoSkip /\ data'.online /\ data'.state \in PREHEAT_STATES
      <3>1. AutoCall \in Calls
        BY <2>2, EnvironmentAssumption DEF IInv, SkipInv
      <3>2. EnterOrQueue(AutoCall, "skip", IF EagerTasks THEN data ELSE data')
        BY <1>1, <2>2 DEF AutoSkip
      <3>3. InStopGrace => (IF EagerTasks THEN data ELSE data').state \notin PREHEAT_STATES
        BY <1>3 DEF LocalInv
      <3> QED BY <3>1, <3>2, <3>3, SkipEnters
    <2> QED BY <1>1, <2>1, <2>2 DEF AutoSkip
  <1>6. poll' # "answered"
    BY DEF Apply
  <1> QED BY <1>3, <1>4, <1>5, <1>6 DEF LocalInv

\* Theorem: with Bluetooth alone, whatever the calls, a skip never reaches the grill
\* while a Stop is fresh (coordinator.py:1227-1236).
THEOREM StopBarsSkips ==
  ASSUME "cloud" \notin Transports
  PROVE  Spec => [][NoSkipWhileStopFresh]_vars
  <1>1. Init => LocalInv
    BY NoPreheat DEF Init, LocalInv, InStopGrace, Off
  <1>2. ASSUME IInv, LocalInv, [Next]_vars PROVE LocalInv'
    <2> USE <1>2
    <2>1. transport = "ble"
      BY EnvironmentAssumption DEF IInv, TypeOK
    <2>2. CASE BleAnswers
      <3>1. PICK s \in BleReadings(grill) : Apply(s, TRUE)
        BY <2>2 DEF BleAnswers, BleReads
      <3>2. s \in {"unknown", "cooking", "idle"}
        BY DEF BleReadings
      <3> QED BY <2>1, <3>1, <3>2, NoPreheat, ApplyLocal
    <2>3. CASE BleFailsAlone
      <3>1. Apply(data.state, data.online) \/ Apply("powered_off", FALSE)
        BY <2>3 DEF BleFailsAlone
      <3> QED BY <2>1, <3>1, NoPreheat, ApplyLocal DEF LocalInv
    <2>4. ~(CloudArrives \/ BleFallsBack \/ CloudAnswers \/ CloudFails)
      BY EnvironmentAssumption
      DEF CloudArrives, BleFallsBack, CloudAnswers, CloudFails, LocalInv, IInv, TypeOK
    <2>5. CASE PollStart
      BY <2>5, EnvironmentAssumption
      DEF PollStart, calls, timers, view, LocalInv, InStopGrace, IInv, TypeOK
    <2>6. CASE ReceiveBeacon
      <3>1. Show(data.state, data.online, adv, TRUE, FALSE)
        BY <2>1, <2>6 DEF ReceiveBeacon
      <3>2. InStopGrace => data'.state \notin PREHEAT_STATES
        BY <2>1, <3>1, ShowNoPreheat DEF LocalInv
      <3> QED BY <2>6, <3>2 DEF ReceiveBeacon, calls, polling, LocalInv, InStopGrace
    <2>7. CASE GrillMoves \/ Advertises \/ CloudLearns \/ VerifyFires \/ UNCHANGED vars
      BY <2>7 DEF GrillMoves, Advertises, CloudLearns, VerifyFires, vars, calls, polling, timers,
                  view, LocalInv, InStopGrace
    <2>8. CASE Tick
      <3>1. InStopGrace' => InStopGrace
        BY <2>8, Graces DEF Tick, InStopGrace, Older, Off, IInv, TypeOK
      <3> QED BY <2>8, <3>1 DEF Tick, calls, view, LocalInv
    <2>9. ASSUME NEW c \in Calls, (\E k \in Kinds : Call(c, k)) \/ Resume(c)
          PROVE  LocalInv'
      <3>1. PICK k : EnterOrQueue(c, k, data) \/ Enter(c, k, data)
        BY <2>9 DEF Call, Resume
      <3>2. \A x \in Calls : pc'[x] = "sent" /\ kind'[x] = "skip" => ~InStopGrace
        BY <3>1, SkipEnters DEF LocalInv
      <3> QED BY <2>9, <3>2 DEF Call, Resume, polling, timers, LocalInv, InStopGrace
    <2>10. ASSUME NEW c \in Calls, Act(c) PROVE LocalInv'
      <3>1. \A x \in Calls : pc'[x] = "sent" => pc[x] = "sent"
        BY <2>10 DEF Act, IInv, TypeOK
      <3> QED BY <2>10, <3>1 DEF Act, polling, timers, view, LocalInv, InStopGrace
    <2>11. ASSUME NEW c \in Calls, Succeed(c) \/ Fail(c) PROVE LocalInv'
      <3>1. pc[c] \in {"sent", "acted"} /\ Leave(c)
        BY <2>11 DEF Succeed, Fail, StartDone, ReissueDone, StopDone, WakeDone
      <3>2. \A x \in Calls : pc'[x] # "sent"
        BY <3>1, LeaveKeeps
      <3>3. poll' # "answered"
        BY <3>1 DEF Leave, polling, LocalInv
      <3>4. CASE StartDone(c)
        BY <3>2, <3>3, <3>4 DEF StartDone, LocalInv, InStopGrace
      <3>5. CASE StopDone(c)
        <4>1. data'.state = "idle"
          BY <3>5 DEF StopDone, IInv, TypeOK
        <4> QED BY <3>2, <3>3, <4>1, NoPreheat DEF LocalInv
      <3>6. CASE ReissueDone(c) \/ WakeDone(c) \/ Fail(c)
        BY <3>2, <3>3, <3>6 DEF ReissueDone, WakeDone, Fail, view, LocalInv, InStopGrace
      <3> QED BY <2>11, <3>4, <3>5, <3>6 DEF Succeed
    <2> QED BY <2>2, <2>3, <2>4, <2>5, <2>6, <2>7, <2>8, <2>9, <2>10, <2>11
            DEF Next, World, Poll, Command
  <1>3. LocalInv /\ [Next]_vars => [NoSkipWhileStopFresh]_vars
    BY DEF Act, LocalInv, NoSkipWhileStopFresh
  <1>4. IInv /\ LocalInv /\ [Next]_vars => LocalInv'
    BY <1>2
  <1> QED BY <1>1, <1>3, <1>4, Invariance, PTL DEF Spec

\* After a Stop no preheat is skipped on behalf of the cook it ended.
THEOREM StoppedCookSpared ==
  ASSUME "cloud" \notin Transports
  PROVE  Spec => SkipSparesStopped
  BY StopBarsSkips, FlagDropped, PTL DEF SkipSparesStopped
-----------------------------------------------------------------------------
(* The promise to the callers.                                             *)

\* Call `d` is open, and was when `c` was made.
Before(d, c) == pc[d] # "returned" /\ Use(d) \in older[Use(c)]

HTypeOK ==
    /\ use \in [Calls -> {0, 1}] /\ cook \in Uses \cup {NoCook}
    /\ older \in [Uses -> SUBSET Uses] /\ revoked \subseteq Uses

\* Calls are served in the order they were made: what is open and older than a call
\* that waits is inside the lock or waits ahead of it; the lock lets nobody in before.
FifoInv ==
    /\ \A c \in Calls : pc[c] = "queued" => \E i \in 1..Len(waiters) : waiters[i] = c
    /\ \A i \in 1..Len(waiters) : \A d \in Calls : Before(d, waiters[i]) =>
          d = owner \/ \E j \in 1..(i - 1) : waiters[j] = d
    /\ owner # NoCall => \A d \in Calls : ~Before(d, owner)

\* A Stop that the grill has acted on left nothing to cook for, and what a returned
\* Stop was made after is over.
StopInv ==
    /\ \A c \in Calls : pc[c] = "acted" /\ kind[c] = "stop" => cook = NoCook
    /\ \A c \in Calls : pc[c] # "returned" => Use(c) \notin revoked
    /\ cook \notin revoked
    /\ cook # NoCook => grill \in CookSteps

HInv == HTypeOK /\ FifoInv /\ StopInv

\* What a step does to the calls: nothing; one is made and goes in or queues; the
\* first waiter goes in or is declined there; the grill acts; one leaves the lock.
Rests == UNCHANGED <<pc, owner, waiters>>
GoesIn(c) == pc' = [pc EXCEPT ![c] = "sent"] /\ owner' = c
Enters(c) == pc[c] = "returned" /\ Free /\ GoesIn(c) /\ UNCHANGED waiters
Queues(c) ==
    /\ pc[c] = "returned" /\ pc' = [pc EXCEPT ![c] = "queued"]
    /\ waiters' = Append(waiters, c) /\ UNCHANGED owner
Returns(c) == pc' = [pc EXCEPT ![c] = "returned"] /\ owner' = NoCall
Leaves(c) == pc[c] \in {"sent", "acted"} /\ Returns(c) /\ UNCHANGED waiters

KindsKept == \A c \in Calls : pc[c] = "acted" /\ pc'[c] = "acted" => kind'[c] = kind[c]

\* Lemma: a call that is made at once is declined, goes in or queues.
LEMMA MakingKinds ==
  ASSUME IInv, NEW c \in Calls, NEW k, NEW d, pc[c] = "returned", EnterOrQueue(c, k, d)
  PROVE  KindsKept /\ (Rests \/ Enters(c) \/ Queues(c))
  <1>1. pc' = [pc EXCEPT ![c] = pc'[c]] /\ pc'[c] # "acted"
    BY DEF EnterOrQueue, Enter, IInv, TypeOK
  <1>2. \A x \in Calls : x # c => kind'[x] = kind[x]
    BY DEF EnterOrQueue, Enter, IInv, TypeOK
  <1>3. KindsKept
    BY <1>1, <1>2 DEF KindsKept, IInv, TypeOK
  <1>4. CASE Free /\ Enter(c, k, d) /\ UNCHANGED waiters
    <2>1. CASE Declines(k, d)
      <3>1. owner' = owner /\ pc' = [pc EXCEPT ![c] = "returned"] /\ waiters' = waiters
        BY <1>4, <2>1 DEF Enter
      <3>2. pc' = pc
        BY <3>1 DEF IInv, TypeOK
      <3> QED BY <1>3, <3>1, <3>2 DEF Rests
    <2>2. CASE ~Declines(k, d)
      <3>1. owner' = c /\ pc' = [pc EXCEPT ![c] = "sent"] /\ waiters' = waiters /\ Free
        BY <1>4, <2>2 DEF Enter, Take
      <3> QED BY ONLY <1>3, <3>1, pc[c] = "returned" DEF Enters, GoesIn
    <2> QED BY <1>3, <2>1, <2>2
  <1>5. CASE Enqueue(c) /\ pc' = [pc EXCEPT ![c] = "queued"]
    BY <1>3, <1>5 DEF Enqueue, Queues
  <1> QED BY <1>4, <1>5 DEF EnterOrQueue

\* Lemma: the end of a poll makes a call of its own, or none.
LEMMA ApplyKinds ==
  ASSUME IInv, NEW s, NEW online, Apply(s, online)
  PROVE  KindsKept /\ grill' = grill /\ (Rests \/ \E c \in Calls : Enters(c) \/ Queues(c))
  <1>1. grill' = grill /\ AutoSkip
    BY DEF Apply, environment
  <1>2. CASE autoSkip /\ data'.online /\ data'.state \in PREHEAT_STATES
    <2>1. AutoCall \in Calls /\ pc[AutoCall] = "returned"
      BY <1>1, <1>2, EnvironmentAssumption DEF AutoSkip, IInv, SkipInv
    <2>2. PICK d : EnterOrQueue(AutoCall, "skip", d)
      BY <1>1, <1>2 DEF AutoSkip
    <2> QED BY <1>1, <2>1, <2>2, MakingKinds
  <1>3. CASE ~(autoSkip /\ data'.online /\ data'.state \in PREHEAT_STATES)
    BY <1>1, <1>3 DEF AutoSkip, lock, calls, Rests, KindsKept
  <1> QED BY <1>2, <1>3

\* Lemma: the steps of the coordinator sorted by what they do to the calls.
LEMMA StepKinds ==
  ASSUME IInv, [Next]_vars
  PROVE  /\ KindsKept
         /\ \/ Rests
            \/ /\ grill' = grill
               /\ \E c \in Calls : \/ Enters(c) \/ Queues(c) \/ Leaves(c)
                                   \/ First(c) /\ (GoesIn(c) \/ Returns(c))
            \/ \E c \in Calls : Act(c)
  <1>1. CASE World \/ ReceiveBeacon \/ VerifyFires \/ PollStart \/ BleFallsBack
             \/ CloudAnswers \/ CloudFails \/ UNCHANGED vars
    <2>1. UNCHANGED <<lock, calls>>
      BY <1>1 DEF World, GrillMoves, Advertises, CloudLearns, Tick, ReceiveBeacon, VerifyFires,
                  PollStart, BleFallsBack, CloudAnswers, CloudFails, vars
    <2> QED BY <2>1 DEF lock, calls, Rests, KindsKept
  <1>2. CASE BleAnswers \/ BleFailsAlone \/ CloudArrives
    <2>1. \E s, online : Apply(s, online)
      BY <1>2 DEF BleAnswers, BleReads, BleFailsAlone, CloudArrives
    <2> QED BY <2>1, ApplyKinds
  <1>3. ASSUME NEW c \in Calls, NEW k \in Kinds, Call(c, k)
        PROVE  KindsKept /\ grill' = grill /\ (Rests \/ Enters(c) \/ Queues(c))
    BY <1>3, MakingKinds DEF Call, environment
  <1>4. ASSUME NEW c \in Calls, Resume(c)
        PROVE  KindsKept /\ grill' = grill /\ First(c) /\ (GoesIn(c) \/ Returns(c))
    <2>1. First(c) /\ Enter(c, kind[c], data) /\ grill' = grill
      BY <1>4 DEF Resume, environment
    <2>2. KindsKept
      BY <2>1 DEF Enter, KindsKept, IInv, TypeOK
    <2>3. GoesIn(c) \/ Returns(c)
      BY <2>1 DEF Enter, Take, First, GoesIn, Returns
    <2> QED BY <2>1, <2>2, <2>3
  <1>5. ASSUME NEW c \in Calls, Act(c) PROVE KindsKept
    BY <1>5 DEF Act, KindsKept
  <1>6. ASSUME NEW c \in Calls, Succeed(c) \/ Fail(c)
        PROVE  KindsKept /\ grill' = grill /\ Leaves(c)
    <2>1. pc[c] \in {"sent", "acted"} /\ Leave(c)
      BY <1>6 DEF Succeed, Fail, StartDone, ReissueDone, StopDone, WakeDone
    <2> QED BY <2>1 DEF Leave, Release, Leaves, Returns, KindsKept, environment, IInv, TypeOK
  <1> QED BY <1>1, <1>2, <1>3, <1>4, <1>5, <1>6 DEF Next, Poll, Command

\* Lemma: the uses of different calls differ, and nothing is cooked for the empty use.
LEMMA UsesDiffer ==
    /\ \A c \in Calls : \A n \in {0, 1} : <<c, n>> \in Uses /\ <<c, n>> # NoCook
    /\ NoCook \notin Uses
    /\ \A c, d : Use(c) = Use(d) => c = d
  <1>1. \A c \in Calls : \A n \in {0, 1} : <<c, n>> \in Uses /\ <<c, n>> # NoCook
    BY NoCallAssumption DEF Uses, NoCook
  <1>2. NoCook \notin Uses
    BY NoCallAssumption DEF Uses, NoCook
  <1>3. ASSUME NEW c, NEW d, Use(c) = Use(d) PROVE c = d
    BY <1>3 DEF Use
  <1> QED BY <1>1, <1>2, <1>3

\* Lemma: a use of a call is open while the call is.
LEMMA OpenUse ==
  ASSUME HTypeOK, NEW c \in Calls
  PROVE  /\ Use(c) \in Uses /\ OpenUses \subseteq Uses
         /\ Use(c) \in OpenUses <=> pc[c] # "returned"
  <1>1. \A d \in Calls : Use(d) \in Uses
    BY UsesDiffer DEF HTypeOK, Use
  <1>2. ASSUME NEW d \in Calls, Use(d) = Use(c) PROVE d = c
    BY <1>2, UsesDiffer
  <1>3. Use(c) \in OpenUses <=> pc[c] # "returned"
    BY <1>2, Zenon DEF OpenUses
  <1> QED BY <1>1, <1>3 DEF OpenUses

\* Lemma: what a step does to the history, by what it does to the calls.
LEMMA HistoryKept ==
  ASSUME HInv, Remember, Made = {}
  PROVE  /\ use' = use /\ older' = older
         /\ revoked' = revoked \cup UNION {older[Use(c)] : c \in Stopped}
  <1>1. use' = use
    BY DEF Remember, HInv, HTypeOK
  <1>2. {<<c, use'[c]>> : c \in Made} = {}
    OBVIOUS
  <1>3. older' = [u \in Uses |-> older[u]]
    BY <1>2 DEF Remember
  <1>4. older' = older
    BY <1>3 DEF HInv, HTypeOK
  <1> QED BY <1>1, <1>2, <1>4 DEF Remember

\* Lemma: there is always a cook to remember: history takes no step from the coordinator.
LEMMA HistoryFollows == CookAfter # {}
  <1>1. ASSUME Acting # {} PROVE {Use(c) : c \in Acting} # {}
    <2>1. PICK c \in Acting : TRUE
      BY <1>1
    <2>2. Use(c) \in {Use(d) : d \in Acting}
      OBVIOUS
    <2> QED BY <2>2
  <1> QED BY <1>1 DEF CookAfter

\* Lemma: nobody acts: the cook goes on unless the grill does otherwise.
LEMMA CookKept ==
  ASSUME HInv, Remember, Acting = {}
  PROVE  /\ cook' \in {NoCook, cook} /\ (cook' # NoCook => grill' \in CookSteps)
         /\ grill' = grill => cook' = cook
  BY DEF Remember, CookAfter, HInv, StopInv

\* Lemma: a call that is made goes by a use that nobody has.
LEMMA HistoryMade ==
  ASSUME HInv, NEW c \in Calls, Remember, Made = {c}, Stopped = {}
  PROVE  /\ use' \in [Calls -> {0, 1}] /\ \A d \in Calls : d # c => use'[d] = use[d]
         /\ <<c, use'[c]>> # cook
         /\ older' = [u \in Uses |-> IF u = <<c, use'[c]>> THEN (OpenUses \cup {cook}) \ {NoCook}
                                     ELSE older[u] \ {<<c, use'[c]>>}]
         /\ revoked' = revoked \ {<<c, use'[c]>>}
  <1>1. use' = [d \in Calls |-> IF d \notin Made THEN use[d]
                                ELSE IF cook = <<d, 0>> THEN 1 ELSE 0]
    BY DEF Remember
  <1>2. use' \in [Calls -> {0, 1}] /\ \A d \in Calls : d # c => use'[d] = use[d]
    BY <1>1 DEF HInv, HTypeOK
  <1>3. <<c, use'[c]>> # cook
    BY <1>1
  <1>4. {<<d, use'[d]>> : d \in Made} = {<<c, use'[c]>>}
    OBVIOUS
  <1>5. older' = [u \in Uses |-> IF u = <<c, use'[c]>> THEN (OpenUses \cup {cook}) \ {NoCook}
                                 ELSE older[u] \ {<<c, use'[c]>>}]
    BY <1>4 DEF Remember
  <1>6. revoked' = revoked \ {<<c, use'[c]>>}
    BY <1>4 DEF Remember
  <1> QED BY <1>2, <1>3, <1>5, <1>6

\* Lemma: a step that leaves the calls alone may at most end the cook.
LEMMA RestsKeep ==
  ASSUME IInv, HInv, Remember, KindsKept, Rests
  PROVE  HInv' /\ (Control!StopActs \/ UNCHANGED Control!vars)
  <1>1. Made = {} /\ Acting = {} /\ Stopped = {}
    BY DEF Rests, Made, Acting, Stopped, Act, Succeed, StartDone, ReissueDone, StopDone, WakeDone,
           Leave, IInv, TypeOK
  <1>2. use' = use /\ older' = older /\ revoked' = revoked
    BY <1>1, HistoryKept
  <1>3. cook' \in {NoCook, cook} /\ (cook' # NoCook => grill' \in CookSteps)
    BY <1>1, CookKept
  <1>4. OpenUses' = OpenUses
    BY <1>2 DEF Rests, OpenUses, Use
  <1>5. HTypeOK'
    BY <1>2, <1>3 DEF HInv, HTypeOK
  <1>6. FifoInv'
    BY <1>2 DEF Rests, HInv, FifoInv, Before, Use
  <1>7. StopInv'
    <2>1. \A c \in Calls : pc'[c] = "acted" /\ kind'[c] = "stop" => cook' = NoCook
      BY <1>3 DEF Rests, KindsKept, HInv, StopInv
    <2>2. NoCook \notin revoked
      BY UsesDiffer DEF HInv, HTypeOK
    <2> QED BY <1>2, <1>3, <2>1, <2>2 DEF Rests, HInv, StopInv, Use
  <1>8. ASSUME cook' = cook PROVE UNCHANGED Control!vars
    BY <1>2, <1>4, <1>8 DEF Control!vars
  <1>9. ASSUME cook' = NoCook PROVE Control!StopActs
    BY <1>2, <1>4, <1>9 DEF Control!StopActs
  <1> QED BY <1>3, <1>5, <1>6, <1>7, <1>8, <1>9 DEF HInv

\* Lemma: a call that is made is one the promise knows of, with its past.
LEMMA MadeIsCall ==
  ASSUME IInv, HInv, Remember, NEW c \in Calls, pc[c] = "returned",
         NEW p \in {"queued", "sent"}, pc' = [pc EXCEPT ![c] = p], grill' = grill
  PROVE  /\ use' \in [Calls -> {0, 1}] /\ \A d \in Calls : d # c => use'[d] = use[d]
         /\ <<c, use'[c]>> # cook /\ <<c, use'[c]>> \in Uses /\ cook' = cook
         /\ older' = [u \in Uses |-> IF u = <<c, use'[c]>> THEN (OpenUses \cup {cook}) \ {NoCook}
                                     ELSE older[u] \ {<<c, use'[c]>>}]
         /\ revoked' = revoked \ {<<c, use'[c]>>}
         /\ HTypeOK' /\ Control!Call(<<c, use'[c]>>)
         /\ \A d \in Calls : d # c => pc'[d] = pc[d]
  <1>1. pc'[c] = p /\ \A d \in Calls : d # c => pc'[d] = pc[d]
    BY DEF IInv, TypeOK
  <1>2. Made = {c}
    BY <1>1 DEF Made
  <1>3. Acting = {} /\ Stopped = {}
    BY <1>1 DEF Acting, Stopped, Act, Succeed, IInv, TypeOK, StartDone, ReissueDone, StopDone,
                WakeDone, Leave
  <1>4. /\ use' \in [Calls -> {0, 1}] /\ \A d \in Calls : d # c => use'[d] = use[d]
        /\ <<c, use'[c]>> # cook
        /\ older' = [u \in Uses |-> IF u = <<c, use'[c]>> THEN (OpenUses \cup {cook}) \ {NoCook}
                                    ELSE older[u] \ {<<c, use'[c]>>}]
        /\ revoked' = revoked \ {<<c, use'[c]>>}
    BY <1>2, <1>3, HistoryMade
  <1>5. cook' = cook
    BY <1>3, CookKept
  <1>6. <<c, use'[c]>> \in Uses
    BY <1>4, UsesDiffer
  <1>7. OpenUses \subseteq Uses
    BY OpenUse DEF HInv
  <1>8. HTypeOK'
    BY <1>4, <1>5, <1>7 DEF HInv, HTypeOK
  <1>9. OpenUses' = OpenUses \cup {<<c, use'[c]>>}
    <2>1. ASSUME NEW d \in Calls, d # c PROVE Use(d)' = Use(d)
      BY <1>4, <2>1 DEF Use
    <2>2. Use(c)' = <<c, use'[c]>>
      BY DEF Use
    <2>3. OpenUses' = {Use(d)' : d \in {x \in Calls : pc'[x] # "returned"}}
      BY DEF OpenUses
    <2> QED BY <1>1, <2>1, <2>2, <2>3, pc[c] = "returned", p # "returned" DEF OpenUses
  <1>10. <<c, use'[c]>> \notin OpenUses
    BY pc[c] = "returned" DEF OpenUses, Use
  <1>11. Control!Call(<<c, use'[c]>>)
    BY <1>4, <1>5, <1>9, <1>10 DEF Control!Call
  <1> QED BY <1>1, <1>4, <1>5, <1>6, <1>8, <1>11

\* Lemma: nobody is open while the lock is free (coordinator.py:900: no command is lost
\* on its way into the lock).
LEMMA FreeMeansNobody ==
  ASSUME IInv, FifoInv, Free
  PROVE  \A d \in Calls : pc[d] = "returned"
  <1>1. \A d \in Calls : pc[d] \notin {"sent", "acted"}
    BY LockEmpty DEF Free
  <1>2. \A d \in Calls : pc[d] # "queued"
    BY DEF Free, FifoInv
  <1>3. pc \in [Calls -> Points]
    BY DEF IInv, TypeOK
  <1> QED BY ONLY <1>1, <1>2, <1>3 DEF Points

\* Lemma: a call that is made and goes in at once.
LEMMA EntersKeep ==
  ASSUME IInv, HInv, Remember, KindsKept, NEW c \in Calls, Enters(c), grill' = grill
  PROVE  HInv' /\ Control!Call(<<c, use'[c]>>)
  <1> DEFINE u == <<c, use'[c]>>
  <1>1. pc[c] = "returned" /\ pc' = [pc EXCEPT ![c] = "sent"]
        /\ owner' = c /\ waiters' = <<>>
    BY DEF Enters, GoesIn, Free
  <1>2. \A d \in Calls : pc[d] = "returned"
    BY FreeMeansNobody DEF Enters, HInv
  <1>3. /\ u # cook /\ u \in Uses /\ cook' = cook
        /\ older' = [v \in Uses |-> IF v = u THEN (OpenUses \cup {cook}) \ {NoCook}
                                    ELSE older[v] \ {u}]
        /\ revoked' = revoked \ {u} /\ HTypeOK' /\ Control!Call(u)
        /\ \A d \in Calls : d # c => pc'[d] = pc[d]
    BY <1>1, MadeIsCall
  <1>4. Use(c)' = u
    BY DEF Use
  <1>5. pc'[c] = "sent" /\ \A d \in Calls : d # c => pc'[d] = "returned"
    BY <1>1, <1>2 DEF IInv, TypeOK
  <1> HIDE DEF u
  <1>6. FifoInv'
    <2>1. OpenUses = {}
      BY <1>2 DEF OpenUses
    <2>2. ~Before(c, c)'
      BY <1>3, <1>4, <2>1 DEF Before
    <2>3. \A d \in Calls : ~Before(d, c)'
      BY <1>5, <2>2 DEF Before
    <2>4. Len(waiters') = 0
      BY <1>1
    <2> QED BY <1>1, <1>5, <2>3, <2>4 DEF FifoInv
  <1>7. StopInv'
    <2>1. u \notin revoked'
      BY <1>3
    <2>2. cook' \notin revoked' /\ (cook' # NoCook => grill' \in CookSteps)
      BY <1>3 DEF HInv, StopInv
    <2>3. \A d \in Calls : pc'[d] # "acted" /\ (pc'[d] # "returned" => d = c)
      BY <1>5
    <2> QED BY <1>4, <2>1, <2>2, <2>3 DEF StopInv
  <1> QED BY <1>3, <1>6, <1>7 DEF HInv, u

\* Lemma: a call that is made and queues: whoever is open is inside, or ahead of it.
LEMMA QueuesKeep ==
  ASSUME IInv, HInv, Remember, KindsKept, NEW c \in Calls, Queues(c), grill' = grill
  PROVE  HInv' /\ Control!Call(<<c, use'[c]>>)
  <1> DEFINE u == <<c, use'[c]>>
  <1>1. pc[c] = "returned" /\ pc' = [pc EXCEPT ![c] = "queued"]
        /\ owner' = owner /\ waiters' = Append(waiters, c)
    BY DEF Queues
  <1>2. /\ use' \in [Calls -> {0, 1}] /\ \A d \in Calls : d # c => use'[d] = use[d]
        /\ u # cook /\ u \in Uses /\ cook' = cook
        /\ older' = [v \in Uses |-> IF v = u THEN (OpenUses \cup {cook}) \ {NoCook}
                                    ELSE older[v] \ {u}]
        /\ revoked' = revoked \ {u} /\ HTypeOK' /\ Control!Call(u)
        /\ \A d \in Calls : d # c => pc'[d] = pc[d]
    BY <1>1, MadeIsCall
  <1>3. Use(c)' = u /\ \A d \in Calls : d # c => Use(d)' = Use(d)
    BY <1>2 DEF Use
  <1>4. \A d \in Calls : d # c => Use(d) # u
    BY DEF Use
  <1> HIDE DEF u
  <1>5. pc'[c] = "queued"
    BY <1>1 DEF IInv, TypeOK
  <1>6. \A d \in Calls, e \in Calls : e # c /\ Before(d, e)' => Before(d, e)
    <2> SUFFICES ASSUME NEW d \in Calls, NEW e \in Calls, e # c, Before(d, e)'
                 PROVE  Before(d, e)
      OBVIOUS
    <2>1. Use(e)' = Use(e) /\ Use(e) \in Uses /\ Use(e) # u
      BY <1>3, <1>4, OpenUse DEF HInv
    <2>2. older'[Use(e)] = older[Use(e)] \ {u}
      BY <1>2, <2>1
    <2>3. d # c
      BY <1>3, <2>1, <2>2 DEF Before
    <2> QED BY <1>2, <1>3, <2>1, <2>2, <2>3 DEF Before
  <1>7. /\ Len(waiters) \in Nat /\ Len(waiters') = Len(waiters) + 1
        /\ \A i \in 1..Len(waiters) : waiters'[i] = waiters[i] /\ waiters[i] \in Calls
        /\ waiters'[Len(waiters) + 1] = c
    BY <1>1 DEF IInv, TypeOK
  <1>8. \A i \in 1..Len(waiters) : waiters[i] # c
    BY <1>1 DEF IInv, QueueInv
  <1>9. FifoInv'
    <2>1. ASSUME NEW d \in Calls, pc'[d] = "queued"
          PROVE  \E i \in 1..Len(waiters') : waiters'[i] = d
      <3>1. CASE d = c
        BY <3>1, <1>7
      <3>2. CASE d # c
        BY <3>2, <2>1, <1>2, <1>7 DEF HInv, FifoInv
      <3> QED BY <3>1, <3>2
    <2>2. ASSUME NEW i \in 1..Len(waiters'), NEW d \in Calls, Before(d, waiters[i])'
          PROVE  d = owner' \/ \E j \in 1..(i - 1) : waiters'[j] = d
      <3>1. CASE i = Len(waiters) + 1
        <4>1. Use(d)' \in older'[u] /\ pc'[d] # "returned"
          BY <2>2, <3>1, <1>3, <1>7 DEF Before
        <4>2. Use(d)' \in (OpenUses \cup {cook}) \ {NoCook}
          BY <4>1, <1>2
        <4>3. d # c
          <5>1. u \notin OpenUses
            BY <1>1, <1>4, Zenon DEF OpenUses, Use, u
          <5> QED BY <5>1, <4>2, <1>2, <1>3
        <4>4. pc[d] # "returned"
          BY <4>1, <4>3, <1>2
        <4>5. CASE pc[d] = "queued"
          BY <4>5, <3>1, <1>7 DEF HInv, FifoInv
        <4>6. CASE pc[d] \in {"sent", "acted"}
          BY <4>6, <1>1 DEF IInv, LockInv
        <4> QED BY <4>4, <4>5, <4>6 DEF IInv, TypeOK, Points
      <3>2. CASE i \in 1..Len(waiters)
        <4>1. PICK e \in Calls : e = waiters[i] /\ e = waiters'[i] /\ e # c
          BY <3>2, <1>7, <1>8
        <4>2. Before(d, e)'
          BY <4>1, <2>2 DEF Before, Use
        <4>3. Before(d, e)
          BY <4>1, <4>2, <1>6
        <4>4. d = owner \/ \E j \in 1..(i - 1) : waiters[j] = d
          BY <4>1, <4>3, <3>2 DEF HInv, FifoInv
        <4> QED BY <4>4, <3>2, <1>1, <1>7
      <3> QED BY <3>1, <3>2, <1>7
    <2>3. ASSUME owner' # NoCall, NEW d \in Calls PROVE ~Before(d, owner)'
      <3>1. owner \in Calls /\ owner # c /\ owner' = owner
        BY <2>3, <1>1 DEF IInv, TypeOK, LockInv
      <3>2. ~Before(d, owner)
        BY <3>1, <2>3 DEF HInv, FifoInv
      <3> QED BY <3>1, <3>2, <1>6 DEF Before
    <2> QED BY <2>1, <2>2, <2>3 DEF FifoInv
  <1>10. StopInv'
    <2>1. u \notin revoked'
      BY <1>2
    <2>2. cook' \notin revoked' /\ (cook' # NoCook => grill' \in CookSteps)
      BY <1>2 DEF HInv, StopInv
    <2>3. \A d \in Calls : pc'[d] # "returned" => Use(d)' \notin revoked'
      BY <1>2, <1>3, <2>1 DEF HInv, StopInv
    <2>4. \A d \in Calls : pc'[d] = "acted" /\ kind'[d] = "stop" => cook' = NoCook
      BY <1>2, <1>5 DEF HInv, StopInv, KindsKept
    <2> QED BY <2>2, <2>3, <2>4 DEF StopInv
  <1> QED BY <1>2, <1>9, <1>10 DEF HInv, u

\* Lemma: a call that returns closes its use and no other.
LEMMA ClosesUse ==
  ASSUME HTypeOK, NEW c \in Calls, pc[c] # "returned", pc'[c] = "returned", use' = use,
         \A d \in Calls : d # c => pc'[d] = pc[d]
  PROVE  Use(c) \in OpenUses /\ OpenUses' = OpenUses \ {Use(c)}
  <1>1. \A d \in Calls : Use(d)' = Use(d)
    BY DEF Use
  <1>2. OpenUses' = {Use(d) : d \in {x \in Calls : pc'[x] # "returned"}}
    BY <1>1 DEF OpenUses
  <1>3. \A d \in Calls : d # c => Use(d) # Use(c)
    BY UsesDiffer
  <1>4. Use(c) \in OpenUses
    BY OpenUse
  <1> HIDE DEF Use
  <1> QED BY <1>2, <1>3, <1>4 DEF OpenUses

\* Lemma: a step that makes no call leaves the past of every call as it was.
LEMMA NoneMade ==
  ASSUME IInv, HInv, Remember, NEW c \in Calls, pc[c] # "returned",
         pc' = [pc EXCEPT ![c] = pc'[c]]
  PROVE  /\ use' = use /\ older' = older /\ Acting \subseteq {c} /\ Stopped \subseteq {c}
         /\ revoked' = revoked \cup UNION {older[Use(d)] : d \in Stopped}
         /\ \A d \in Calls : d # c => pc'[d] = pc[d]
  <1>1. \A d \in Calls : d # c => pc'[d] = pc[d]
    BY DEF IInv, TypeOK
  <1>2. Made = {}
    BY <1>1 DEF Made
  <1>3. Acting \subseteq {c}
    BY <1>1 DEF Acting, Act, IInv, TypeOK
  <1>4. Stopped \subseteq {c}
    BY <1>1 DEF Stopped, Succeed, StartDone, ReissueDone, StopDone, WakeDone, Leave, IInv, TypeOK
  <1> QED BY <1>1, <1>2, <1>3, <1>4, HistoryKept

\* Lemma: the first waiter goes in or is declined: whatever is older has returned.
LEMMA FirstKeeps ==
  ASSUME IInv, HInv, Remember, KindsKept, NEW c \in Calls, First(c), GoesIn(c) \/ Returns(c),
         grill' = grill
  PROVE  HInv' /\ (UNCHANGED Control!vars \/ Control!Return(Use(c)))
  <1>1. /\ Len(waiters) \in Nat \ {0} /\ waiters[1] = c /\ owner = NoCall
        /\ Len(waiters') = Len(waiters) - 1
        /\ \A i \in 1..Len(waiters') : waiters'[i] = waiters[i + 1] /\ waiters[i + 1] \in Calls
    BY DEF First, IInv, TypeOK
  <1>2. pc[c] = "queued"
    BY <1>1 DEF IInv, QueueInv
  <1>3. PICK p \in {"sent", "returned"} : pc' = [pc EXCEPT ![c] = p]
                                          /\ owner' = IF p = "sent" THEN c ELSE NoCall
    BY DEF GoesIn, Returns
  <1>4. pc'[c] = p
    BY <1>3 DEF IInv, TypeOK
  <1>5. /\ use' = use /\ older' = older /\ Acting \subseteq {c} /\ Stopped \subseteq {c}
        /\ revoked' = revoked \cup UNION {older[Use(d)] : d \in Stopped}
        /\ \A d \in Calls : d # c => pc'[d] = pc[d]
    BY <1>2, <1>3, <1>4, NoneMade
  <1>6. Acting = {} /\ Stopped = {}
    BY <1>2, <1>5 DEF Acting, Act, Stopped, Succeed
  <1>7. cook' = cook
    BY <1>6, CookKept
  <1>8. revoked' = revoked
    BY <1>5, <1>6
  <1>9. \A d, e \in Calls : Before(d, e)' => Before(d, e)
    BY <1>2, <1>5 DEF Before, Use
  <1>10. FifoInv'
    <2>1. ASSUME NEW d \in Calls, pc'[d] = "queued"
          PROVE  \E i \in 1..Len(waiters') : waiters'[i] = d
      <3>1. d # c /\ pc[d] = "queued"
        BY <2>1, <1>4, <1>5
      <3>2. PICK i \in 1..Len(waiters) : waiters[i] = d
        BY <3>1 DEF HInv, FifoInv
      <3>3. i - 1 \in 1..Len(waiters') /\ (i - 1) + 1 = i
        BY <3>1, <3>2, <1>1
      <3> QED BY <3>2, <3>3, <1>1
    <2>2. ASSUME NEW i \in 1..Len(waiters'), NEW d \in Calls, Before(d, waiters[i])'
          PROVE  d = owner' \/ \E j \in 1..(i - 1) : waiters'[j] = d
      <3>1. PICK e \in Calls : e = waiters[i + 1] /\ e = waiters'[i]
        BY <1>1
      <3>2. Before(d, e)'
        BY <2>2, <3>1 DEF Before, Use
      <3>3. Before(d, e) /\ i + 1 \in 1..Len(waiters)
        BY <3>2, <1>1, <1>9
      <3>4. d = owner \/ \E j \in 1..((i + 1) - 1) : waiters[j] = d
        BY <3>1, <3>3 DEF HInv, FifoInv
      <3>5. PICK j \in 1..i : waiters[j] = d
        BY <3>4, <1>1, NoCallAssumption
      <3>6. CASE j = 1
        <4>1. d = c /\ pc'[d] # "returned"
          BY <2>2, <3>5, <3>6, <1>1 DEF Before
        <4> QED BY <4>1, <1>3, <1>4
      <3>7. CASE j # 1
        <4>1. j - 1 \in 1..(i - 1) /\ j - 1 \in 1..Len(waiters') /\ (j - 1) + 1 = j
          BY <3>7, <1>1
        <4> QED BY <4>1, <3>5, <1>1
      <3> QED BY <3>6, <3>7
    <2>3. ASSUME owner' # NoCall, NEW d \in Calls PROVE ~Before(d, owner)'
      <3>1. owner' = c /\ 1 \in 1..Len(waiters)
        BY <2>3, <1>1, <1>3
      <3>2. ~Before(d, waiters[1])
        BY <3>1, <1>1, NoCallAssumption DEF HInv, FifoInv
      <3>3. ~Before(d, c)
        BY <3>2, <1>1
      <3> QED BY <3>1, <3>3, <1>9 DEF Before
    <2> QED BY <2>1, <2>2, <2>3 DEF FifoInv
  <1>11. StopInv'
    <2>1. \A d \in Calls : pc'[d] = "acted" /\ kind'[d] = "stop" => cook' = NoCook
      BY <1>4, <1>5, <1>7 DEF HInv, StopInv, KindsKept
    <2>2. \A d \in Calls : pc'[d] # "returned" => Use(d)' \notin revoked'
      BY <1>2, <1>5, <1>8 DEF HInv, StopInv, Use
    <2> QED BY <2>1, <2>2, <1>7, <1>8 DEF HInv, StopInv
  <1>12. HTypeOK'
    BY <1>5, <1>7, <1>8 DEF HInv, HTypeOK
  <1>13. ASSUME p = "sent" PROVE UNCHANGED Control!vars
    <2>1. OpenUses' = OpenUses
      BY <1>2, <1>4, <1>5, <1>13 DEF OpenUses, Use
    <2> QED BY <2>1, <1>5, <1>7, <1>8 DEF Control!vars
  <1>14. ASSUME p = "returned" PROVE Control!Return(Use(c))
    BY <1>2, <1>4, <1>5, <1>7, <1>8, <1>14, ClosesUse DEF Control!Return, HInv
  <1> QED BY <1>10, <1>11, <1>12, <1>13, <1>14 DEF HInv

\* Lemma: a call leaves the lock, and if it is a Stop that is done, whatever is older
\* than it has returned and nothing is cooked for (coordinator.py:896-910, 1168-1181).
LEMMA LeavesKeepPromise ==
  ASSUME IInv, HInv, Remember, KindsKept, NEW c \in Calls, Leaves(c), grill' = grill
  PROVE  HInv' /\ (Control!Return(Use(c)) \/ Control!StopReturns(Use(c)))
  <1>1. /\ pc[c] \in {"sent", "acted"} /\ pc' = [pc EXCEPT ![c] = "returned"]
        /\ owner' = NoCall /\ waiters' = waiters
    BY DEF Leaves, Returns
  <1>2. c = owner /\ owner # NoCall /\ pc'[c] = "returned"
    BY <1>1, NoCallAssumption DEF IInv, TypeOK, LockInv
  <1>3. /\ use' = use /\ older' = older /\ Acting \subseteq {c} /\ Stopped \subseteq {c}
        /\ revoked' = revoked \cup UNION {older[Use(d)] : d \in Stopped}
        /\ \A d \in Calls : d # c => pc'[d] = pc[d]
    BY <1>1, <1>2, NoneMade
  <1>4. Acting = {}
    BY <1>2, <1>3 DEF Acting, Act, IInv, TypeOK
  <1>5. cook' = cook
    BY <1>4, CookKept
  <1>6. \A d, e \in Calls : Before(d, e)' => d # c /\ Before(d, e)
    BY <1>2, <1>3 DEF Before, Use
  <1>7. \A d \in Calls : pc'[d] \notin {"sent", "acted"}
    BY <1>2, <1>3 DEF IInv, LockInv
  <1>8. FifoInv'
    <2>1. \A i \in 1..Len(waiters) : waiters[i] \in Calls
      BY DEF IInv, TypeOK
    <2>2. \A d \in Calls : pc'[d] = "queued" => pc[d] = "queued"
      BY <1>2, <1>3
    <2>3. \A i \in 1..Len(waiters) : \A d \in Calls : Before(d, waiters[i])' =>
              \E j \in 1..(i - 1) : waiters[j] = d
      <3> SUFFICES ASSUME NEW i \in 1..Len(waiters), NEW d \in Calls, Before(d, waiters[i])'
                   PROVE  \E j \in 1..(i - 1) : waiters[j] = d
        OBVIOUS
      <3>1. PICK e \in Calls : e = waiters[i] /\ e = waiters'[i]
        BY <2>1, <1>1
      <3>2. Before(d, e)'
        BY <3>1 DEF Before, Use
      <3>3. d # c /\ Before(d, e)
        BY <3>2, <1>6
      <3> QED BY <3>1, <3>3, <1>2 DEF HInv, FifoInv
    <2> QED BY <1>1, <2>2, <2>3 DEF HInv, FifoInv
  <1>9. CASE Stopped = {}
    <2>1. revoked' = revoked
      BY <1>3, <1>9
    <2>2. StopInv'
      BY <1>2, <1>3, <1>5, <1>7, <2>1 DEF HInv, StopInv, Use
    <2>3. HTypeOK'
      BY <1>3, <1>5, <2>1 DEF HInv, HTypeOK
    <2>4. Control!Return(Use(c))
      BY <1>1, <1>2, <1>3, <1>5, <2>1, ClosesUse DEF HInv, Control!Return
    <2> QED BY <1>8, <2>2, <2>3, <2>4 DEF HInv
  <1>10. CASE Stopped = {c}
    <2>1. pc[c] = "acted" /\ kind[c] = "stop"
      BY <1>10 DEF Stopped, Succeed
    <2>2. revoked' = revoked \cup older[Use(c)]
      BY <1>3, <1>10
    <2>3. cook = NoCook
      BY <2>1 DEF HInv, StopInv
    <2>4. Use(c) \in Uses /\ older[Use(c)] \subseteq Uses
      BY OpenUse DEF HInv, HTypeOK
    <2>5. cook \notin older[Use(c)]
      BY <2>3, <2>4, UsesDiffer
    <2>6. \A d \in Calls : pc'[d] # "returned" => Use(d)' \notin revoked'
      <3>1. ASSUME NEW d \in Calls, pc'[d] # "returned" PROVE Use(d) \notin older[Use(c)]
        BY <3>1, <1>2, <1>3 DEF HInv, FifoInv, Before
      <3>2. \A d \in Calls : Use(d)' = Use(d)
        BY <1>3 DEF Use
      <3> QED BY <1>2, <1>3, <2>2, <3>1, <3>2 DEF HInv, StopInv
    <2>7. StopInv'
      BY <1>5, <1>7, <2>2, <2>3, <2>5, <2>6 DEF HInv, StopInv
    <2>8. HTypeOK'
      BY <1>3, <1>5, <2>2, <2>4 DEF HInv, HTypeOK
    <2>9. Control!StopReturns(Use(c))
      BY <1>1, <1>2, <1>3, <1>5, <2>2, <2>5, ClosesUse DEF HInv, Control!StopReturns
    <2> QED BY <1>8, <2>7, <2>8, <2>9 DEF HInv
  <1> QED BY <1>3, <1>9, <1>10

\* Lemma: the grill acts, never for a call that a returned Stop was made after; what a
\* Stop makes of it is no cook (coordinator.py:1168-1175).
LEMMA ActKeepsPromise ==
  ASSUME IInv, HInv, Remember, NEW c \in Calls, Act(c)
  PROVE  HInv' /\ (Control!StopActs \/ Control!StartActs(Use(c)))
  <1>1. /\ pc[c] = "sent" /\ pc' = [pc EXCEPT ![c] = "acted"] /\ kind' = kind
        /\ UNCHANGED <<owner, waiters>> /\ grill' = Obeys(kind[c], via[c])
    BY DEF Act, lock
  <1>2. c = owner /\ pc'[c] = "acted"
    BY <1>1 DEF IInv, TypeOK, LockInv
  <1>3. /\ use' = use /\ older' = older /\ Acting \subseteq {c} /\ Stopped \subseteq {c}
        /\ revoked' = revoked \cup UNION {older[Use(d)] : d \in Stopped}
        /\ \A d \in Calls : d # c => pc'[d] = pc[d]
    BY <1>1, <1>2, NoneMade
  <1>4. Stopped = {} /\ Acting = {c}
    BY <1>1, <1>3 DEF Stopped, Succeed, Acting
  <1>5. revoked' = revoked
    BY <1>3, <1>4
  <1>6. IF grill' \in CookSteps THEN cook' = Use(c) ELSE cook' = NoCook
    <2>1. {Use(d) : d \in Acting} = {Use(c)}
      BY <1>4
    <2> QED BY <1>4, <2>1 DEF Remember, CookAfter
  <1>7. kind[c] = "stop" => cook' = NoCook
    <2>1. ASSUME kind[c] = "stop" PROVE grill' \in {"idle", "asleep"}
      BY <2>1, <1>1 DEF Obeys
    <2> QED BY <1>6, <2>1 DEF CookSteps
  <1>8. OpenUses' = OpenUses
    BY <1>1, <1>2, <1>3 DEF OpenUses, Use
  <1>9. Use(c) \in Uses \ revoked /\ Use(c) # NoCook
    BY <1>1, OpenUse, UsesDiffer DEF HInv, StopInv
  <1>10. HTypeOK'
    BY <1>3, <1>5, <1>6, <1>9 DEF HInv, HTypeOK
  <1>11. FifoInv'
    <2>1. \A d, e \in Calls : Before(d, e)' <=> Before(d, e)
      BY <1>1, <1>2, <1>3 DEF Before, Use
    <2>2. \A i \in 1..Len(waiters) : waiters[i] \in Calls
      BY DEF IInv, TypeOK
    <2>3. \A d \in Calls : pc'[d] = "queued" => pc[d] = "queued"
      BY <1>2, <1>3
    <2>4. \A i \in 1..Len(waiters') : \A d \in Calls : Before(d, waiters[i])' =>
              Before(d, waiters[i])
      BY <1>1, <2>1, <2>2 DEF Before
    <2>5. \A d \in Calls : Before(d, owner)' => Before(d, owner)
      BY <1>1, <1>2, <2>1 DEF Before
    <2> QED BY <1>1, <2>3, <2>4, <2>5 DEF HInv, FifoInv
  <1>12. StopInv'
    <2>1. \A d \in Calls : pc'[d] = "acted" /\ kind'[d] = "stop" => cook' = NoCook
      BY <1>1, <1>2, <1>3, <1>7 DEF IInv, LockInv
    <2>2. \A d \in Calls : pc'[d] # "returned" => Use(d)' \notin revoked'
      BY <1>1, <1>3, <1>5 DEF HInv, StopInv, Use
    <2>3. NoCook \notin revoked
      BY UsesDiffer DEF HInv, HTypeOK
    <2> QED BY <1>5, <1>6, <1>9, <2>1, <2>2, <2>3 DEF StopInv
  <1>13. CASE grill' \in CookSteps
    BY <1>3, <1>5, <1>6, <1>8, <1>9, <1>10, <1>11, <1>12, <1>13 DEF HInv, Control!StartActs
  <1>14. CASE grill' \notin CookSteps
    BY <1>3, <1>5, <1>6, <1>8, <1>10, <1>11, <1>12, <1>14 DEF HInv, Control!StopActs
  <1> QED BY <1>13, <1>14

\* Lemma: every step keeps the promise's invariant, and is one of its steps.
LEMMA PromiseStep ==
  ASSUME IInv, HInv, [Next /\ Remember]_<<vars, history>>
  PROVE  HInv' /\ [Control!Next]_(Control!vars)
  <1>1. CASE UNCHANGED <<vars, history>>
    <2>1. UNCHANGED <<owner, waiters, pc, kind, grill, use, cook, older, revoked>>
      BY <1>1 DEF vars, history, lock, calls, environment
    <2> QED BY <2>1 DEF HInv, HTypeOK, FifoInv, StopInv, Before, Use, OpenUses, Control!vars
  <1>2. CASE Next /\ Remember
    <2>1. KindsKept
      BY <1>2, StepKinds
    <2>2. CASE Rests
      BY <1>2, <2>1, <2>2, RestsKeep DEF Control!Next
    <2>3. ASSUME NEW c \in Calls, Enters(c) \/ Queues(c), grill' = grill
          PROVE  HInv' /\ Control!Next
      <3>1. HInv' /\ Control!Call(<<c, use'[c]>>)
        BY <1>2, <2>1, <2>3, EntersKeep, QueuesKeep
      <3>2. <<c, use'[c]>> \in Uses
        BY <3>1, UsesDiffer DEF HInv, HTypeOK
      <3> QED BY <3>1, <3>2 DEF Control!Next
    <2>4. ASSUME NEW c \in Calls, Leaves(c), grill' = grill PROVE HInv' /\ Control!Next
      <3>1. Use(c) \in Uses
        BY OpenUse DEF HInv
      <3> QED BY <1>2, <2>1, <2>4, <3>1, LeavesKeepPromise DEF Control!Next
    <2>5. ASSUME NEW c \in Calls, First(c), GoesIn(c) \/ Returns(c), grill' = grill
          PROVE  HInv' /\ [Control!Next]_(Control!vars)
      <3>1. Use(c) \in Uses
        BY OpenUse DEF HInv
      <3> QED BY <1>2, <2>1, <2>5, <3>1, FirstKeeps DEF Control!Next
    <2>6. ASSUME NEW c \in Calls, Act(c) PROVE HInv' /\ Control!Next
      <3>1. Use(c) \in Uses
        BY OpenUse DEF HInv
      <3> QED BY <1>2, <2>6, <3>1, ActKeepsPromise DEF Control!Next
    <2> QED BY <1>2, <2>2, <2>3, <2>4, <2>5, <2>6, StepKinds
  <1> QED BY <1>1, <1>2

\* The coordinator keeps the promise of the command layer through all it does: however
\* user calls, its own skip of the preheat, polls and beacons overlap, once a Stop has
\* returned the grill cooks for no call that the Stop was made after, and nothing that a
\* returned Stop was made after is acted upon again (coordinator.py:897-901, 1168-1181).
THEOREM PromiseKept == HSpec => ImplementsControl
  <1>1. Init /\ Remembering => HInv /\ Control!Init
    <2> SUFFICES ASSUME Init, Remembering PROVE HInv /\ Control!Init
      OBVIOUS
    <2>1. OpenUses = {}
      BY DEF Init, OpenUses
    <2>2. HTypeOK
      BY DEF Remembering, HTypeOK
    <2>3. FifoInv
      BY NoCallAssumption DEF Init, LockInit, FifoInv
    <2>4. StopInv
      BY DEF Init, Remembering, StopInv
    <2> QED BY <2>1, <2>2, <2>3, <2>4 DEF Remembering, HInv, Control!Init
  <1>2. HSpec => Spec
    <2>1. [Next /\ Remember]_<<vars, history>> => [Next]_vars
      OBVIOUS
    <2> QED BY <2>1, PTL DEF HSpec, Spec
  <1> QED BY <1>1, <1>2, Invariance, PromiseStep, PTL
          DEF HSpec, ImplementsControl, Control!Spec
=============================================================================
