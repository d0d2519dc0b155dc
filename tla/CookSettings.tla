---------------------------- MODULE CookSettings ----------------------------
(***************************************************************************)
(* Changing the settings of a running cook (coordinator.py): every change  *)
(* re-sends the whole cook, built on the command last sent while that is   *)
(* pending and on the view otherwise.  The view lags the grill, the timer  *)
(* runs or waits meanwhile, and commands may fail or be refused.  Over     *)
(* Bluetooth a poll may bring no frame of the timer: the view is then made *)
(* up from the beacon, what is staged and an estimate of the timer.        *)
(*                                                                         *)
(* Two settings stand for all of them: the temperature, changed by         *)
(* async_modify_cook, and the probe's target, changed by async_set_probe.  *)
(* A change may also come with a mode; of the mode only its longest        *)
(* duration is kept (no mode of the table has a shortest one above         *)
(* MIN_REMAINING).  What is staged decides nothing here over the cloud and *)
(* is followed over Bluetooth only.  Times are in ticks.                   *)
(***************************************************************************)
EXTENDS Integers

CONSTANTS
    NoCook,             \* no command, nothing pending
    Temps, Targets,     \* the values that are asked for
    MaxTotal,           \* bound: the longest cook that is followed
    Longests,           \* duration_max_s of the modes
    MIN_REMAINING, ISSUE_GRACE,
    LAG                 \* how old the state that polls show may be

ASSUME ValuesAssumption == Temps # {} /\ Targets # {} /\ MaxTotal \in Nat \ {0}
\* coordinator.py:56: the backend reflects a command within the grace.
ASSUME LagAssumption == LAG \in Nat /\ ISSUE_GRACE \in Nat /\ LAG <= ISSUE_GRACE
ASSUME RemainingAssumption == MIN_REMAINING \in 1..MaxTotal
ASSUME LongestsAssumption == Longests \subseteq MIN_REMAINING..MaxTotal

\* What _remember_issue keeps of a command, and the command itself; `duration`: it sets the
\* duration, `cut`: the mode is too short for the rest of the cook.
Issued == [temp : Temps, target : Targets, remaining : 0..(MaxTotal + ISSUE_GRACE),
           total : 1..MaxTotal, running : BOOLEAN]
Sent == [duration : BOOLEAN, temp : Temps, target : Targets, seconds : 1..MaxTotal,
         cut : BOOLEAN, total : 1..MaxTotal, skip : BOOLEAN, running : BOOLEAN]

ASSUME NoCookAssumption == NoCook \notin Issued \cup Sent

Off == -1

VARIABLES
    grill,      \* the cook the grill runs
    local,      \* the backend is Bluetooth
    data,       \* self.data: the grill as the last fresh poll saw it
    dataAge,    \* ticks since then
    pending,    \* _pending within its grace, or NoCook
    issuedAge,  \* ticks since _issued_at
    override,   \* _seconds_override: <<seconds sent, total>>, or <<>>
    staged,     \* cook_setting_temp, _probe_setpoint and _seconds
    timer,      \* the ticks up to _local_cook_end, or Off
    command,    \* the command inside the lock, or NoCook
    acted,      \* the grill has acted on it
    asked,      \* history: for each setting the values the user may expect; no total
                \* if the total is lost, see TotalKept
    forgot      \* history: a poll without a frame dropped the elapsed time

view == <<data, dataAge>>
sent == <<pending, issuedAge, override>>
estimate == <<staged, timer>>
history == <<asked, forgot>>
vars == <<grill, local, view, sent, estimate, command, acted, history>>

Phases == {"preheat", "cooking", "paused"}
Cooks == [on : BOOLEAN, temp : Temps, target : Targets, phase : Phases,
          set : 1..MaxTotal, left : 0..MaxTotal]
\* `ends`: there is an end_time_utc; `estimated`: timer_estimated, or no timer at all.
Views == [on : BOOLEAN, temp : Temps, target : Targets, phase : Phases,
          set : 0..MaxTotal, left : 0..MaxTotal, ends : BOOLEAN, estimated : BOOLEAN]

\* The cook was started with what is staged.
Init ==
    /\ \E t \in Temps, g \in Targets, n \in MIN_REMAINING..MaxTotal :
          /\ grill = [on |-> TRUE, temp |-> t, target |-> g, phase |-> "preheat",
                      set |-> n, left |-> n]
          /\ data = [on |-> TRUE, temp |-> t, target |-> g, phase |-> "preheat",
                     set |-> n, left |-> n, ends |-> FALSE, estimated |-> FALSE]
          /\ staged = [temp |-> t, target |-> g, seconds |-> n]
    /\ local \in BOOLEAN /\ timer = Off
    /\ dataAge = 0
    /\ pending = NoCook /\ issuedAge = ISSUE_GRACE + 1 /\ override = <<>>
    /\ command = NoCook /\ acted = FALSE /\ forgot = FALSE
    /\ asked = [temp |-> {grill.temp}, target |-> {grill.target}, total |-> {grill.set}]
-----------------------------------------------------------------------------
(* The grill (external), and time.                                         *)

GrillMoves ==
    /\ grill.on
    /\ \/ grill.phase # "cooking" /\ grill' = [grill EXCEPT !.phase = "cooking"]
       \/ grill.phase = "cooking" /\ grill' = [grill EXCEPT !.phase = "paused"]
       \/ grill.left = 0 /\ grill' = [grill EXCEPT !.on = FALSE]
    /\ UNCHANGED <<local, view, sent, estimate, command, acted, history>>

\* A command takes less than a tick, and the view is never older than LAG. What is pending
\* is not read any more once its grace is over.
Tick ==
    /\ command = NoCook /\ dataAge < LAG
    /\ grill' = IF grill.on /\ grill.phase = "cooking" /\ grill.left > 0
                THEN [grill EXCEPT !.left = @ - 1] ELSE grill
    /\ dataAge' = dataAge + 1
    /\ issuedAge' = IF issuedAge > ISSUE_GRACE THEN issuedAge ELSE issuedAge + 1
    /\ pending' = IF issuedAge < ISSUE_GRACE THEN pending ELSE NoCook
    /\ timer' = IF timer > 0 THEN timer - 1 ELSE timer
    /\ UNCHANGED <<local, data, override, staged, command, acted, history>>
-----------------------------------------------------------------------------
(* What the coordinator takes the cook to be.                              *)

InGrace == issuedAge <= ISSUE_GRACE
\* `_pending_cook`
Pending == pending # NoCook

Active == data.on
Preheating == data.phase = "preheat"
TimerRunning == data.phase = "cooking"

\* Mutant: past the reported end it is below nothing.
RemainingPast(d, age) == IF d.ends THEN d.left - age ELSE d.left

\* `_remaining_seconds`: up to the reported end, and past it what was left when it was
\* reported.
RemainingSeconds(d, age) == IF d.ends /\ d.left > age THEN d.left - age ELSE d.left

\* `_live_remaining` of the state `d` at the age `age`: before the timer runs there may be
\* none, and the whole is left.
LiveRemaining(d, age) ==
    LET rest == RemainingSeconds(d, age)
    IN  IF rest # 0 \/ d.phase # "preheat" THEN rest
        ELSE IF d.set # 0 THEN d.set ELSE staged.seconds

LiveTemp == IF data.estimated THEN staged.temp ELSE data.temp

\* Mutant: the elapsed time is dropped from what a poll shows.
SecondsSetRaw(n) == n

\* `seconds_set` of an active state after `_normalize`.
SecondsSet(n) == IF override # <<>> /\ n = override[1] THEN override[2] ELSE n

\* Mutant: what entities show is what the last poll showed.
ShownLive == [temp |-> data.temp, target |-> data.target]

\* What entities show: live_or_staged_temp, live_or_staged_probe_setpoint.
Shown == IF Pending THEN [temp |-> pending.temp, target |-> pending.target]
                    ELSE [temp |-> LiveTemp, target |-> data.target]

AtLeast(low, n) == IF n < low THEN low ELSE n

\* Mutant: a change builds on what the last poll showed.
BaseLive ==
    LET remaining == LiveRemaining(data, dataAge)
    IN  [temp |-> LiveTemp, target |-> data.target, remaining |-> remaining,
         elapsed |-> AtLeast(0, data.set - remaining)]

\* `_cook_base`: the command that is pending, aged while its timer runs, or the view.
Base ==
    IF Pending
    THEN LET since == IF pending.running THEN issuedAge ELSE 0
             remaining == AtLeast(0, pending.remaining - since)
         IN  [temp |-> pending.temp, target |-> pending.target, remaining |-> remaining,
              elapsed |-> AtLeast(0, pending.total - remaining)]
    ELSE LET remaining == LiveRemaining(data, dataAge)
         IN  [temp |-> LiveTemp, target |-> data.target, remaining |-> remaining,
              elapsed |-> AtLeast(0, data.set - remaining)]

\* What a poll with the grill's timer shows; over Bluetooth the probes' targets are the
\* staged ones all the same.
Framed ==
    [on |-> grill.on, temp |-> grill.temp,
     target |-> IF local THEN staged.target ELSE grill.target, phase |-> grill.phase,
     set |-> grill.set, left |-> grill.left, ends |-> grill.phase = "cooking",
     estimated |-> FALSE]

\* `_normalize` and `_reconcile_pending` on the state `d` that a poll shows at the age
\* `age`: an idle grill ends the override once the grace is over; of an active one
\* the timer is taken over if it is the timer of the pending command.
Normalized(d, age) ==
    LET running == d.phase = "cooking"
        since == IF running THEN issuedAge ELSE 0
        shown == [d EXCEPT !.set = SecondsSet(@)]
    IN  /\ dataAge' = age
        /\ IF ~d.on
           THEN /\ data' = d
                /\ override' = IF InGrace THEN override ELSE <<>>
                /\ UNCHANGED pending
           ELSE /\ data' = shown
                /\ pending' = IF Pending /\ shown.set = pending.total
                              THEN [pending EXCEPT
                                      !.remaining = LiveRemaining(shown, age) + since,
                                      !.running = running]
                              ELSE pending
                /\ UNCHANGED override

\* The estimate of one timer, shown under the duration of another.
Mixed == data.estimated /\ data.left > data.set

\* The total is still to be expected, or it is lost.
Lost == asked.total = {}
Expect(kept) == asked' = IF kept THEN asked ELSE [asked EXCEPT !.total = {}]

\* A poll brings the grill as it is, or shows again what it showed before.
Poll ==
    /\ \/ Normalized(Framed, 0) /\ Expect(~forgot)
       \/ Normalized(data, dataAge) /\ Expect(~Mixed)
    /\ timer' = IF data'.on THEN timer ELSE Off
    /\ UNCHANGED <<grill, local, issuedAge, staged, command, acted, forgot>>

\* The timer that `_merge_beacon` estimates: it starts, unless the lid is open, when the
\* grill cooks, and it runs until the cook has ended.
Estimates ==
    IF ~grill.on THEN {Off}
    ELSE IF grill.phase = "cooking" /\ timer = Off THEN {Off, staged.seconds} ELSE {timer}

\* What is shown without a frame, with the estimate `n`.
Estimated(n) ==
    LET counts == grill.on /\ grill.phase = "cooking" /\ n # Off
    IN  [on |-> grill.on, temp |-> staged.temp, target |-> staged.target,
         phase |-> grill.phase, set |-> IF counts THEN staged.seconds ELSE 0,
         left |-> IF counts THEN n ELSE 0, ends |-> counts, estimated |-> TRUE]

\* A Bluetooth poll without a frame: `_normalize` takes it for idle, then `_merge_beacon`
\* makes up the view.
PollFrameless ==
    /\ local
    /\ IF InGrace THEN UNCHANGED <<override, forgot>>
                  ELSE override' = <<>> /\ forgot' = (forgot \/ override # <<>>)
    /\ timer' \in Estimates /\ data' = Estimated(timer') /\ dataAge' = 0
    /\ UNCHANGED <<grill, local, pending, issuedAge, staged, command, acted, asked>>

\* `_merge_beacon` into what is shown already, on a push: an estimate is made anew while
\* the grill cooks, and otherwise the numbers stay.
Beacon ==
    /\ local
    /\ IF data.estimated THEN timer' \in Estimates
                         ELSE timer' = IF grill.on THEN timer ELSE Off
    /\ IF data.estimated /\ grill.on /\ grill.phase = "cooking" /\ timer' # Off
       THEN data' = Estimated(timer') /\ dataAge' = 0
       ELSE /\ data' = [data EXCEPT !.on = grill.on, !.phase = grill.phase,
                                    !.target = staged.target]
            /\ UNCHANGED dataAge
    /\ UNCHANGED <<grill, local, sent, staged, command, acted, history>>
-----------------------------------------------------------------------------
(* The changes.                                                            *)

\* The seconds sent in a mode with the longest duration `longest`.
Clamped(n, longest) == AtLeast(MIN_REMAINING, IF n > longest THEN longest ELSE n)

\* `_reissue`: the running cook with `change`, which leaves `rest` of it; `duration` is
\* whether that is the change.
Reissue(duration, change, rest) ==
    /\ \E longest \in Longests :
          LET seconds == Clamped(rest, longest)
          IN  /\ Base.elapsed + seconds <= MaxTotal      \* bound
              /\ command' = [duration |-> duration, temp |-> change.temp,
                             target |-> change.target, seconds |-> seconds,
                             cut |-> rest > longest, total |-> Base.elapsed + seconds,
                             skip |-> ~Preheating, running |-> TimerRunning]
    /\ acted' = FALSE

\* `_stage`, before anything is sent.
Stage(setting, value) ==
    /\ command = NoCook
    /\ staged' = IF local THEN [staged EXCEPT ![setting] = value] ELSE staged
    /\ UNCHANGED <<grill, local, view, sent, timer, forgot>>

\* A cook whose timer has run out is not re-sent, nor is one that has ended.
Changeable == Active /\ Base.remaining > 0

\* What is not sent is shown over Bluetooth as well.
Asks(setting, value, sends) ==
    asked' = IF sends \/ local THEN [asked EXCEPT ![setting] = @ \cup {value}] ELSE asked

SetTemp(t) ==
    /\ Stage("temp", t) /\ Asks("temp", t, Changeable)
    /\ IF Changeable THEN Reissue(FALSE, [Base EXCEPT !.temp = t], Base.remaining)
                     ELSE UNCHANGED <<command, acted>>

\* A target that the probe already has, as far as is known, is not sent.
SetTarget(g) ==
    LET sends == Changeable /\ g # Shown.target
    IN  /\ Stage("target", g) /\ Asks("target", g, sends)
        /\ IF sends THEN Reissue(FALSE, [Base EXCEPT !.target = g], Base.remaining)
                    ELSE UNCHANGED <<command, acted>>

\* A new duration, none below MIN_REMAINING being offered, counts from the begin of the
\* cook and must leave some of it; one that is refused has been staged.
SetTotal(n) ==
    /\ Stage("seconds", n)
    /\ IF Changeable /\ n >= Base.elapsed + MIN_REMAINING
       THEN /\ Reissue(TRUE, Base, n - Base.elapsed)
            /\ asked' = IF Lost THEN asked ELSE [asked EXCEPT !.total = @ \cup {n}]
       ELSE Expect(~local) /\ UNCHANGED <<command, acted>>

\* The grill takes the cook it is sent; without the skip it preheats (again).
Act ==
    /\ command # NoCook /\ ~acted /\ acted' = TRUE
    /\ grill' = [on |-> TRUE, temp |-> command.temp, target |-> command.target,
                 phase |-> IF ~command.skip THEN "preheat"
                           ELSE IF grill.phase = "preheat" THEN "cooking" ELSE grill.phase,
                 set |-> command.seconds, left |-> command.seconds]
    /\ UNCHANGED <<local, view, sent, estimate, command, history>>

\* `_remember_issue`; what was sent is staged, and the estimate counts it down.
Succeed ==
    /\ acted
    /\ pending' = [temp |-> command.temp, target |-> command.target,
                   remaining |-> command.seconds, total |-> command.total,
                   running |-> command.running]
    /\ issuedAge' = 0
    /\ override' = IF command.total # command.seconds
                   THEN <<command.seconds, command.total>> ELSE <<>>
    /\ staged' = IF local THEN [staged EXCEPT !.temp = command.temp, !.seconds = command.total]
                 ELSE staged
    /\ timer' = IF timer = Off THEN Off ELSE command.seconds
    /\ asked' = [temp |-> {command.temp},
                 total |-> IF Lost /\ ~command.duration THEN {} ELSE {command.total},
                 target |-> {command.target} \cup IF local THEN {staged.target} ELSE {}]
    /\ command' = NoCook /\ acted' = FALSE
    /\ forgot' = FALSE
    /\ UNCHANGED <<grill, local, view>>

\* The command fails, before or after the grill acted: the user may expect either, and
\* over Bluetooth a duration that failed stays staged.
Fail ==
    /\ command # NoCook
    /\ command' = NoCook /\ acted' = FALSE
    /\ Expect(~acted /\ ~(local /\ command.duration))
    /\ UNCHANGED <<grill, local, view, sent, estimate, forgot>>

Next ==
    \/ GrillMoves \/ Tick \/ Poll \/ PollFrameless \/ Beacon
    \/ (\E t \in Temps : SetTemp(t)) \/ (\E g \in Targets : SetTarget(g))
    \/ (\E n \in MIN_REMAINING..MaxTotal : SetTotal(n))
    \/ Act \/ Succeed \/ Fail

Spec == Init /\ [][Next]_vars
-----------------------------------------------------------------------------
TypeOK ==
    /\ grill \in Cooks /\ data \in Views /\ dataAge \in 0..LAG /\ local \in BOOLEAN
    /\ pending \in Issued \cup {NoCook} /\ issuedAge \in 0..(ISSUE_GRACE + 1)
    /\ override = <<>> \/ override \in (1..MaxTotal) \X (1..MaxTotal)
    /\ staged \in [temp : Temps, target : Targets, seconds : 1..MaxTotal]
    /\ timer \in Off..MaxTotal
    /\ command \in Sent \cup {NoCook}
    /\ acted \in BOOLEAN /\ forgot \in BOOLEAN
    /\ asked \in [temp : SUBSET Temps, target : SUBSET Targets, total : SUBSET (1..MaxTotal)]

\* Two settings changed in quick succession do not revert each other: whatever the view
\* shows while the backend lags, the grill cooks with the values asked for last
\* (coordinator.py:1312-1313).
NoRevert == grill.temp \in asked.temp /\ grill.target \in asked.target

\* Nor does the card fall back to an older value once a change has been sent.
NoFlicker == Active => Shown.temp \in asked.temp /\ Shown.target \in asked.target

\* A change of another setting keeps the duration of the cook: the elapsed time, which
\* the grill forgets with every command, survives any number of them, their grace, polls
\* that show only the rest as the whole and views that are estimated
\* (coordinator.py:1251-1252, 574-592, 464-472). Two things change it with the command: in
\* its last minute a cook is prolonged, to end a minute after the change, and a mode whose
\* longest duration is shorter than the rest cuts it (1340-1343).
\* The total is lost altogether, until a duration is set again, when the grill took a
\* command that failed; and over Bluetooth when a duration was staged and then refused or
\* failed (1256 before 1325-1328), which the next beacon shows as the whole (470); when a
\* frame shows the rest after a poll without one had dropped the elapsed time (575-580);
\* and when the estimate of one duration is taken over as another's (612).
TotalKept ==
    (command # NoCook /\ ~command.duration /\ ~Lost) =>
        \E n \in asked.total :
            \/ command.total = n
            \/ command.seconds = MIN_REMAINING /\ command.total - n \in 1..(MIN_REMAINING - 1)
            \/ command.cut /\ command.total < n
=============================================================================
