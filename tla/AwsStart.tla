------------------------------ MODULE AwsStart ------------------------------
(***************************************************************************)
(* A start over SharkNinja's AWS backend (_lib/api/aws.py). The command is *)
(* written to the device shadow's "desired" part; a grill that is offline  *)
(* takes it whenever it connects next, so the client waits for the grill   *)
(* to acknowledge it and otherwise writes a stop over it.                  *)
(*                                                                         *)
(* The caller holds the coordinator's command lock for the whole of        *)
(* `_start`; a Stop cancels it and then waits for the lock (CommandLock).  *)
(* Every request may fail before or after the server has carried it out.   *)
(***************************************************************************)
EXTENDS Naturals

CONSTANTS
    Cooks,          \* contents of a start command
    Probed,         \* the cooks that telemetry cannot show (`_verifiable`)
    Nothing,        \* no command in the shadow, no cook running
    MaxPolls,       \* _ACK_TIMEOUT_S // _ACK_POLL_S
    MaxStops        \* bound on Stop presses that are waiting at a time

ASSUME CooksAssumption == Probed \subseteq Cooks /\ Nothing \notin Cooks /\ "stop" \notin Cooks
ASSUME BoundAssumption == MaxPolls \in Nat \ {0} /\ MaxStops \in Nat

\* What the telemetry shows of a cook: mode, temperature and time, but no probe
\* target. Here the cooks differ in nothing else, so all of them look alike.
Phases == {"preheat", "cooking"}
Running == [cook : Cooks, phase : Phases]
Off == [cook |-> Nothing, phase |-> "cooking"]
Looks(r) == [active |-> r.cook # Nothing, phase |-> r.phase]

VARIABLES
    \* the cloud and the grill (external)
    desired,        \* shadow.desired.Cook_Command
    fresh,          \* whether the grill has yet to take `desired`
    reported,       \* shadow.reported.Cook_Command
    connected,      \* connectivityStatus.connected
    grill,          \* what the grill is cooking
    telemetry,      \* what it last reported about that
    \* the caller of start_cook
    pc,             \* the await it is suspended in
    reply,          \* its PATCH: "none", under way, or carried out by the server
    cmd,            \* the command it sends
    before,         \* telemetry baseline
    echoed,         \* `echoed_before`
    polls,          \* acknowledgement polls left
    withdrawal,     \* the shielded `_withdraw` task, the same way as `reply`
    outcome,        \* how the last start_cook ended
    \* Stop presses
    stops,          \* Stops waiting for the command lock
    stopReply,      \* the Stop inside the lock: its PATCH
    cancel,         \* a cancellation of the lock holder is pending
    \* history
    ours,           \* `desired` is what the last start_cook wrote
    took,           \* the grill took such a start during the call
    ran,            \* the grill ran a cook that looks like it since the baseline
    stopped         \* a Stop succeeded after the last start_cook

cloud == <<desired, fresh, reported, connected, grill, telemetry>>
caller == <<pc, reply, cmd, before, echoed, polls, withdrawal, outcome>>
stopping == <<stops, stopReply, cancel>>
history == <<ours, took, ran, stopped>>
vars == <<cloud, caller, stopping, history>>

Commands == Cooks \cup {"stop"}
Replies == {"none", "going", "applied"}
Awaits == {"idle", "find", "baseline", "patch", "ack", "undoError", "undoUnacked",
           "withdrawing", "clear"}
Outcomes == {"none", "ok", "refused", "withdrawn", "undoFailed", "failed", "cancelled"}

Init ==
    /\ desired = Nothing /\ fresh = FALSE
    /\ reported = "stop"
    /\ connected \in BOOLEAN
    /\ grill = Off /\ telemetry = Off
    /\ pc = "idle" /\ reply = "none" /\ withdrawal = "none"
    /\ cmd = Nothing /\ before = Off /\ echoed = FALSE /\ polls = 0
    /\ outcome = "none"
    /\ stops = 0 /\ stopReply = "none" /\ cancel = FALSE
    /\ ours = FALSE /\ took = FALSE /\ ran = FALSE /\ stopped = FALSE
-----------------------------------------------------------------------------
(* The server and the grill.                                               *)

Write(c, mine) ==
    /\ desired' = c /\ fresh' = (c # Nothing)
    /\ ours' = mine
    /\ UNCHANGED <<took, ran, stopped>>

\* A connected grill takes the desired command, and echoes it or does not.
GrillTakes ==
    /\ connected /\ fresh
    /\ fresh' = FALSE
    /\ grill' = IF desired = "stop" THEN Off ELSE [cook |-> desired, phase |-> "preheat"]
    /\ reported' \in {reported, desired}
    /\ took' = (took \/ desired = cmd)
    /\ ran' = (ran \/ (pc # "idle" /\ desired # "stop"))
    /\ UNCHANGED <<desired, connected, telemetry, caller, stopping, ours, stopped>>

GrillReports ==
    /\ connected /\ telemetry # grill
    /\ telemetry' = grill
    /\ UNCHANGED <<desired, fresh, reported, connected, grill, caller, stopping, history>>

\* Preheat ends, or somebody starts or stops a cook at the grill or in the app.
GrillMoves ==
    /\ \/ grill.phase = "preheat" /\ grill' = [grill EXCEPT !.phase = "cooking"]
       \/ grill' \in {Off} \cup [cook : Cooks, phase : {"preheat"}]
    /\ ran' = (ran \/ (pc # "idle" /\ grill'.cook # Nothing))
    /\ UNCHANGED <<desired, fresh, reported, connected, telemetry, caller, stopping,
                   ours, took, stopped>>

Connectivity ==
    /\ connected' = ~connected
    /\ UNCHANGED <<desired, fresh, reported, grill, telemetry, caller, stopping, history>>
-----------------------------------------------------------------------------
(* start_cook.                                                             *)

\* The command lock is free and nobody waits for it.
StartCook(c) ==
    /\ pc = "idle" /\ stops = 0 /\ stopReply = "none"
    /\ pc' = "find" /\ cmd' = c /\ outcome' = "none"
    /\ ours' = FALSE /\ took' = FALSE /\ stopped' = FALSE
    /\ ran' = (grill.cook # Nothing)
    /\ UNCHANGED <<cloud, reply, before, echoed, polls, withdrawal, stopping>>

\* start_cook ends, one way or another; its locals are gone with it.
Ends(o) ==
    /\ pc' = "idle" /\ reply' = "none"
    /\ outcome' = o
    /\ cmd' = Nothing /\ before' = Off /\ echoed' = FALSE /\ polls' = 0
    /\ took' = FALSE /\ ran' = FALSE
    /\ UNCHANGED <<ours, stopped>>

\* find_device: the grill must be connected, and its telemetry is the baseline.
FindDevice ==
    /\ pc = "find" /\ ~cancel /\ connected
    /\ before' = telemetry
    /\ pc' = "baseline"
    /\ UNCHANGED <<cloud, reply, cmd, echoed, polls, withdrawal, outcome, stopping, history>>

\* The shadow is read before anything is written to it.
ReadShadow ==
    /\ pc = "baseline" /\ ~cancel
    /\ echoed' = (reported = cmd)
    /\ pc' = "patch" /\ reply' = "going"
    /\ UNCHANGED <<cloud, cmd, before, polls, withdrawal, outcome, stopping, history>>

\* Mutant: a refused write counts as nothing sent.
RefuseWritten ==
    /\ pc \in {"find", "baseline", "patch"} /\ ~cancel
    /\ Ends("refused")
    /\ UNCHANGED <<cloud, withdrawal, stopping>>

\* Not found, not connected, or not readable: refused before anything is sent.
Refuse ==
    /\ pc \in {"find", "baseline"} /\ ~cancel
    /\ Ends("refused")
    /\ UNCHANGED <<cloud, withdrawal, stopping>>

\* The server carries out the caller's PATCH: the start, a stop over it, or null.
ServerApplies ==
    /\ reply = "going"
    /\ reply' = "applied"
    /\ Write(CASE pc = "patch" -> cmd [] pc = "clear" -> Nothing [] OTHER -> "stop",
             pc = "patch")
    /\ UNCHANGED <<reported, connected, grill, telemetry, pc, cmd, before, echoed, polls,
                   withdrawal, outcome, stopping>>

Patched ==
    /\ pc = "patch" /\ reply = "applied" /\ ~cancel
    /\ pc' = "ack" /\ reply' = "none" /\ polls' = MaxPolls
    /\ UNCHANGED <<cloud, cmd, before, echoed, withdrawal, outcome, stopping, history>>

\* Any NinjaCloudError between the write and the acknowledgement: a refused or
\* lost PATCH, or an AuthError out of a poll (a TransportError there only costs
\* the poll).
StartErrs ==
    /\ \/ pc = "patch" /\ reply \in {"going", "applied"}
       \/ pc = "ack" /\ polls > 0
    /\ ~cancel
    /\ pc' = "undoError" /\ reply' = "going"
    /\ UNCHANGED <<cloud, cmd, before, echoed, polls, withdrawal, outcome, stopping, history>>

\* Mutant: an echo that was there before the start counts.
EchoAlone == reported = cmd

EchoConfirms == ~echoed /\ reported = cmd

\* `_telemetry_confirms`: something but the countdown has changed since the
\* baseline, and what shows is the cook that was sent.
TelemetryConfirms ==
    /\ telemetry.cook # Nothing
    /\ cmd \notin Probed
    /\ Looks(telemetry) # Looks(before)

Acknowledged ==
    /\ pc = "ack" /\ polls > 0 /\ ~cancel
    /\ EchoConfirms \/ TelemetryConfirms
    /\ pc' = "clear" /\ reply' = "going"
    /\ UNCHANGED <<cloud, cmd, before, echoed, polls, withdrawal, outcome, stopping, history>>

\* Mutant: one poll too many.
PollMissesLate ==
    /\ pc = "ack" /\ ~cancel
    /\ polls' = polls - 1
    /\ IF polls = 0 THEN pc' = "undoUnacked" /\ reply' = "going"
                    ELSE UNCHANGED <<pc, reply>>
    /\ UNCHANGED <<cloud, cmd, before, echoed, withdrawal, outcome, stopping, history>>

\* A poll that shows nothing, or could not be read at all.
PollMisses ==
    /\ pc = "ack" /\ polls > 0 /\ ~cancel
    /\ polls' = polls - 1
    /\ IF polls = 1 THEN pc' = "undoUnacked" /\ reply' = "going"
                    ELSE UNCHANGED <<pc, reply>>
    /\ UNCHANGED <<cloud, cmd, before, echoed, withdrawal, outcome, stopping, history>>

\* The withdrawal outside a cancellation goes through ...
Withdrawn ==
    /\ pc \in {"undoError", "undoUnacked"} /\ reply = "applied" /\ ~cancel
    /\ Ends("withdrawn")
    /\ UNCHANGED <<cloud, withdrawal, stopping>>

\* ... or fails: after an error whatever the reason is reported, after a missing
\* acknowledgement only a TransportError is; an AuthError is raised as it is.
WithdrawFails(err) ==
    /\ pc \in {"undoError", "undoUnacked"} /\ ~cancel
    /\ Ends(IF pc = "undoUnacked" /\ err = "auth" THEN "failed" ELSE "undoFailed")
    /\ UNCHANGED <<cloud, withdrawal, stopping>>

\* The delivered command is taken out of the shadow; a TransportError there is
\* ignored, an AuthError is raised to the caller.
Cleared ==
    /\ pc = "clear" /\ reply = "applied" /\ ~cancel
    /\ Ends("ok")
    /\ UNCHANGED <<cloud, withdrawal, stopping>>

ClearFails(err) ==
    /\ pc = "clear" /\ ~cancel
    /\ Ends(IF err = "auth" THEN "failed" ELSE "ok")
    /\ UNCHANGED <<cloud, withdrawal, stopping>>
-----------------------------------------------------------------------------
(* Cancellation.                                                           *)

\* Before anything was written, and after it was settled, the call just ends.
CancelPlain ==
    /\ cancel /\ cancel' = FALSE
    /\ pc \in {"find", "baseline", "undoError", "undoUnacked", "clear"}
    /\ Ends("cancelled")
    /\ UNCHANGED <<cloud, withdrawal, stops, stopReply>>

\* Mutant: waits for a withdrawal that it never started.
CancelUnwithdrawn ==
    /\ cancel /\ cancel' = FALSE
    /\ pc \in {"patch", "ack"}
    /\ pc' = "withdrawing" /\ reply' = "none"
    /\ UNCHANGED <<cloud, cmd, before, echoed, polls, withdrawal, outcome, stops, stopReply,
                   history>>

\* In between, the withdrawal runs as a task of its own and is waited for.
CancelStart ==
    /\ cancel /\ cancel' = FALSE
    /\ pc \in {"patch", "ack"}
    /\ pc' = "withdrawing" /\ reply' = "none" /\ withdrawal' = "going"
    /\ UNCHANGED <<cloud, cmd, before, echoed, polls, outcome, stops, stopReply, history>>

\* Mutant: a second cancellation ends the wait, and the withdrawal outlives the call.
CancelUnshielded ==
    /\ cancel /\ cancel' = FALSE
    /\ pc = "withdrawing"
    /\ Ends("cancelled")
    /\ UNCHANGED <<cloud, withdrawal, stops, stopReply>>

\* A further cancellation does not end the wait.
CancelShielded ==
    /\ cancel /\ cancel' = FALSE
    /\ pc = "withdrawing"
    /\ UNCHANGED <<cloud, caller, stops, stopReply, history>>

WithdrawalApplies ==
    /\ withdrawal = "going"
    /\ withdrawal' = "applied"
    /\ Write("stop", FALSE)
    /\ UNCHANGED <<reported, connected, grill, telemetry, pc, reply, cmd, before, echoed,
                   polls, outcome, stopping>>

\* The withdrawal has ended, well or not (a failure is only logged).
WithdrawalEnds ==
    /\ withdrawal \in {"going", "applied"}
    /\ withdrawal' = "none"
    /\ IF pc = "withdrawing"
       THEN Ends("cancelled") /\ cancel' = FALSE
       ELSE UNCHANGED <<pc, reply, outcome, cmd, before, echoed, polls, history, cancel>>
    /\ UNCHANGED <<cloud, stops, stopReply>>
-----------------------------------------------------------------------------
(* stop_cook: one PATCH, inside the command lock.                          *)

PressStop ==
    /\ stops < MaxStops
    /\ stops' = stops + 1
    /\ cancel' = (cancel \/ pc # "idle" \/ stopReply # "none")
    /\ UNCHANGED <<cloud, caller, stopReply, history>>

\* Mutant: a Stop does not wait for the command lock.
StopBarges ==
    /\ stopReply = "none" /\ stops > 0
    /\ stops' = stops - 1
    /\ stopReply' = "going"
    /\ UNCHANGED <<cloud, caller, cancel, history>>

StopBegins ==
    /\ pc = "idle" /\ stopReply = "none" /\ stops > 0
    /\ stops' = stops - 1
    /\ stopReply' = "going"
    /\ UNCHANGED <<cloud, caller, cancel, history>>

StopApplies ==
    /\ stopReply = "going"
    /\ stopReply' = "applied"
    /\ Write("stop", FALSE)
    /\ UNCHANGED <<reported, connected, grill, telemetry, caller, stops, cancel>>

StopReturns ==
    /\ stopReply = "applied" /\ ~cancel
    /\ stopReply' = "none"
    /\ stopped' = TRUE
    /\ UNCHANGED <<cloud, caller, stops, cancel, ours, took, ran>>

StopFails ==
    /\ stopReply \in {"going", "applied"}
    /\ stopReply' = "none"
    /\ cancel' = FALSE
    /\ UNCHANGED <<cloud, caller, stops, history>>

GrillStep == GrillTakes \/ GrillReports \/ GrillMoves \/ Connectivity

CallerStep ==
    \/ FindDevice \/ ReadShadow \/ Refuse \/ ServerApplies \/ Patched \/ StartErrs
    \/ Acknowledged \/ PollMisses \/ Withdrawn \/ Cleared
    \/ \E err \in {"transport", "auth"} : WithdrawFails(err) \/ ClearFails(err)
    \/ CancelPlain \/ CancelStart \/ CancelShielded
    \/ WithdrawalApplies \/ WithdrawalEnds

StopStep == StopBegins \/ StopApplies \/ StopReturns \/ StopFails

Next ==
    \/ GrillStep \/ CallerStep \/ StopStep \/ PressStop
    \/ \E c \in Cooks : StartCook(c)

Spec == Init /\ [][Next]_vars

\* Every request is answered or times out after 20 s (http.py), and the event
\* loop resumes whoever waited for it.
FairSpec == Spec /\ WF_vars(CallerStep) /\ WF_vars(StopStep)
-----------------------------------------------------------------------------
TypeOK ==
    /\ desired \in {Nothing} \cup Commands /\ fresh \in BOOLEAN
    /\ reported \in {Nothing} \cup Commands
    /\ connected \in BOOLEAN
    /\ grill \in Running \cup {Off} /\ telemetry \in Running \cup {Off}
    /\ pc \in Awaits /\ reply \in Replies /\ withdrawal \in Replies
    /\ cmd \in Cooks \cup {Nothing} /\ before \in Running \cup {Off} /\ echoed \in BOOLEAN
    /\ polls \in 0..MaxPolls /\ outcome \in Outcomes
    /\ stops \in 0..MaxStops /\ stopReply \in Replies /\ cancel \in BOOLEAN
    /\ ours \in BOOLEAN /\ took \in BOOLEAN /\ ran \in BOOLEAN /\ stopped \in BOOLEAN

\* A start that the grill has yet to take, and may take whenever it connects.
Queued == desired \in Cooks /\ fresh

\* "An un-withdrawn start fires whenever the grill next connects" (aws.py:386):
\* a start_cook that ends as refused or withdrawn leaves none of its own behind,
\* whichever request failed and whether or not the server had carried it out.
\* (The outcomes that report a failed withdrawal are excepted.)
NoneLeftBehind == (pc = "idle" /\ outcome \in {"refused", "withdrawn"}) => ~(ours /\ fresh)

\* After a Stop has succeeded no queued start is left to fire, whatever was
\* cancelled on the way (a withdrawal that outlives its call, a second Stop).
StopIsFinal == stopped => ~Queued

\* An acknowledgement is worth something: either the grill took this very
\* command, or it ran a cook that telemetry cannot tell from it. An echo from
\* an earlier order, or a telemetry that merely stands still, proves nothing.
AcknowledgedRan ==
    pc = "clear" => (took \/ (ran /\ cmd \notin Probed))

\* A withdrawal takes back its own start and no later one: it is over before
\* the command lock is free for the next command (aws.py:353-361).
WithdrawalKeepsLock == withdrawal # "none" => pc = "withdrawing"

\* The steps that start_cook still has before it: its requests one after the other, the
\* polls that are left, one withdrawal, and a cancellation that has yet to reach it.
ToCome ==
    LET going == IF "going" \in {reply, withdrawal} THEN 1 ELSE 0
        cancelling == IF cancel THEN 1 ELSE 0
    IN  CASE pc = "idle" -> 0
          [] pc = "find" -> MaxPolls + 6 + cancelling
          [] pc = "baseline" -> MaxPolls + 5 + cancelling
          [] pc = "patch" -> MaxPolls + 3 + going + cancelling
          [] pc = "ack" -> polls + 2 + cancelling
          [] OTHER -> 1 + going + cancelling

\* Nothing is started over: whatever the grill and the server do, start_cook has fewer steps
\* before it with each one it takes, also where it withdraws what it sent and shields that
\* from further cancellations (aws.py:327-373).
NothingRepeated == [][CallerStep => ToCome' \in 0..(ToCome - 1)]_vars

\* start_cook always ends, whatever the grill does and however often it is cancelled;
\* and while Stops wait, one of them gets the lock, also from a start that waits for its
\* withdrawal, and ends (aws.py:353-373).
EverythingEnds ==
    /\ (pc # "idle") ~> (pc = "idle")
    /\ (stops > 0) ~> (stopReply # "none")
    /\ (stopReply # "none") ~> (stopReply = "none")
=============================================================================
