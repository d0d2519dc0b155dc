---------------------------- MODULE CommandLock -----------------------------
(***************************************************************************)
(* How the coordinator serialises grill commands: every command takes the  *)
(* lock of ExclusiveLock, and a Stop cancels the command inside it before  *)
(* it queues for the lock itself.                                          *)
(*                                                                         *)
(* A call is one service call. Commands that re-send a cook (Start,        *)
(* Configure, Modify, Set probe, Skip preheat) are the kind "start"; Wake  *)
(* sends a stop command without pre-empting anybody. What happens after    *)
(* the lock is left (the burst refresh) is not part of a call here.        *)
(*                                                                         *)
(* Assumed of the transport: once a caller has been cancelled its request  *)
(* is no longer acted upon (BLE: `_send_command` drops the link on the way *)
(* out). AwsStart models the transport for which this needs a withdrawal.  *)
(***************************************************************************)
EXTENDS ExclusiveLock

VARIABLES
    kind,       \* what each call does
    pc,         \* where each call is
    cook,       \* the grill: the call it cooks for
    older,      \* history: calls open or cooking when a call was made
    revoked     \* history: calls some returned Stop was made after

vars == <<lock, kind, pc, cook, older, revoked>>

Kinds == {"start", "stop", "wake"}

\* "sent": inside the lock, the command is with the transport (there is no await
\* between the two) and the grill has not acted on it; "acted": it has, but the
\* caller has not been resumed with the answer.
Points == {"returned", "queued", "sent", "acted"}

Open == {c \in Calls : pc[c] # "returned"}
Inside == {"sent", "acted"}

Init ==
    /\ LockInit
    /\ kind = [c \in Calls |-> "start"]
    /\ pc = [c \in Calls |-> "returned"]
    /\ cook = NoCall
    /\ older = [c \in Calls |-> {}]
    /\ revoked = {}
-----------------------------------------------------------------------------
\* Mutant: a command that is sent without waiting for the one in the lock.
EnterNowUnlocked(c) ==
    /\ Take(c)
    /\ pc' = [pc EXCEPT ![c] = "sent"]
    /\ UNCHANGED waiters

\* `async with self._cmd_lock` without waiting: the body runs on to its send.
EnterNow(c) ==
    /\ Free /\ Take(c)
    /\ pc' = [pc EXCEPT ![c] = "sent"]
    /\ UNCHANGED waiters

Queue(c) ==
    /\ Enqueue(c)
    /\ pc' = [pc EXCEPT ![c] = "queued"]

\* A command is called: a Stop cancels the command in flight, then all queue.
Call(c, k) ==
    /\ pc[c] = "returned"
    /\ c # cook
    /\ kind' = [kind EXCEPT ![c] = k]
    /\ Preempt(k = "stop")
    /\ EnterNow(c) \/ Queue(c)
    /\ older' = [d \in Calls |-> IF d = c THEN (Open \cup {cook}) \ {NoCall}
                                          ELSE older[d] \ {c}]
    /\ revoked' = revoked \ {c}
    /\ UNCHANGED cook

\* The lock was released and the first waiter is resumed inside it.
Resume(c) ==
    /\ First(c) /\ Take(c)
    /\ pc' = [pc EXCEPT ![c] = "sent"]
    /\ UNCHANGED <<doomed, kind, cook, older, revoked>>

\* The grill acts on the command it was sent.
Act(c) ==
    /\ pc[c] = "sent"
    /\ pc' = [pc EXCEPT ![c] = "acted"]
    /\ cook' = IF kind[c] = "start" THEN c ELSE NoCall
    /\ UNCHANGED <<lock, kind, older, revoked>>

Leave(c) ==
    /\ Release(c)
    /\ pc' = [pc EXCEPT ![c] = "returned"]
    /\ UNCHANGED <<kind, cook, older>>

\* The command went through and the call returns.
Succeed(c) ==
    /\ pc[c] = "acted" /\ c \notin doomed
    /\ Leave(c)
    /\ revoked' = IF kind[c] = "stop" THEN revoked \cup older[c] ELSE revoked

\* The body raises: one of its guards declines to send, or the transport fails,
\* perhaps after the grill has acted (the answer is lost).
Fail(c) ==
    /\ pc[c] \in {"sent", "acted"} /\ c \notin doomed
    /\ Leave(c)
    /\ UNCHANGED revoked

\* The cancellation reaches the call at its await, answered or not.
Cancelled(c) ==
    /\ c \in doomed
    /\ pc[c] \in {"sent", "acted"}
    /\ Leave(c)
    /\ UNCHANGED revoked

\* The cook ends at the grill: its timer runs out, or it is stopped there.
GrillEnds ==
    /\ cook # NoCall
    /\ cook' = NoCall
    /\ UNCHANGED <<lock, kind, pc, older, revoked>>

Finish(c) == Succeed(c) \/ Fail(c) \/ Cancelled(c)

Next ==
    \/ GrillEnds
    \/ \E c \in Calls :
          \/ \E k \in Kinds : Call(c, k)
          \/ Resume(c) \/ Act(c)
          \/ Succeed(c) \/ Fail(c) \/ Cancelled(c)

Spec == Init /\ [][Next]_vars

\* The event loop resumes what is ready, and every transport call ends: the
\* BLE handshake and the cloud's acknowledgement are bounded, HTTP times out.
Fairness == \A c \in Calls : WF_vars(Resume(c)) /\ WF_vars(Finish(c))

FairSpec == Spec /\ Fairness
-----------------------------------------------------------------------------
TypeOK ==
    /\ owner \in Calls \cup {NoCall}
    /\ waiters \in Seq(Calls)
    /\ cmdTask \in Calls \cup {NoCall}
    /\ doomed \subseteq Calls
    /\ kind \in [Calls -> Kinds]
    /\ pc \in [Calls -> Points]
    /\ cook \in Calls \cup {NoCall}
    /\ older \in [Calls -> SUBSET Calls]
    /\ revoked \subseteq Calls

\* Once a Stop has returned to its caller, the grill never cooks for a call
\* that was under way, or was already being cooked, when that Stop was made
\* (coordinator.py:897-901 and 1169-1170), however calls queue and overlap.
StopWins == cook \notin revoked

\* The last wish counts: the grill acts on no command, be it a Start, a Stop or a Wake,
\* that was made before the cook which it would replace or end, whatever was cancelled,
\* declined or lost in between (coordinator.py:896-910).
LastWishCounts == [][\A c \in Calls : Act(c) /\ cook # NoCall => c \notin older[cook]]_vars

\* The implementation of the promise: every behaviour of the lock is one of
\* GrillControl (the refinement maps a call to open until it returns).
Control == INSTANCE GrillControl WITH open <- Open
ImplementsControl == Control!Spec

\* A Stop is never starved: it leaves the queue and returns, whoever queued
\* before it and however many of them hang until their transport gives up.
StopReturns ==
    \A c \in Calls : (pc[c] # "returned" /\ kind[c] = "stop") ~> pc[c] = "returned"
-----------------------------------------------------------------------------
\* What makes StopWins inductive. The lock lets one call in at a time ...
LockInv ==
    /\ cmdTask = owner
    /\ doomed \subseteq {owner}
    /\ \A c \in Calls : pc[c] \in Inside <=> c = owner
    /\ \A c \in Calls : pc[c] = "queued" <=> \E i \in 1..Len(waiters) : waiters[i] = c
    /\ \A i, j \in 1..Len(waiters) : waiters[i] = waiters[j] => i = j

\* ... in the order they were made: whatever is still open and older than an
\* open call is ahead of it ...
FifoInv ==
    /\ \A c \in Calls : c \notin older[c]
    /\ \A i \in 1..Len(waiters) : \A c \in older[waiters[i]] :
          \/ pc[c] = "returned"
          \/ c = owner
          \/ \E j \in 1..(i - 1) : waiters[j] = c
    /\ owner # NoCall => \A c \in older[owner] : pc[c] = "returned"

\* ... and a Stop that the grill has acted on left nothing of what it revokes.
StopInv ==
    /\ \A c \in Calls : (pc[c] = "acted" /\ kind[c] # "start") => cook = NoCall
    /\ \A c \in revoked : pc[c] = "returned"
    /\ StopWins

IInv == TypeOK /\ LockInv /\ FifoInv /\ StopInv
=============================================================================
