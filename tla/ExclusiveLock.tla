--------------------------- MODULE ExclusiveLock ----------------------------
(***************************************************************************)
(* The coordinator's command lock (coordinator.py:896-910, `_exclusive`):  *)
(* an asyncio.Lock, the task inside it remembered in `_cmd_task`, and the  *)
(* cancellation of that task by a caller that pre-empts it.  The actions   *)
(* below are the lock's part of an action; the modules that extend this    *)
(* one say what a call does before, inside and after the lock.             *)
(***************************************************************************)
EXTENDS Integers, Sequences

CONSTANTS
    Calls,      \* service calls: entity writes, buttons, service actions
    NoCall      \* nobody

ASSUME NoCallAssumption == NoCall \notin Calls

VARIABLES
    owner,      \* the call inside `_cmd_lock`
    waiters,    \* asyncio.Lock._waiters, first in first out
    cmdTask,    \* self._cmd_task
    doomed      \* calls with a cancellation that has not been delivered yet

lock == <<owner, waiters, cmdTask, doomed>>

LockInit ==
    /\ owner = NoCall
    /\ waiters = <<>>
    /\ cmdTask = NoCall
    /\ doomed = {}

\* asyncio.Lock.acquire does not wait: not taken, and nobody is waiting for it.
Free == owner = NoCall /\ waiters = <<>>

\* `if preempt and self._cmd_task is not None and not done: cancel()`.
Preempt(preempt) ==
    doomed' = IF preempt /\ cmdTask # NoCall THEN doomed \cup {cmdTask} ELSE doomed

\* The lock is taken and `_cmd_task` is set, with no await in between.
Take(c) ==
    /\ owner' = c
    /\ cmdTask' = c

\* Mutant: the last to come is the first to be served.
EnqueueFirst(c) == ~Free /\ waiters' = <<c>> \o waiters /\ UNCHANGED <<owner, cmdTask>>

Enqueue(c) ==
    /\ ~Free
    /\ waiters' = Append(waiters, c)
    /\ UNCHANGED <<owner, cmdTask>>

\* The lock was released and its first waiter is the next to run.
First(c) ==
    /\ owner = NoCall
    /\ waiters # <<>> /\ c = Head(waiters)
    /\ waiters' = Tail(waiters)

\* `finally: self._cmd_task = None`, then the lock is released.
Release(c) ==
    /\ owner' = NoCall
    /\ cmdTask' = NoCall
    /\ doomed' = doomed \ {c}
    /\ UNCHANGED waiters
=============================================================================
