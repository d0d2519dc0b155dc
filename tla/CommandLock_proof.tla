------------------------- MODULE CommandLock_proof --------------------------
(***************************************************************************)
(* TLAPS proofs about CommandLock, for any set of calls: its type          *)
(* correctness, that a Stop wins over every command made before it, that   *)
(* no command undoes the cook of a later one, and that the lock implements *)
(* GrillControl.                                                           *)
(***************************************************************************)
EXTENDS CommandLock, TLAPS

\* Lemma: the lock starts free, nothing queued and nothing revoked.
LEMMA InitInv == Init => IInv
  BY NoCallAssumption
  DEF Init, LockInit, IInv, TypeOK, LockInv, FifoInv, StopInv, StopWins, Kinds, Points, Inside

\* Lemma: leaving the lock, whatever the reason, keeps the types and the lock
\* invariants; nothing is inside afterwards and the queue is as it was.
LEMMA LeaveInv ==
  ASSUME IInv, NEW c \in Calls, pc[c] \in Inside, Leave(c),
         revoked' \subseteq Calls
  PROVE  TypeOK' /\ LockInv' /\ FifoInv'
  <1>1. TypeOK'
    BY DEF IInv, TypeOK, Leave, Release, Points
  <1>2. c = owner /\ pc[c] # "queued"
    BY DEF IInv, LockInv, Inside
  <1>3. LockInv'
    BY <1>2, NoCallAssumption DEF IInv, TypeOK, LockInv, Leave, Release, Points, Inside
  <1>4. FifoInv'
    BY <1>2 DEF IInv, TypeOK, LockInv, FifoInv, Leave, Release, Points
  <1> QED BY <1>1, <1>3, <1>4

\* Lemma: after a call has left, an acted call would have been the owner.
LEMMA LeaveEmpty ==
  ASSUME IInv, NEW c \in Calls, pc[c] \in Inside, Leave(c)
  PROVE  \A d \in Calls : pc'[d] # "acted"
  BY DEF IInv, TypeOK, LockInv, Leave, Release, Inside, Points

\* Theorem: types and the strengthened invariant hold throughout; the step
\* cases are the lock operations of coordinator.py:897-910 and the command
\* bodies they wrap.
THEOREM InvStep == IInv /\ [Next]_vars => IInv'
  <1> SUFFICES ASSUME IInv, [Next]_vars PROVE IInv'
    OBVIOUS
  <1> USE DEF IInv
  <1>1. CASE GrillEnds
    BY <1>1, NoCallAssumption DEF GrillEnds, lock, TypeOK, LockInv, FifoInv, StopInv, StopWins
  <1>2. ASSUME NEW c \in Calls, NEW k \in Kinds, Call(c, k) PROVE IInv'
    <2> USE <1>2 DEF Call, Preempt
    <2>1. c # owner /\ c \notin doomed
      BY DEF LockInv, Inside
    <2>2. \A i \in 1..Len(waiters) : waiters[i] # c
      BY DEF LockInv
    <2>3. CASE EnterNow(c)
      <3>1. TypeOK'
        BY <2>3 DEF EnterNow, Free, Take, TypeOK, Open, Points
      <3>2. LockInv'
        BY <2>3, <2>1, NoCallAssumption DEF EnterNow, Free, Take, TypeOK, LockInv, Inside, Points
      <3>3. \A d \in Calls : pc[d] = "returned"
        BY <2>3, NoCallAssumption DEF EnterNow, Free, Take, TypeOK, LockInv, Inside, Points
      <3>4. FifoInv'
        BY <2>3, <3>3 DEF EnterNow, Free, Take, TypeOK, FifoInv, Open
      <3>5. StopInv'
        BY <2>3, <3>3 DEF EnterNow, Free, Take, TypeOK, StopInv, StopWins, Points
      <3> QED BY <3>1, <3>2, <3>4, <3>5
    <2>4. CASE Queue(c)
      <3>1. TypeOK'
        BY <2>4 DEF Queue, Enqueue, Free, TypeOK, LockInv, Open, Points
      <3>2. /\ Len(waiters') = Len(waiters) + 1
            /\ \A i \in 1..Len(waiters) : waiters'[i] = waiters[i]
            /\ waiters'[Len(waiters) + 1] = c
            /\ Len(waiters) \in Nat
        BY <2>4 DEF Queue, Enqueue, Free, TypeOK
      <3>3. LockInv'
        <4>1. cmdTask' = owner' /\ doomed' \subseteq {owner'}
          BY <2>4 DEF Queue, Enqueue, Free, LockInv
        <4>2. \A d \in Calls : pc'[d] \in Inside <=> d = owner'
          BY <2>4, <2>1 DEF Queue, Enqueue, Free, LockInv, TypeOK, Inside
        <4>3. \A d \in Calls : pc'[d] = "queued" <=> \E i \in 1..Len(waiters') : waiters'[i] = d
          BY <2>4, <3>2 DEF Queue, Enqueue, Free, LockInv, TypeOK
        <4>4. \A i, j \in 1..Len(waiters') : waiters'[i] = waiters'[j] => i = j
          BY <3>2, <2>2 DEF LockInv
        <4> QED BY <4>1, <4>2, <4>3, <4>4 DEF LockInv
      <3>4. FifoInv'
        <4>1. \A d \in Calls : d \notin older'[d]
          BY DEF TypeOK, FifoInv, Open
        <4>2. ASSUME NEW i \in 1..Len(waiters'), NEW d \in older'[waiters'[i]]
              PROVE  pc'[d] = "returned" \/ d = owner' \/ \E j \in 1..(i - 1) : waiters'[j] = d
          <5>1. CASE i = Len(waiters) + 1
            <6>1. d \in Open \cup {cook} /\ d # NoCall /\ d # c /\ d \in Calls
              BY <5>1, <3>2, <4>2 DEF TypeOK, Open
            <6>2. CASE pc[d] = "returned"
              BY <6>1, <6>2, <2>4 DEF Queue, Enqueue, Free, TypeOK
            <6>3. CASE pc[d] \in Inside
              BY <6>1, <6>3, <2>4 DEF Queue, Enqueue, Free, LockInv
            <6>4. CASE pc[d] = "queued"
              BY <6>1, <6>4, <5>1, <3>2 DEF LockInv
            <6> QED BY <6>1, <6>2, <6>3, <6>4 DEF TypeOK, Points, Inside
          <5>2. CASE i \in 1..Len(waiters)
            <6>1. waiters'[i] # c /\ waiters'[i] = waiters[i] /\ waiters[i] \in Calls
              BY <5>2, <3>2, <2>2 DEF TypeOK
            <6>2. d \in older[waiters[i]] /\ d # c /\ d \in Calls
              BY <6>1, <4>2 DEF TypeOK
            <6>3. pc'[d] = pc[d] /\ owner' = owner
              BY <2>4, <6>2 DEF Queue, Enqueue, Free, TypeOK
            <6> QED BY <6>2, <6>3, <5>2, <3>2 DEF FifoInv
          <5> QED BY <5>1, <5>2, <3>2
        <4>3. owner' # NoCall => \A d \in older'[owner'] : pc'[d] = "returned"
          BY <2>4, <2>1 DEF Queue, Enqueue, Free, TypeOK, FifoInv
        <4> QED BY <4>1, <4>2, <4>3 DEF FifoInv
      <3>5. StopInv'
        BY <2>4 DEF Queue, Enqueue, Free, TypeOK, StopInv, StopWins
      <3> QED BY <3>1, <3>3, <3>4, <3>5
    <2> QED BY <2>3, <2>4
  <1>3. ASSUME NEW c \in Calls, Resume(c) PROVE IInv'
    <2> USE <1>3 DEF Resume, First, Take
    <2>1. /\ Len(waiters) \in Nat \ {0}
          /\ waiters[1] = c
          /\ Len(waiters') = Len(waiters) - 1
          /\ \A i \in 1..Len(waiters') : waiters'[i] = waiters[i + 1]
      BY DEF TypeOK
    <2>2. pc[c] = "queued"
      BY <2>1 DEF LockInv
    <2>3. TypeOK'
      BY DEF TypeOK, Points
    <2>4. \A i \in 1..Len(waiters') : waiters'[i] # c
      BY <2>1 DEF LockInv
    <2>5. LockInv'
      <3>1. cmdTask' = owner' /\ doomed' \subseteq {owner'}
        BY NoCallAssumption DEF LockInv, TypeOK
      <3>2. \A d \in Calls : pc'[d] \in Inside <=> d = owner'
        BY NoCallAssumption DEF LockInv, TypeOK, Inside
      <3>3. ASSUME NEW d \in Calls
            PROVE  pc'[d] = "queued" <=> \E i \in 1..Len(waiters') : waiters'[i] = d
        <4>1. CASE d = c
          BY <4>1, <2>4 DEF TypeOK
        <4>2. CASE d # c
          <5>1. pc'[d] = pc[d]
            BY <4>2 DEF TypeOK
          <5>2. ASSUME NEW i \in 1..Len(waiters), waiters[i] = d
                PROVE  i - 1 \in 1..Len(waiters') /\ waiters'[i - 1] = d
            BY <5>2, <4>2, <2>1
          <5>3. ASSUME NEW i \in 1..Len(waiters'), waiters'[i] = d
                PROVE  i + 1 \in 1..Len(waiters) /\ waiters[i + 1] = d
            BY <5>3, <2>1
          <5> QED BY <5>1, <5>2, <5>3 DEF LockInv
        <4> QED BY <4>1, <4>2
      <3>4. \A i, j \in 1..Len(waiters') : waiters'[i] = waiters'[j] => i = j
        BY <2>1 DEF LockInv
      <3> QED BY <3>1, <3>2, <3>3, <3>4 DEF LockInv
    <2>6. FifoInv'
      <3>1. ASSUME NEW i \in 1..Len(waiters'), NEW d \in older'[waiters'[i]]
            PROVE  pc'[d] = "returned" \/ d = owner' \/ \E j \in 1..(i - 1) : waiters'[j] = d
        <4>1. /\ i + 1 \in 1..Len(waiters) /\ waiters'[i] = waiters[i + 1]
              /\ waiters[i + 1] \in Calls
          BY <2>1 DEF TypeOK
        <4>2. d \in older[waiters[i + 1]] /\ d \in Calls
          BY <4>1, <3>1 DEF TypeOK
        <4>3. CASE d = c
          BY <4>3
        <4>4. CASE d # c
          <5>1. pc'[d] = pc[d] /\ d # owner
            BY <4>2, <4>4, NoCallAssumption DEF TypeOK
          <5>2. CASE pc[d] = "returned"
            BY <5>1, <5>2
          <5>3. ASSUME NEW j \in 1..((i + 1) - 1), waiters[j] = d
                PROVE  j - 1 \in 1..(i - 1) /\ waiters'[j - 1] = d
            BY <5>3, <4>4, <2>1
          <5>4. pc[d] = "returned" \/ \E j \in 1..((i + 1) - 1) : waiters[j] = d
            BY <5>1, <4>1, <4>2 DEF FifoInv
          <5> QED BY <5>2, <5>3, <5>4
        <4> QED BY <4>3, <4>4
      <3>2. ASSUME NEW d \in older'[owner'] PROVE pc'[d] = "returned"
        <4>1. d \in older[waiters[1]] /\ d \in Calls /\ d # c
          BY <3>2, <2>1 DEF TypeOK, FifoInv
        <4>2. pc[d] = "returned"
          BY <4>1, <2>1, NoCallAssumption DEF FifoInv
        <4> QED BY <4>1, <4>2 DEF TypeOK
      <3> QED BY <3>1, <3>2 DEF FifoInv
    <2>7. StopInv'
      BY <2>2 DEF TypeOK, StopInv, StopWins
    <2> QED BY <2>3, <2>5, <2>6, <2>7
  <1>4. ASSUME NEW c \in Calls, Act(c) PROVE IInv'
    <2> USE <1>4 DEF Act, lock
    <2>1. c = owner
      BY DEF LockInv, Inside
    <2>2. TypeOK'
      BY DEF TypeOK, Points
    <2>3. LockInv'
      BY <2>1 DEF TypeOK, LockInv, Inside
    <2>4. FifoInv'
      BY DEF TypeOK, FifoInv
    <2>5. \A d \in Calls : d # c => pc[d] # "acted"
      BY <2>1 DEF LockInv, Inside
    <2>6. StopInv'
      BY <2>5, NoCallAssumption DEF TypeOK, StopInv, StopWins
    <2> QED BY <2>2, <2>3, <2>4, <2>6
  <1>5. ASSUME NEW c \in Calls, Succeed(c) PROVE IInv'
    <2> USE <1>5 DEF Succeed
    <2>1. pc[c] \in Inside /\ c = owner
      BY DEF LockInv, Inside
    <2>2. revoked' \subseteq Calls
      BY DEF TypeOK
    <2>3. TypeOK' /\ LockInv' /\ FifoInv'
      BY <2>1, <2>2, LeaveInv
    <2>4. \A d \in Calls : pc'[d] # "acted"
      BY <2>1, LeaveEmpty
    <2>5. \A d \in revoked' : pc'[d] = "returned"
      BY <2>1, NoCallAssumption DEF StopInv, FifoInv, Leave, Release, TypeOK
    <2>6. StopWins'
      BY NoCallAssumption DEF StopInv, StopWins, Leave, Release, TypeOK
    <2> QED BY <2>3, <2>4, <2>5, <2>6 DEF StopInv
  <1>6. ASSUME NEW c \in Calls, Fail(c) \/ Cancelled(c) PROVE IInv'
    <2>1. pc[c] \in Inside /\ Leave(c) /\ revoked' = revoked
      BY <1>6 DEF Fail, Cancelled, Inside
    <2>2. TypeOK' /\ LockInv' /\ FifoInv'
      BY <2>1, LeaveInv DEF TypeOK
    <2>3. StopInv'
      BY <2>1, LeaveEmpty DEF StopInv, StopWins, Leave, Release, TypeOK
    <2> QED BY <2>2, <2>3
  <1>7. CASE UNCHANGED vars
    BY <1>7 DEF vars, lock, TypeOK, LockInv, FifoInv, StopInv, StopWins
  <1> QED
    BY <1>1, <1>2, <1>3, <1>4, <1>5, <1>6, <1>7 DEF Next

\* Theorem: every reachable state of the command lock is well typed.
THEOREM TypeCorrect == Spec => []TypeOK
  <1>1. IInv => TypeOK
    BY DEF IInv
  <1> QED BY <1>1, InitInv, InvStep, PTL DEF Spec

\* Theorem: a Stop that has returned is never undone by a command made before
\* it, for any number of calls queued in any order (coordinator.py:897-910).
THEOREM StopWinsAlways == Spec => []StopWins
  <1>1. IInv => StopWins
    BY DEF IInv, StopInv
  <1> QED BY <1>1, InitInv, InvStep, PTL DEF Spec

\* What was made before the cook of the grill is over.
CookInv == cook # NoCall => \A d \in older[cook] : pc[d] = "returned"

\* Lemma: a command that goes in is the oldest there is, and stays so while the grill
\* cooks for it; a call that is made anew is not older than anything.
LEMMA CookStep == IInv /\ CookInv /\ [Next]_vars => CookInv'
  <1> SUFFICES ASSUME IInv, CookInv, [Next]_vars, cook' # NoCall,
                      NEW d \in older'[cook'] PROVE pc'[d] = "returned"
    BY DEF CookInv
  <1> USE DEF IInv
  <1>1. CASE GrillEnds \/ UNCHANGED vars
    BY <1>1 DEF GrillEnds, vars, lock, CookInv
  <1>2. ASSUME NEW c \in Calls, NEW k \in Kinds, Call(c, k) PROVE pc'[d] = "returned"
    <2>1. cook' = cook /\ c # cook /\ cook \in Calls
      BY <1>2 DEF Call, TypeOK
    <2>2. d \in older[cook] /\ d # c /\ d \in Calls
      BY <1>2, <2>1 DEF Call, TypeOK
    <2>3. pc'[d] = pc[d]
      BY <1>2, <2>2 DEF Call, EnterNow, Queue, TypeOK
    <2> QED BY <2>1, <2>2, <2>3 DEF CookInv
  <1>3. ASSUME NEW c \in Calls, Resume(c) PROVE pc'[d] = "returned"
    <2>1. cook' = cook /\ d \in older[cook] /\ d \in Calls /\ pc[c] = "queued"
      BY <1>3 DEF Resume, First, TypeOK, LockInv
    <2> QED BY <1>3, <2>1 DEF Resume, TypeOK, CookInv
  <1>4. ASSUME NEW c \in Calls, Act(c) PROVE pc'[d] = "returned"
    <2>1. cook' = c /\ c = owner /\ older' = older
      BY <1>4 DEF Act, LockInv, Inside
    <2>2. d \in older[c] /\ d # c /\ pc[d] = "returned" /\ d \in Calls
      BY <2>1, NoCallAssumption DEF FifoInv, TypeOK
    <2> QED BY <1>4, <2>2 DEF Act, TypeOK
  <1>5. ASSUME NEW c \in Calls, Leave(c) PROVE pc'[d] = "returned"
    BY <1>5 DEF Leave, TypeOK, CookInv
  <1> QED
    BY <1>1, <1>2, <1>3, <1>4, <1>5 DEF Next, Succeed, Fail, Cancelled

\* Theorem: the grill acts on no command that was made before the cook which it would
\* replace or end (coordinator.py:896-910).
THEOREM OlderNeverUndoes == Spec => LastWishCounts
  <1>1. Init => CookInv
    BY DEF Init, CookInv
  <1>2. IInv /\ CookInv /\ [Next]_vars
          => [\A c \in Calls : Act(c) /\ cook # NoCall => c \notin older[cook]]_vars
    BY DEF Act, CookInv
  <1> QED BY <1>1, <1>2, InitInv, InvStep, CookStep, PTL DEF Spec, LastWishCounts

\* Lemma: a step of the lock is a step of GrillControl, or leaves it alone.
LEMMA StepRefines == IInv /\ [Next]_vars => [Control!Next]_(Control!vars)
  <1> SUFFICES ASSUME IInv, [Next]_vars PROVE [Control!Next]_(Control!vars)
    OBVIOUS
  <1> USE DEF IInv
  <1>1. CASE GrillEnds
    BY <1>1 DEF GrillEnds, lock, Control!Next, Control!StopActs, Open
  <1>2. ASSUME NEW c \in Calls, NEW k \in Kinds, Call(c, k) PROVE Control!Next
    <2>1. Open' = Open \cup {c} /\ c \notin Open
      BY <1>2 DEF Call, EnterNow, Queue, Free, Take, Enqueue, Open, TypeOK
    <2> QED BY <1>2, <2>1 DEF Call, Control!Next, Control!Call
  <1>3. ASSUME NEW c \in Calls, Resume(c) PROVE UNCHANGED Control!vars
    <2>1. pc[c] = "queued"
      BY <1>3 DEF Resume, First, LockInv, TypeOK
    <2> QED BY <1>3, <2>1 DEF Resume, First, Take, Control!vars, Open, TypeOK
  <1>4. ASSUME NEW c \in Calls, Act(c) PROVE Control!Next
    <2>1. Open' = Open /\ c \notin revoked
      BY <1>4 DEF Act, lock, Open, TypeOK, StopInv
    <2>2. CASE kind[c] = "start"
      BY <1>4, <2>1, <2>2 DEF Act, Control!Next, Control!StartActs
    <2>3. CASE kind[c] # "start"
      BY <1>4, <2>1, <2>3 DEF Act, Control!Next, Control!StopActs
    <2> QED BY <2>2, <2>3
  <1>5. ASSUME NEW c \in Calls, Succeed(c) PROVE Control!Next
    <2>1. Open' = Open \ {c} /\ c \in Open
      BY <1>5 DEF Succeed, Leave, Release, Open, TypeOK
    <2>2. CASE kind[c] = "stop"
      <3>1. cook \notin older[c]
        BY <1>5, <2>2, NoCallAssumption DEF Succeed, StopInv, TypeOK
      <3> QED BY <1>5, <2>1, <2>2, <3>1
              DEF Succeed, Leave, Release, Control!Next, Control!StopReturns
    <2>3. CASE kind[c] # "stop"
      BY <1>5, <2>1, <2>3 DEF Succeed, Leave, Release, Control!Next, Control!Return
    <2> QED BY <2>2, <2>3
  <1>6. ASSUME NEW c \in Calls, Fail(c) \/ Cancelled(c) PROVE Control!Next
    <2>1. Open' = Open \ {c} /\ c \in Open
      BY <1>6 DEF Fail, Cancelled, Leave, Release, Open, TypeOK
    <2> QED BY <1>6, <2>1 DEF Fail, Cancelled, Leave, Release, Control!Next, Control!Return
  <1>7. CASE UNCHANGED vars
    BY <1>7 DEF vars, lock, Control!vars, Open
  <1> QED
    BY <1>1, <1>2, <1>3, <1>4, <1>5, <1>6, <1>7 DEF Next

\* Theorem: the command lock implements what the coordinator promises its
\* callers, GrillControl, with a call open until it returns.
THEOREM Refinement == Spec => ImplementsControl
  <1>1. Init => Control!Init
    BY DEF Init, Control!Init, Open
  <1> QED BY <1>1, InitInv, InvStep, StepRefines, PTL
          DEF Spec, ImplementsControl, Control!Spec
=============================================================================
