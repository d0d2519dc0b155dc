-------------------------- MODULE BleSession_proof --------------------------
(***************************************************************************)
(* Proofs about BleSession, for any users, connections and attempts: what  *)
(* is read and written belongs to the connection in use, the link is       *)
(* released, a command is carried out once while its caller is inside, and *)
(* nobody stays inside for ever.                                           *)
(***************************************************************************)
EXTENDS BleSession, SequenceTheorems, TLAPS

\* Those who may hold a connection, and those who may not hold one yet or any more.
Busy == {"connecting", "greeting", "writing", "written", "listening", "leaving",
         "retreating", "backoff"}
Linked == Busy \ {"connecting", "backoff"}

\* The lock: the queue holds everyone who has begun, once, and only its first is inside.
QueueInv ==
    /\ \A i, j \in 1..Len(queue) : queue[i] = queue[j] => i = j
    /\ \A u \in Users : ~At(u, "ended") <=> \E i \in 1..Len(queue) : queue[i] = u
    /\ \A u \in Users : pc[u] \in Busy => Inside(u)

\* The link: a client is somebody's, and no other connection is up beside it; unless one
\* was lost sight of, nothing is queued before it is there and what is queued came over it.
LinkInv ==
    /\ client # NoLink => \E u \in Users : pc[u] \in Linked
    /\ client # NoLink => up \in {client, NoLink}
    /\ ~haunted /\ client # NoLink => frames \subseteq {client}
    /\ \A u \in Users : ~haunted /\ At(u, "connecting") => frames = {} /\ up = NoLink
    /\ \A u \in Users : ~haunted /\ pc[u] \in {"listening", "writing"} /\ client # NoLink
                        => token = client
    /\ up # NoLink /\ closing = "no" => client = up \/ orphaned
    /\ \A u \in Users : pc[u] \in {"retreating", "backoff"} => reads > 1

\* The command on its way: it is carried out for the first time, over a link that is up,
\* and its caller waits for it unless the link was lost sight of.
AirInv ==
    /\ air # "none" => up # NoLink /\ written[air] = 0
    /\ air # "none" => pc[air] \in {"written", "leaving", "ended"}
    /\ air # "none" /\ closing = "no" /\ ~orphaned => pc[air] \in {"written", "leaving"}
    /\ \A u \in Commands :
          pc[u] \in {"waiting", "connecting", "greeting", "writing"} => written[u] = 0
    /\ \A u \in Commands : pc[u] \notin {"listening", "retreating", "backoff"}
    /\ \A u \in Polls : pc[u] \notin {"writing", "written"}

IInv == TypeOK /\ QueueInv /\ LinkInv /\ AirInv
-----------------------------------------------------------------------------
(* The queue.                                                              *)

\* Nobody uses the link and nothing is on its way before the first call.
LEMMA InitIInv == Init => IInv
  <1> SUFFICES ASSUME Init PROVE IInv
    OBVIOUS
  <1> USE AttemptsAssumption, LinksAssumption, UsersAssumption DEF Init
  <1>1. TypeOK
    <2>1. queue \in Seq(Users) /\ pc \in [Users -> Steps] /\ written \in [Users -> 0..2]
      BY EmptySeq DEF Steps
    <2>2. reads \in 0..READ_ATTEMPTS /\ greets \in 0..CONNECT_ATTEMPTS
      OBVIOUS
    <2> QED BY <2>1, <2>2 DEF TypeOK
  <1>2. QueueInv
    BY DEF QueueInv, At, Inside, Busy
  <1>3. LinkInv /\ AirInv
    BY DEF LinkInv, AirInv, At, Linked, Busy, Users
  <1> QED BY <1>1, <1>2, <1>3 DEF IInv

\* Only one user is inside.
LEMMA OneInside ==
    ASSUME QueueInv, NEW u \in Users, NEW v \in Users, pc[u] \in Busy, pc[v] \in Busy
    PROVE  u = v
  BY DEF QueueInv, Inside

\* A user that begins is the last to wait.
LEMMA Joins ==
    ASSUME TypeOK, QueueInv, NEW u \in Users, At(u, "ended"),
           queue' = Append(queue, u), pc' = [pc EXCEPT ![u] = "waiting"]
    PROVE  queue' \in Seq(Users) /\ QueueInv'
  <1> DEFINE n == Len(queue)
  <1>1. /\ queue' \in Seq(Users) /\ Len(queue') = n + 1 /\ n \in Nat
        /\ \A i \in 1..n : queue'[i] = queue[i]
        /\ queue'[n + 1] = u
    BY AppendProperties, LenProperties DEF TypeOK
  <1>2. \A i \in 1..n : queue[i] # u
    BY DEF QueueInv, At
  <1>3. \A v \in Users : pc'[v] = IF v = u THEN "waiting" ELSE pc[v]
    BY DEF TypeOK
  <1>4. \A i, j \in 1..Len(queue') : queue'[i] = queue'[j] => i = j
    BY <1>1, <1>2 DEF QueueInv
  <1>5. \A v \in Users : pc'[v] # "ended" <=> \E i \in 1..Len(queue') : queue'[i] = v
    BY <1>1, <1>3 DEF QueueInv, At
  <1>6. \A v \in Users : pc'[v] \in Busy => Head(queue') = v /\ queue' # <<>>
    <2> SUFFICES ASSUME NEW v \in Users, pc'[v] \in Busy PROVE Head(queue') = v /\ queue' # <<>>
      OBVIOUS
    <2>1. pc[v] \in Busy
      BY <1>3 DEF Busy
    <2> QED BY <2>1, HeadTailAppend, AppendProperties DEF QueueInv, Inside, TypeOK
  <1> QED BY <1>1, <1>4, <1>5, <1>6 DEF QueueInv, At, Inside

\* The first goes on, or begins.
LEMMA GoesOn ==
    ASSUME TypeOK, QueueInv, NEW u \in Users, Inside(u), ~At(u, "ended"),
           NEW to \in Busy, queue' = queue, pc' = [pc EXCEPT ![u] = to]
    PROVE  QueueInv'
  <1>1. \A v \in Users : pc'[v] = IF v = u THEN to ELSE pc[v]
    BY DEF TypeOK
  <1> QED BY <1>1 DEF QueueInv, At, Inside, Busy

\* The first leaves, and the next is inside.
LEMMA Leaves ==
    ASSUME TypeOK, QueueInv, NEW u \in Users, pc[u] \in Busy,
           queue' = Tail(queue), pc' = [pc EXCEPT ![u] = "ended"]
    PROVE  queue' \in Seq(Users) /\ QueueInv'
  <1>1. queue # <<>> /\ queue[1] = u /\ Len(queue) \in Nat /\ Len(queue) > 0
    BY LenProperties, EmptySeq DEF QueueInv, Inside, TypeOK
  <1>2. /\ queue' \in Seq(Users) /\ Len(queue') = Len(queue) - 1
        /\ \A i \in 1..Len(queue') : queue'[i] = queue[i + 1]
    BY <1>1, HeadTailProperties DEF TypeOK
  <1>3. \A v \in Users : pc'[v] = IF v = u THEN "ended" ELSE pc[v]
    BY DEF TypeOK
  <1>4. \A i, j \in 1..Len(queue') : queue'[i] = queue'[j] => i = j
    BY <1>1, <1>2 DEF QueueInv
  <1>5. ASSUME NEW v \in Users
        PROVE  pc'[v] # "ended" <=> \E i \in 1..Len(queue') : queue'[i] = v
    <2>1. CASE v = u
      BY <1>1, <1>2, <1>3, <2>1 DEF QueueInv
    <2>2. CASE v # u
      <3>1. ASSUME NEW i \in 1..Len(queue), queue[i] = v
            PROVE  i - 1 \in 1..Len(queue') /\ queue'[i - 1] = v
        BY <1>1, <1>2, <2>2, <3>1
      <3>2. ASSUME NEW i \in 1..Len(queue'), queue'[i] = v
            PROVE  i + 1 \in 1..Len(queue) /\ queue[i + 1] = v
        BY <1>1, <1>2, <3>2
      <3> QED BY <1>3, <2>2, <3>1, <3>2 DEF QueueInv, At
    <2> QED BY <2>1, <2>2
  <1>6. \A v \in Users : pc'[v] \notin Busy
    BY <1>3, OneInside DEF Busy
  <1> QED BY <1>2, <1>4, <1>5, <1>6 DEF QueueInv, At

\* Who waits and gives up is taken out, wherever it waits.
LEMMA GivesUp ==
    ASSUME TypeOK, QueueInv, NEW u \in Users, At(u, "waiting"),
           queue' = Without(u), pc' = [pc EXCEPT ![u] = "ended"]
    PROVE  queue' \in Seq(Users) /\ QueueInv'
  <1> DEFINE k == CHOOSE i \in 1..Len(queue) : queue[i] = u
             n == Len(queue)
  <1>1. k \in 1..n /\ queue[k] = u /\ n \in Nat
    BY LenProperties DEF QueueInv, At, TypeOK
  <1>2. /\ queue' \in Seq(Users) /\ Len(queue') = n - 1
        /\ \A i \in 1..(n - 1) : queue'[i] = IF i < k THEN queue[i] ELSE queue[i + 1]
    <2> DEFINE front == SubSeq(queue, 1, k - 1)
               rest == SubSeq(queue, k + 1, n)
    <2>0. \A i \in 1..n : queue[i] \in Users
      BY ElementOfSeq DEF TypeOK
    <2>1. /\ front \in Seq(Users) /\ Len(front) = k - 1
          /\ \A i \in 1..(k - 1) : front[i] = queue[i]
      BY <1>1, <2>0, SubSeqProperties
    <2>2. /\ rest \in Seq(Users) /\ Len(rest) = n - k
          /\ \A i \in 1..(n - k) : rest[i] = queue[i + k]
      <3>1. \A i \in (k + 1)..n : queue[i] \in Users
        BY <1>1, <2>0
      <3> HIDE DEF k, n
      <3> QED BY <1>1, <3>1, SubSeqProperties
    <2>3. queue' = front \o rest
      BY DEF Without, RemoveAt
    <2> HIDE DEF front, rest, k, n
    <2>4. ASSUME NEW f \in Seq(Users), NEW r \in Seq(Users)
          PROVE  /\ f \o r \in Seq(Users) /\ Len(f \o r) = Len(f) + Len(r)
                 /\ \A i \in 1..(Len(f) + Len(r)) :
                       (f \o r)[i] = IF i <= Len(f) THEN f[i] ELSE r[i - Len(f)]
      BY ConcatProperties
    <2>5. /\ queue' \in Seq(Users) /\ Len(queue') = Len(front) + Len(rest)
          /\ \A i \in 1..(Len(front) + Len(rest)) :
                queue'[i] = IF i <= Len(front) THEN front[i] ELSE rest[i - Len(front)]
      <3>1. front \in Seq(Users) /\ rest \in Seq(Users)
        BY <2>1, <2>2
      <3> QED BY ONLY <3>1, <2>3, <2>4
    <2> QED BY <1>1, <2>1, <2>2, <2>5
  <1> HIDE DEF k, n
  <1>3. \A v \in Users : pc'[v] = IF v = u THEN "ended" ELSE pc[v]
    BY DEF TypeOK
  <1>4. \A i, j \in 1..n : queue[i] = queue[j] => i = j
    BY DEF QueueInv, n
  <1>5. \A i, j \in 1..Len(queue') : queue'[i] = queue'[j] => i = j
    BY <1>1, <1>2, <1>4
  <1>6. ASSUME NEW v \in Users
        PROVE  pc'[v] # "ended" <=> \E i \in 1..Len(queue') : queue'[i] = v
    <2>0. pc[v] # "ended" <=> \E i \in 1..n : queue[i] = v
      BY DEF QueueInv, At, n
    <2>1. CASE v = u
      BY <1>1, <1>2, <1>3, <1>4, <2>1
    <2>2. CASE v # u
      <3>1. ASSUME NEW i \in 1..n, queue[i] = v
            PROVE  \E j \in 1..Len(queue') : queue'[j] = v
        <4>1. CASE i < k
          BY <1>1, <1>2, <3>1, <4>1
        <4>2. CASE i > k
          <5>1. i - 1 \in 1..Len(queue') /\ queue'[i - 1] = v
            BY <1>1, <1>2, <3>1, <4>2
          <5> QED BY <5>1
        <4> QED BY <1>1, <2>2, <3>1, <4>1, <4>2
      <3>2. ASSUME NEW j \in 1..Len(queue'), queue'[j] = v
            PROVE  \E i \in 1..n : queue[i] = v
        BY <1>1, <1>2, <3>2
      <3> QED BY <1>3, <2>0, <2>2, <3>1, <3>2
    <2> QED BY <2>1, <2>2
  <1>7. ASSUME NEW v \in Users, pc'[v] \in Busy PROVE queue' # <<>> /\ Head(queue') = v
    <2>1. v # u /\ pc[v] \in Busy
      BY <1>3, <1>7 DEF Busy
    <2>2. n > 0 /\ queue[1] = v
      BY <2>1, <1>1, LenProperties, EmptySeq DEF QueueInv, Inside, TypeOK, n
    <2>3. k > 1
      BY <1>1, <2>1, <2>2
    <2>4. Len(queue') > 0 /\ queue'[1] = v
      BY <1>1, <1>2, <2>2, <2>3
    <2> QED BY <1>2, <2>4, EmptySeq
  <1> QED BY <1>2, <1>5, <1>6, <1>7 DEF QueueInv, At, Inside
-----------------------------------------------------------------------------
(* The steps.                                                              *)

\* A step of one user moves nobody else.
LEMMA Moves ==
    ASSUME TypeOK, NEW u \in Users, NEW to, Goes(u, to)
    PROVE  \A v \in Users : pc'[v] = IF v = u THEN to ELSE pc[v]
  BY DEF TypeOK, Goes

\* A user that is somewhere between its turn and the release of the lock is inside.
LEMMA BusyInside ==
    ASSUME QueueInv, NEW u \in Users, pc[u] \in Busy
    PROVE  Inside(u) /\ ~At(u, "ended")
  BY DEF QueueInv, At, Busy

\* Every step keeps the lock in order: a place for everyone who has begun, in the order in
\* which they began, and one user inside.
LEMMA QueueStep ==
    ASSUME IInv, [Next]_vars
    PROVE  queue' \in Seq(Users) /\ QueueInv'
  <1> USE DEF IInv
  <1>0. ASSUME UNCHANGED <<queue, pc>> PROVE queue' \in Seq(Users) /\ QueueInv'
    BY <1>0 DEF TypeOK, QueueInv, At, Inside
  <1>1. CASE Notifies \/ LinkDrops \/ CarriesOut \/ Close \/ UNCHANGED vars
             \/ \E ok \in BOOLEAN : Closed(ok)
    BY <1>0, <1>1 DEF Notifies, LinkDrops, CarriesOut, Close, Closed, vars
  <1>2. ASSUME NEW u \in Users, NEW to \in Busy,
               pc[u] \in Busy \/ (Inside(u) /\ ~At(u, "ended")), Goes(u, to), queue' = queue
        PROVE  queue' \in Seq(Users) /\ QueueInv'
    BY <1>2, BusyInside, GoesOn DEF Goes, TypeOK
  <1>3. ASSUME NEW u \in Users, Begin(u) PROVE queue' \in Seq(Users) /\ QueueInv'
    BY <1>3, Joins DEF Begin, Goes
  <1>4. ASSUME NEW u \in Users, Cancelled(u) PROVE queue' \in Seq(Users) /\ QueueInv'
    <2>1. CASE At(u, "waiting")
      BY <1>4, <2>1, GivesUp DEF Cancelled, Goes
    <2>2. CASE ~At(u, "waiting")
      <3>1. pc[u] \in Busy
        BY <1>4, <2>2 DEF Cancelled, At, Busy, TypeOK, Steps
      <3> QED BY <1>2, <1>4, <2>2, <3>1 DEF Cancelled, Busy
    <2> QED BY <2>1, <2>2
  <1>5. ASSUME NEW u \in Users, Enter(u) \/ Retry(u) PROVE queue' \in Seq(Users) /\ QueueInv'
    <2>1. pc[u] \in Busy \/ (Inside(u) /\ ~At(u, "ended"))
      BY <1>5 DEF Enter, Retry, At, Busy
    <2>2. queue' = queue /\ (Goes(u, "connecting") \/ Goes(u, "greeting"))
      BY <1>5 DEF Enter, Retry, Connects
    <2> QED BY <1>2, <2>1, <2>2 DEF Busy
  <1>6. ASSUME NEW u \in Users, Greeted(u) PROVE queue' \in Seq(Users) /\ QueueInv'
    <2>1. CASE frames # {}
      BY <1>2, <1>6, <2>1 DEF Greeted, At, Busy
    <2>2. CASE frames = {}
      BY <1>0, <1>6, <2>2 DEF Greeted
    <2> QED BY <2>1, <2>2
  <1>7. ASSUME NEW u \in Users,
               Established(u) \/ Writes(u) \/ Written(u) \/ Listened(u) \/ Fails(u)
        PROVE  queue' \in Seq(Users) /\ QueueInv'
    <2>1. pc[u] \in Busy /\ queue' = queue
      BY <1>7 DEF Established, Writes, Written, Listened, Fails, At, Busy
    <2>2. \E to \in Busy : Goes(u, to)
      BY <1>7 DEF Established, Writes, Written, Listened, Fails, Busy
    <2> QED BY <1>2, <2>1, <2>2
  <1>8. ASSUME NEW u \in Users, NEW ok \in BOOLEAN, Left(u, ok)
        PROVE  queue' \in Seq(Users) /\ QueueInv'
    <2>1. pc[u] \in Busy
      BY <1>8 DEF Left, Busy
    <2>2. CASE At(u, "leaving")
      BY <1>8, <2>1, <2>2, Leaves DEF Left, Goes
    <2>3. CASE ~At(u, "leaving")
      BY <1>2, <1>8, <2>1, <2>3 DEF Left, Busy
    <2> QED BY <2>2, <2>3
  <1> QED BY <1>1, <1>3, <1>4, <1>5, <1>6, <1>7, <1>8 DEF Next, Proceeds

\* Every variable keeps its type.
LEMMA TypeStep ==
    ASSUME IInv, [Next]_vars
    PROVE  TypeOK'
  <1> USE DEF IInv
  <1>1. queue' \in Seq(Users)
    BY QueueStep
  <1>2. pc' \in [Users -> Steps]
    <2>1. UNCHANGED pc \/ \E u \in Users, to \in Steps : Goes(u, to)
      <3>1. ASSUME NEW u \in Users, Begin(u) \/ Cancelled(u) \/ Enter(u) \/ Retry(u)
                                    \/ Established(u) \/ Greeted(u)
            PROVE  UNCHANGED pc \/ \E to \in Steps : Goes(u, to)
        BY <3>1 DEF Begin, Cancelled, Enter, Retry, Connects, Established, Greeted, Steps
      <3>2. ASSUME NEW u \in Users, NEW ok \in BOOLEAN,
                   Writes(u) \/ Written(u) \/ Listened(u) \/ Fails(u) \/ Left(u, ok)
            PROVE  \E to \in Steps : Goes(u, to)
        BY <3>2 DEF Writes, Written, Listened, Fails, Left, Steps
      <3>3. CASE Notifies \/ LinkDrops \/ CarriesOut \/ Close \/ UNCHANGED vars
                 \/ \E ok \in BOOLEAN : Closed(ok)
        BY <3>3 DEF Notifies, LinkDrops, CarriesOut, Close, Closed, vars
      <3> QED BY <3>1, <3>2, <3>3 DEF Next, Proceeds
    <2> QED BY <2>1 DEF Goes, TypeOK
  <1>3. reads' \in 0..READ_ATTEMPTS /\ greets' \in 0..CONNECT_ATTEMPTS
        /\ token' \in Links \cup {NoLink}
    <2> DEFINE Typed == reads' \in 0..READ_ATTEMPTS /\ greets' \in 0..CONNECT_ATTEMPTS
                        /\ token' \in Links \cup {NoLink}
    <2>0. READ_ATTEMPTS \in Nat \ {0} /\ CONNECT_ATTEMPTS \in Nat \ {0}
      BY AttemptsAssumption
    <2>1. ASSUME NEW u \in Users, Enter(u) PROVE Typed
      BY <2>0, <2>1 DEF Enter, Connects
    <2>2. ASSUME NEW u \in Users, Retry(u) PROVE Typed
      <3>1. reads \in 0..READ_ATTEMPTS /\ reads > 1
        BY <2>2 DEF Retry, At, LinkInv, TypeOK
      <3> QED BY <2>0, <2>2, <3>1 DEF Retry, Connects
    <2>3. ASSUME NEW u \in Users, Greeted(u) PROVE Typed
      <3>1. frames \subseteq Links /\ greets \in 0..CONNECT_ATTEMPTS
            /\ reads \in 0..READ_ATTEMPTS /\ token \in Links \cup {NoLink}
        BY DEF TypeOK
      <3>2. CASE frames # {}
        BY <2>0, <2>3, <3>1, <3>2 DEF Greeted
      <3>3. CASE frames = {}
        BY <2>0, <2>3, <3>1, <3>3 DEF Greeted
      <3> QED BY <3>2, <3>3
    <2>4. ASSUME UNCHANGED turn PROVE Typed
      BY <2>4 DEF turn, TypeOK
    <2>5. ASSUME NEW u \in Users, NEW ok \in BOOLEAN,
                 Begin(u) \/ Cancelled(u) \/ Established(u) \/ Writes(u) \/ Written(u)
                 \/ Listened(u) \/ Fails(u) \/ Left(u, ok)
          PROVE  Typed
      BY <2>4, <2>5 DEF Begin, Cancelled, Established, Writes, Written, Listened, Fails, Left
    <2>6. CASE Notifies \/ LinkDrops \/ CarriesOut \/ Close \/ UNCHANGED vars
               \/ \E ok \in BOOLEAN : Closed(ok)
      BY <2>4, <2>6 DEF Notifies, LinkDrops, CarriesOut, Close, Closed, vars, turn
    <2> QED BY <2>1, <2>2, <2>3, <2>5, <2>6 DEF Next, Proceeds
  <1>4. /\ client' \in Links \cup {NoLink} /\ up' \in Links \cup {NoLink}
        /\ frames' \subseteq Links /\ air' \in Commands \cup {"none"}
        /\ closing' \in Links \cup {"no", "done"} /\ orphaned' \in BOOLEAN /\ haunted' \in BOOLEAN
    <2> DEFINE Typed == /\ client' \in Links \cup {NoLink} /\ up' \in Links \cup {NoLink}
                        /\ frames' \subseteq Links /\ air' \in Commands \cup {"none"}
                        /\ closing' \in Links \cup {"no", "done"}
                        /\ orphaned' \in BOOLEAN /\ haunted' \in BOOLEAN
    <2> USE DEF TypeOK
    <2>1. ASSUME NEW u \in Users, NEW ok \in BOOLEAN,
                 Begin(u) \/ Cancelled(u) \/ Enter(u) \/ Retry(u) \/ Established(u) \/ Greeted(u)
          PROVE  Typed
      BY <2>1 DEF Begin, Cancelled, Enter, Retry, Connects, Established, Greeted, link
    <2>2. ASSUME NEW u \in Users, Writes(u) PROVE Typed
      BY <2>2 DEF Writes, AirInv, At, Users
    <2>3. ASSUME NEW u \in Users, NEW ok \in BOOLEAN,
                 Written(u) \/ Listened(u) \/ Fails(u) \/ Left(u, ok)
          PROVE  Typed
      BY <2>3 DEF Written, Listened, Fails, Left, Disconnects, Down, link
    <2>4. CASE Notifies \/ LinkDrops \/ CarriesOut \/ Close \/ UNCHANGED vars
               \/ \E ok \in BOOLEAN : Closed(ok)
      BY <2>4 DEF Notifies, LinkDrops, CarriesOut, Close, Closed, Down, link, vars
    <2> QED BY <2>1, <2>2, <2>3, <2>4 DEF Next, Proceeds
  <1>5. written' \in [Users -> 0..2]
    <2>1. CASE CarriesOut
      <3>1. \A u \in Users : written[u] \in 0..2
        BY DEF TypeOK
      <3>2. air \in Users
        BY <2>1 DEF CarriesOut, TypeOK, Users
      <3>3. (IF written[air] < 2 THEN written[air] + 1 ELSE written[air]) \in 0..2
        BY <3>1, <3>2
      <3> QED BY <2>1, <3>3 DEF CarriesOut, TypeOK
    <2>2. CASE \E u \in Users : Begin(u)
      BY <2>2 DEF Begin, TypeOK
    <2>3. CASE ~CarriesOut /\ ~\E u \in Users : Begin(u)
      <3>1. UNCHANGED written
        BY <2>3 DEF Next, Proceeds, vars, Notifies, LinkDrops, Close, Closed, Cancelled, Enter,
                    Retry, Established, Greeted, Writes, Written, Listened, Fails, Left
      <3> QED BY <3>1 DEF TypeOK
    <2> QED BY <2>1, <2>2, <2>3
  <1> QED BY <1>1, <1>2, <1>3, <1>4, <1>5 DEF TypeOK

\* The link: whatever a step does, the client that is there is somebody's, what is queued
\* and the token came over it, and no other connection is up.
LEMMA LinkStep ==
    ASSUME IInv, [Next]_vars
    PROVE  LinkInv'
  <1> USE DEF IInv
  <1>0. ASSUME NEW u \in Users, NEW v \in Users, pc[u] \in Busy, pc[v] \in Busy \/ Inside(v)
        PROVE  u = v
    BY <1>0, BusyInside DEF Inside
  <1>1. ASSUME UNCHANGED <<pc, turn, link, closing, haunted>> PROVE LinkInv'
    BY <1>1 DEF LinkInv, At, turn, link
  <1>2. CASE Notifies
    BY <1>2 DEF Notifies, LinkInv, At, turn
  <1>3. CASE LinkDrops
    BY <1>3 DEF LinkDrops, Down, LinkInv, At, turn
  <1>4. CASE CarriesOut \/ UNCHANGED vars
    BY <1>1, <1>4 DEF CarriesOut, vars, LinkInv, At, turn, link
  <1>5. CASE Close \/ \E ok \in BOOLEAN : Closed(ok)
    <2>1. closing' # "no"
      BY <1>5, LinksAssumption DEF Close, Closed, TypeOK
    <2> QED BY <1>5, <2>1 DEF Close, Closed, Down, LinkInv, At, turn, link
  <1>6. ASSUME NEW u \in Users, Begin(u) PROVE LinkInv'
    <2>1. \A v \in Users : pc'[v] = IF v = u THEN "waiting" ELSE pc[v]
      BY <1>6, Moves DEF Begin
    <2> QED BY <1>6, <2>1 DEF Begin, LinkInv, At, turn, link, Linked, Busy
  <1>7. ASSUME NEW u \in Users, Cancelled(u) PROVE LinkInv'
    <2>1. PICK to \in {"ended", "leaving"} : Goes(u, to) /\ (pc[u] \in Linked => to = "leaving")
      BY <1>7 DEF Cancelled, At, Linked, Busy
    <2>2. \A v \in Users : pc'[v] = IF v = u THEN to ELSE pc[v]
      BY <2>1, Moves
    <2> QED BY <1>7, <2>1, <2>2 DEF Cancelled, LinkInv, At, turn, link, Linked, Busy
  <1>8. ASSUME NEW u \in Users, Enter(u) \/ Retry(u) PROVE LinkInv'
    <2>1. Inside(u) /\ pc[u] \in {"waiting", "backoff"}
      BY <1>8, BusyInside DEF Enter, Retry, At, Busy
    <2>2. client = NoLink
      BY <1>0, <2>1 DEF LinkInv, Linked, Busy
    <2>3. \A v \in Users : v # u => pc[v] \notin Busy
      BY <1>0, <2>1
    <2>4. Goes(u, "connecting") /\ frames' = {} /\ client' = NoLink /\ up' = up
          /\ haunted' = (up # NoLink) /\ UNCHANGED <<orphaned, closing>>
      BY <1>8, <2>2 DEF Enter, Retry, Connects, Connected
    <2>5. \A v \in Users : pc'[v] = IF v = u THEN "connecting" ELSE pc[v]
      BY <2>4, Moves
    <2> QED BY <2>2, <2>3, <2>4, <2>5 DEF LinkInv, At, Linked, Busy
  <1>9. ASSUME NEW u \in Users, Established(u) PROVE LinkInv'
    <2>1. \A v \in Users : pc'[v] = IF v = u THEN "greeting" ELSE pc[v]
      BY <1>9, Moves DEF Established
    <2>2. \A v \in Users : v # u => pc[v] \notin Busy
      BY <1>0, <1>9 DEF Established, At, Busy
    <2>3. (~haunted => frames = {}) /\ client' = up'
      BY <1>9 DEF Established, LinkInv
    <2> QED BY <1>9, <2>1, <2>2, <2>3 DEF Established, LinkInv, At, Linked, Busy, turn
  <1>10. ASSUME NEW u \in Users, Greeted(u) PROVE LinkInv'
    <2>1. CASE frames # {}
      <3>1. PICK to \in {"listening", "writing"} : Goes(u, to)
        BY <1>10, <2>1 DEF Greeted
      <3>2. \A v \in Users : pc'[v] = IF v = u THEN to ELSE pc[v]
        BY <3>1, Moves
      <3>3. \A v \in Users : v # u => pc[v] \notin Busy
        BY <1>0, <1>10 DEF Greeted, At, Busy
      <3>4. /\ ~haunted => token' = client
            /\ client' = client /\ frames' = {} /\ haunted' = haunted
        BY <1>10, <2>1 DEF Greeted, LinkInv
      <3> QED BY <1>10, <3>2, <3>3, <3>4 DEF Greeted, LinkInv, At, Linked, Busy
    <2>2. CASE frames = {}
      BY <1>10, <2>2 DEF Greeted, LinkInv, At
    <2> QED BY <2>1, <2>2
  <1>11. ASSUME NEW u \in Users, Writes(u) \/ Written(u) \/ Listened(u) PROVE LinkInv'
    <2>1. PICK to \in {"written", "leaving"} : Goes(u, to)
      BY <1>11 DEF Writes, Written, Listened
    <2>2. \A v \in Users : pc'[v] = IF v = u THEN to ELSE pc[v]
      BY <2>1, Moves
    <2> QED BY <1>11, <2>2 DEF Writes, Written, Listened, LinkInv, At, Linked, Busy, turn, link
  <1>12. ASSUME NEW u \in Users, Fails(u) PROVE LinkInv'
    <2>1. PICK to \in {"retreating", "leaving"} : Goes(u, to) /\ (to = "retreating" => reads > 1)
      BY <1>12 DEF Fails, MayRetry
    <2>2. \A v \in Users : pc'[v] = IF v = u THEN to ELSE pc[v]
      BY <2>1, Moves
    <2> QED BY <1>12, <2>1, <2>2 DEF Fails, LinkInv, At, Linked, Busy, turn, link
  <1>13. ASSUME NEW u \in Users, NEW ok \in BOOLEAN, Left(u, ok) PROVE LinkInv'
    <2>1. PICK to \in {"ended", "backoff"} : Goes(u, to) /\ (to = "backoff" => At(u, "retreating"))
      BY <1>13 DEF Left, At
    <2>2. \A v \in Users : pc'[v] = IF v = u THEN to ELSE pc[v]
      BY <2>1, Moves
    <2>3. /\ client' = NoLink /\ UNCHANGED <<frames, turn, closing, haunted>>
          /\ up' # NoLink /\ closing = "no" => orphaned'
          /\ up' \in {up, NoLink}
      BY <1>13 DEF Left, Disconnects, Down, LinkInv, TypeOK
    <2> QED BY <2>1, <2>2, <2>3 DEF LinkInv, At, turn
  <1> QED BY <1>2, <1>3, <1>4, <1>5, <1>6, <1>7, <1>8, <1>9, <1>10, <1>11, <1>12, <1>13
          DEF Next, Proceeds

\* The air: whatever a step does, what is on its way is a command that was not carried out
\* before, over a link that is up, and it is on its way while its caller waits for it.
LEMMA AirStep ==
    ASSUME IInv, [Next]_vars
    PROVE  AirInv'
  <1> USE UsersAssumption DEF IInv
  <1>0. ASSUME UNCHANGED <<pc, air, written, up, closing, orphaned>> PROVE AirInv'
    BY <1>0 DEF AirInv
  <1>1. CASE Notifies \/ UNCHANGED vars
    BY <1>0, <1>1 DEF Notifies, vars, link
  <1>2. CASE LinkDrops
    BY <1>2 DEF LinkDrops, Down, AirInv
  <1>3. CASE CarriesOut
    <2>1. air \in Users /\ pc[air] \in {"written", "leaving", "ended"}
      BY <1>3 DEF CarriesOut, AirInv, TypeOK, Users
    <2>2. \A u \in Users : u # air => written'[u] = written[u]
      BY <1>3 DEF CarriesOut, TypeOK
    <2> QED BY <1>3, <2>1, <2>2 DEF CarriesOut, AirInv, Users
  <1>4. CASE Close \/ \E ok \in BOOLEAN : Closed(ok)
    <2>1. closing' # "no"
      BY <1>4, LinksAssumption DEF Close, Closed, TypeOK
    <2> QED BY <1>4, <2>1 DEF Close, Closed, Down, AirInv, link
  <1>5. ASSUME NEW u \in Users, Begin(u) PROVE AirInv'
    <2>1. \A v \in Users : pc'[v] = IF v = u THEN "waiting" ELSE pc[v]
      BY <1>5, Moves DEF Begin
    <2>2. \A v \in Users : written'[v] = IF v = u THEN 0 ELSE written[v]
      BY <1>5 DEF Begin, TypeOK
    <2>3. air = "none" \/ air \in Users
      BY DEF TypeOK, Users
    <2> QED BY <1>5, <2>1, <2>2, <2>3 DEF Begin, AirInv, link, Users
  <1>6. ASSUME NEW u \in Users, NEW to, Goes(u, to), UNCHANGED <<air, written, up, closing, orphaned>>,
               air = u => to \in {"written", "leaving"} \/ (to = "ended" /\ (closing # "no" \/ orphaned)),
               to \in {"waiting", "connecting", "greeting", "writing"} => written[u] = 0 \/ u \in Polls,
               to \in {"listening", "retreating", "backoff"} => u \in Polls,
               to \in {"writing", "written"} => u \in Commands
        PROVE  AirInv'
    <2>1. \A v \in Users : pc'[v] = IF v = u THEN to ELSE pc[v]
      BY <1>6, Moves
    <2>2. air = "none" \/ air \in Users
      BY DEF TypeOK, Users
    <2> QED BY <1>6, <2>1, <2>2 DEF AirInv, Users
  <1>7. ASSUME NEW u \in Users, Cancelled(u) PROVE AirInv'
    <2>1. PICK to \in {"ended", "leaving"} : Goes(u, to) /\ (to = "ended" => At(u, "waiting"))
      BY <1>7 DEF Cancelled
    <2>2. air = u => to = "leaving"
      BY <2>1 DEF AirInv, At, Users
    <2> QED BY <1>6, <1>7, <2>1, <2>2 DEF Cancelled, link
  <1>8. ASSUME NEW u \in Users, Enter(u) \/ Retry(u) PROVE AirInv'
    <2>1. PICK to \in {"connecting", "greeting"} : Goes(u, to)
      BY <1>8 DEF Enter, Retry, Connects
    <2>2. pc[u] \in {"waiting", "backoff"}
      BY <1>8 DEF Enter, Retry, At
    <2>3. air # u /\ (u \in Polls \/ written[u] = 0)
      BY <2>2 DEF AirInv, Users
    <2> QED BY <1>6, <1>8, <2>1, <2>3 DEF Enter, Retry
  <1>9. ASSUME NEW u \in Users, Established(u) PROVE AirInv'
    <2>1. air = "none"
      BY <1>9 DEF Established, AirInv
    <2>2. \A v \in Users : pc'[v] = IF v = u THEN "greeting" ELSE pc[v]
      BY <1>9, Moves DEF Established
    <2> QED BY <1>9, <2>1, <2>2 DEF Established, AirInv, At, Users
  <1>10. ASSUME NEW u \in Users, Greeted(u) PROVE AirInv'
    <2>1. UNCHANGED <<air, written, up, closing, orphaned>>
      BY <1>10 DEF Greeted
    <2>2. air # u /\ (u \in Polls \/ written[u] = 0)
      BY <1>10 DEF Greeted, AirInv, At, Users
    <2>3. CASE frames # {}
      <3>1. Goes(u, IF u \in Polls THEN "listening" ELSE "writing")
        BY <1>10, <2>3 DEF Greeted
      <3> QED BY <1>6, <2>1, <2>2, <3>1 DEF Users
    <2>4. CASE frames = {}
      BY <1>0, <1>10, <2>1, <2>4 DEF Greeted
    <2> QED BY <2>3, <2>4
  <1>11. ASSUME NEW u \in Users, Writes(u) PROVE AirInv'
    <2>1. u \in Commands /\ written[u] = 0 /\ up # NoLink
      BY <1>11 DEF Writes, AirInv, At, Connected, Users
    <2>2. \A v \in Users : pc'[v] = IF v = u THEN "written" ELSE pc[v]
      BY <1>11, Moves DEF Writes
    <2> QED BY <1>11, <2>1, <2>2 DEF Writes, AirInv, Users
  <1>12. ASSUME NEW u \in Users, Written(u) \/ Listened(u) PROVE AirInv'
    <2>1. Goes(u, "leaving") /\ UNCHANGED <<air, written, up, closing, orphaned>>
      BY <1>12 DEF Written, Listened, link
    <2> QED BY <1>6, <2>1
  <1>13. ASSUME NEW u \in Users, Fails(u) PROVE AirInv'
    <2>1. PICK to \in {"retreating", "leaving"} : Goes(u, to) /\ (to = "retreating" => u \in Polls)
      BY <1>13 DEF Fails, MayRetry
    <2>2. air = u => u \in Commands
      BY DEF TypeOK, Users
    <2> QED BY <1>6, <1>13, <2>1, <2>2 DEF Fails, link
  <1>14. ASSUME NEW u \in Users, NEW ok \in BOOLEAN, Left(u, ok) PROVE AirInv'
    <2>1. PICK to \in {"ended", "backoff"} : Goes(u, to) /\ (to = "backoff" => At(u, "retreating"))
      BY <1>14 DEF Left, At
    <2>2. UNCHANGED <<written, closing>>
      BY <1>14 DEF Left
    <2>3. \A v \in Users : pc'[v] = IF v = u THEN to ELSE pc[v]
      BY <2>1, Moves
    <2>4. to = "backoff" => u \in Polls
      BY <2>1 DEF AirInv, At, Users
    <2>5. \/ air' = "none"
          \/ UNCHANGED <<air, up>> /\ (orphaned => orphaned')
             /\ (air = "none" \/ closing # "no" \/ orphaned')
      BY <1>14 DEF Left, Disconnects, Down, LinkInv, AirInv, TypeOK
    <2>6. air = u => to = "ended"
      BY <2>1 DEF AirInv, At, Users
    <2>7. air = "none" \/ air \in Users
      BY DEF TypeOK, Users
    <2> QED BY <2>2, <2>3, <2>4, <2>5, <2>6, <2>7 DEF AirInv, Users
  <1> QED BY <1>1, <1>2, <1>3, <1>4, <1>5, <1>7, <1>8, <1>9, <1>10, <1>11, <1>12, <1>13, <1>14
          DEF Next, Proceeds
-----------------------------------------------------------------------------
(* The theorems.                                                           *)

\* The inductive invariant: the order of the lock, whose link it is, and what is on its way.
THEOREM Invariance == Spec => []IInv
  <1>1. IInv /\ [Next]_vars => IInv'
    BY TypeStep, QueueStep, LinkStep, AirStep DEF IInv
  <1> QED BY InitIInv, <1>1, PTL DEF Spec

\* Every variable has its type: no user waits twice, and attempts stay in their bounds.
THEOREM TypeCorrect == Spec => []TypeOK
  <1>1. IInv => TypeOK
    BY DEF IInv
  <1> QED BY <1>1, Invariance, PTL

\* A user reads frames and writes a token of the connection that it is using, wherever the
\* users before it failed, were cancelled or lost the link (ble_link.py:45-47): unless a
\* connection that HaBleLink had lost sight of was still up, and so could notify, when this
\* user dropped the frames of the earlier ones (ble_link.py:34-35, 83-84).
THEOREM OwnSessionKept == Spec => []OwnSession
  <1>1. IInv => OwnSession
    BY DEF IInv, LinkInv, OwnSession, At
  <1> QED BY <1>1, Invariance, PTL

\* Until the entry is unloaded the link is down when nobody uses it, or a disconnect failed
\* (ble.py:117-120, 148-153).
THEOREM LinkReleased == Spec => []Released
  <1>1. IInv => Released
    BY DEF IInv, QueueInv, LinkInv, Released, Inside, Linked
  <1> QED BY <1>1, Invariance, PTL

\* A command is carried out once, while its caller is inside the lock (ble.py:101-106).
THEOREM CarriedOutInside == Spec => WhileInside
  <1> DEFINE Once == \A u \in Commands : written'[u] > written[u] =>
                        written[u] = 0 /\ (Inside(u) \/ orphaned \/ closing # "no")
  <1>1. ASSUME IInv, [Next]_vars PROVE Once
    <2> SUFFICES ASSUME NEW u \in Commands, written'[u] > written[u]
                 PROVE  written[u] = 0 /\ (Inside(u) \/ orphaned \/ closing # "no")
      OBVIOUS
    <2> USE <1>1 DEF IInv
    <2>1. written[u] \in 0..2
      BY DEF TypeOK, Users
    <2>2. CASE CarriesOut
      <3>1. u = air
        BY <2>1, <2>2 DEF CarriesOut, TypeOK, Users
      <3>2. (air # "none" /\ pc[u] \in {"written", "leaving"}) \/ orphaned \/ closing # "no"
        BY <2>2, <3>1 DEF CarriesOut, AirInv
      <3>3. written[u] = 0
        BY <2>2, <3>1 DEF CarriesOut, AirInv
      <3> QED BY <3>2, <3>3 DEF QueueInv, Busy, Users
    <2>3. CASE \E v \in Users : Begin(v)
      BY <2>1, <2>3 DEF Begin, TypeOK, Users
    <2>4. CASE ~CarriesOut /\ ~\E v \in Users : Begin(v)
      <3>1. UNCHANGED written
        BY <2>4 DEF Next, Proceeds, vars, Notifies, LinkDrops, Close, Closed, Cancelled, Enter,
                    Retry, Established, Greeted, Writes, Written, Listened, Fails, Left
      <3> QED BY <2>1, <3>1
    <2> QED BY <2>2, <2>3, <2>4
  <1>2. IInv /\ [Next]_vars => [Once]_vars
    BY <1>1
  <1> QED BY <1>2, Invariance, PTL DEF Spec, WhileInside

\* Whoever is inside is moved by its own steps only.
LEMMA OwnSteps ==
    ASSUME IInv, [Next]_vars, NEW u \in Users, pc[u] \in Busy
    PROVE  \/ pc'[u] = pc[u] /\ UNCHANGED <<reads, greets>>
           \/ Cancelled(u) \/ (Proceeds(u) /\ ~Enter(u))
  <1> USE DEF IInv
  <1>1. CASE Notifies \/ LinkDrops \/ CarriesOut \/ Close \/ UNCHANGED vars
             \/ \E ok \in BOOLEAN : Closed(ok)
    BY <1>1 DEF Notifies, LinkDrops, CarriesOut, Close, Closed, vars, turn
  <1>2. ASSUME NEW v \in Users, Begin(v) PROVE pc'[u] = pc[u] /\ UNCHANGED <<reads, greets>>
    <2>1. v # u
      BY <1>2 DEF Begin, At, Busy
    <2> QED BY <1>2, <2>1, Moves DEF Begin, turn
  <1>3. ASSUME NEW v \in Users, v # u, Cancelled(v)
        PROVE  pc'[u] = pc[u] /\ UNCHANGED <<reads, greets>>
    BY <1>3, Moves DEF Cancelled, turn
  <1>4. ASSUME NEW v \in Users, Proceeds(v) PROVE v = u /\ ~Enter(v)
    <2>1. CASE Enter(v)
      BY <2>1, BusyInside DEF Enter, Inside, At, Busy
    <2>2. CASE ~Enter(v)
      <3>1. pc[v] \in Busy
        BY <1>4, <2>2
           DEF Proceeds, Retry, Established, Greeted, Writes, Written, Listened, Fails, Left,
               At, Busy
      <3> QED BY <2>2, <3>1, OneInside
    <2> QED BY <2>1, <2>2
  <1> QED BY <1>1, <1>2, <1>3, <1>4 DEF Next

\* A user inside the lock only ever moves on: its attempts, and what it does in each, are
\* counted, whatever the grill, the radio, the other users and an unload do (ble.py:106-120,
\* 132-153).
THEOREM AttemptsRunOut == Spec => NobodyStays
  <1> DEFINE Stirs(u) == <<pc[u], reads, greets>>' # <<pc[u], reads, greets>>
             Nearer(u) == \/ reads' < reads
                          \/ reads' = reads /\ InAttempt(u)' < InAttempt(u)
  <1>1. ASSUME IInv, [Next]_vars, NEW u \in Users, pc[u] \notin {"ended", "waiting"}, Stirs(u)
        PROVE  Nearer(u)
    <2> USE AttemptsAssumption DEF InAttempt, At
    <2>0. /\ TypeOK /\ LinkInv /\ pc[u] \in Busy /\ pc[u] \in Steps
          /\ reads \in Nat /\ greets \in 0..CONNECT_ATTEMPTS /\ CONNECT_ATTEMPTS \in Nat
      BY <1>1 DEF IInv, TypeOK, Steps, Busy
    <2>1. ASSUME NEW to, Goes(u, to) PROVE pc'[u] = to
      BY <2>0, <2>1, Moves
    <2>2. CASE Cancelled(u)
      <3>1. pc'[u] = "leaving" /\ pc[u] # "leaving" /\ reads' = reads
        BY <1>1, <2>1, <2>2 DEF Cancelled, turn
      <3> QED BY <2>0, <3>1 DEF Busy
    <2>3. CASE Retry(u)
      BY <2>0, <2>3 DEF Retry, Connects
    <2>4. CASE Established(u)
      <3>1. pc[u] = "connecting" /\ pc'[u] = "greeting" /\ UNCHANGED <<reads, greets>>
        BY <2>1, <2>4 DEF Established, turn
      <3> QED BY <2>0, <3>1
    <2>5. CASE Greeted(u)
      <3>1. CASE frames # {}
        <4>1. pc[u] = "greeting" /\ pc'[u] \in {"listening", "writing"} /\ reads' = reads
          BY <2>1, <2>5, <3>1 DEF Greeted
        <4> QED BY <2>0, <4>1
      <3>2. CASE frames = {}
        BY <2>0, <2>5, <3>2 DEF Greeted
      <3> QED BY <3>1, <3>2
    <2>6. CASE Writes(u) \/ Written(u) \/ Listened(u)
      <3>1. /\ reads' = reads
            /\ \/ pc[u] = "writing" /\ pc'[u] = "written"
               \/ pc[u] \in {"written", "listening"} /\ pc'[u] = "leaving"
        BY <2>1, <2>6 DEF Writes, Written, Listened, turn
      <3> QED BY <2>0, <3>1
    <2>7. CASE Fails(u)
      <3>1. /\ pc[u] \in {"connecting", "greeting", "writing", "written", "listening"}
            /\ pc'[u] \in {"retreating", "leaving"} /\ reads' = reads
        BY <2>1, <2>7 DEF Fails, turn
      <3> QED BY <2>0, <3>1
    <2>8. ASSUME NEW ok \in BOOLEAN, Left(u, ok) PROVE Nearer(u)
      <3>1. /\ reads' = reads
            /\ \/ pc[u] = "leaving" /\ pc'[u] = "ended"
               \/ pc[u] = "retreating" /\ pc'[u] = "backoff"
        BY <2>1, <2>8 DEF Left, turn
      <3> QED BY <2>0, <3>1
    <2> QED
      BY <1>1, <2>0, <2>2, <2>3, <2>4, <2>5, <2>6, <2>7, <2>8, OwnSteps DEF Proceeds
  <1>2. IInv /\ [Next]_vars
          => [\A u \in Users : pc[u] \notin {"ended", "waiting"} /\ Stirs(u) => Nearer(u)]_vars
    BY <1>1
  <1> QED BY <1>2, Invariance, PTL DEF Spec, NobodyStays
=============================================================================
