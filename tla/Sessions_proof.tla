--------------------------- MODULE Sessions_proof ---------------------------
(***************************************************************************)
(* Proofs about Sessions, for any calls and tokens and either grant: the   *)
(* locks are kept and taken in one order, a token that is good is not      *)
(* replaced, a request that nothing was revoked under gets its answer, and *)
(* none tries for ever.                                                    *)
(***************************************************************************)
EXTENDS Sessions, SequenceTheorems, TLAPS

\* Who is in a queue, that nobody is there twice, and who is first.
In(q, c) == \E i \in 1..Len(q) : q[i] = c
Once(q) == \A i, j \in 1..Len(q) : q[i] = q[j] => i = j
First(q, c) == q # <<>> /\ Head(q) = c

\* The calls that want an id token, that grant one, and that renew the session of Ayla.
Granting == {"password", "pkce"}
Identifying == {"idToken", "renew"} \cup Granting
RenewingAt(at, to) == \/ at = "refreshing"
                      \/ to = "ayla" /\ at \in Identifying \cup {"signIn"}
WantsAt(at, to, l) == IF l = "auth" THEN at \in Identifying
                                    ELSE at \in {"ensure", "discard"} \/ RenewingAt(at, to)
Renewing(c) == RenewingAt(pc[c], cloud[c])
Wants(c, l) == WantsAt(pc[c], cloud[c], l)

\* The locks: a call is in a queue, once, while it wants the lock, and first in it while
\* it uses what the lock guards.
LockInv ==
    /\ \A l \in Locks : Once(queue[l])
    /\ \A c \in Calls, l \in Locks : Wants(c, l) <=> In(queue[l], c)
    /\ \A c \in Calls : Renewing(c) => Holds(c, "ayla")
    /\ \A c \in Calls : pc[c] \in Granting => Holds(c, "auth")

\* What a call has in hand where it is.
HandOf(c) ==
    /\ At(c, "ended") =>
          using[c] = NoToken /\ access[c] = NoToken /\ ~retried[c] /\ ~resigned[c]
    /\ pc[c] \in {"renew", "signIn"} => using[c] # NoToken
    /\ At(c, "request") => Token(c) # NoToken
    /\ At(c, "renew") => using[c] \notin valid
    /\ At(c, "discard") => access[c] \notin valid /\ access[c] # NoToken
    /\ At(c, "idToken") => ~resigned[c] /\ (cloud[c] = "aws" => ~retried[c])
    /\ pc[c] \in {"ensure", "discard", "refreshing", "signIn"} => cloud[c] = "ayla"

\* A call replaces only what is missing, about to expire or not accepted any more.
ReplacedOf(c) ==
    /\ pc[c] \in Granting => idToken = NoToken \/ idExpiring \/ idToken \notin valid
    /\ Renewing(c) => session = NoToken \/ expiring

\* As long as nothing was revoked: what came in the place of a token that a call has is
\* good, and so is what its second attempt is made with.
OwedOf(c) ==
    owed[c] =>
        /\ ~At(c, "ended")
        /\ using[c] # NoToken /\ idToken \notin {using[c], NoToken} => idToken \in valid
        /\ access[c] # NoToken /\ session \notin {access[c], NoToken} => session \in valid
        /\ At(c, "signIn") /\ resigned[c] => using[c] \in valid
        /\ cloud[c] = "ayla" /\ retried[c] /\ ~At(c, "discard") => session \in valid \cup {NoToken}
        /\ At(c, "request") /\ retried[c] => Token(c) \in valid

CallInv(c) == HandOf(c) /\ ReplacedOf(c) /\ OwedOf(c)
IInv == TypeOK /\ LockInv /\ \A c \in Calls : CallInv(c)
-----------------------------------------------------------------------------
(* The queues.                                                             *)

\* A queue becomes another in which only one call has come, gone or lost its place.
Changed(q, r, c) ==
    /\ r \in Seq(Calls) /\ Once(r)
    /\ \A d \in Calls \ {c} : (In(r, d) <=> In(q, d)) /\ (First(q, d) => First(r, d))

\* The first of a queue is the first element.
LEMMA FirstIs ==
    ASSUME NEW q \in Seq(Calls), NEW c
    PROVE  First(q, c) <=> Len(q) > 0 /\ q[1] = c
  BY LenProperties, EmptySeq DEF First

\* A call joins at the end.
LEMMA Appended ==
    ASSUME NEW q \in Seq(Calls), Once(q), NEW c \in Calls, ~In(q, c)
    PROVE  Changed(q, Append(q, c), c) /\ In(Append(q, c), c)
  <1> DEFINE r == Append(q, c)
             n == Len(q)
  <1>1. /\ r \in Seq(Calls) /\ Len(r) = n + 1 /\ n \in Nat
        /\ \A i \in 1..n : r[i] = q[i]
        /\ r[n + 1] = c
    BY AppendProperties, LenProperties
  <1> HIDE DEF r
  <1>2. Once(r)
    BY <1>1 DEF Once, In
  <1>3. In(r, c)
    BY <1>1 DEF In
  <1>4. ASSUME NEW d \in Calls \ {c}
        PROVE  (In(r, d) <=> In(q, d)) /\ (First(q, d) => First(r, d))
    <2>1. In(r, d) <=> In(q, d)
      BY <1>1 DEF In
    <2>2. First(q, d) => First(r, d)
      BY <1>1, FirstIs
    <2> QED BY <2>1, <2>2
  <1> QED BY <1>1, <1>2, <1>3, <1>4 DEF Changed, r

\* The first call leaves.
LEMMA Tailed ==
    ASSUME NEW q \in Seq(Calls), Once(q), NEW c \in Calls, First(q, c)
    PROVE  Changed(q, Tail(q), c) /\ ~In(Tail(q), c)
  <1> DEFINE r == Tail(q)
             n == Len(q)
  <1>1. n \in Nat /\ n > 0 /\ q[1] = c
    BY FirstIs, LenProperties
  <1>2. /\ r \in Seq(Calls) /\ Len(r) = n - 1
        /\ \A i \in 1..(n - 1) : r[i] = q[i + 1]
    BY <1>1, HeadTailProperties, EmptySeq DEF First
  <1> HIDE DEF r, n
  <1>3. \A i, j \in 1..n : q[i] = q[j] => i = j
    BY DEF Once, n
  <1>4. Once(r)
    BY <1>1, <1>2, <1>3 DEF Once
  <1>5. ~In(r, c)
    BY <1>1, <1>2, <1>3 DEF In
  <1>6. ASSUME NEW d \in Calls \ {c}
        PROVE  (In(r, d) <=> In(q, d)) /\ (First(q, d) => First(r, d))
    <2>1. ASSUME NEW i \in 1..n, q[i] = d PROVE i - 1 \in 1..(n - 1) /\ r[i - 1] = d
      BY <1>1, <1>2, <2>1
    <2>2. ASSUME NEW i \in 1..(n - 1), r[i] = d PROVE i + 1 \in 1..n /\ q[i + 1] = d
      BY <1>1, <1>2, <2>2
    <2>3. In(r, d) <=> In(q, d)
      BY <1>2, <2>1, <2>2 DEF In, n
    <2>4. ~First(q, d)
      BY DEF First
    <2> QED BY <2>3, <2>4
  <1> QED BY <1>2, <1>4, <1>5, <1>6 DEF Changed, r

\* A call is taken out, wherever it is.
LEMMA TakenOut ==
    ASSUME NEW q \in Seq(Calls), Once(q), NEW c \in Calls
    PROVE  Changed(q, Without(q, c), c) /\ ~In(Without(q, c), c)
  <1>1. CASE ~In(q, c)
    <2>1. Without(q, c) = q
      BY <1>1 DEF Without, In
    <2> QED BY <1>1, <2>1 DEF Changed
  <1>2. CASE In(q, c)
    <2> DEFINE k == CHOOSE i \in 1..Len(q) : q[i] = c
               n == Len(q)
               r == Without(q, c)
               front == SubSeq(q, 1, k - 1)
               rest == SubSeq(q, k + 1, n)
    <2>1. k \in 1..n /\ q[k] = c /\ n \in Nat
      BY <1>2, LenProperties DEF In
    <2>2. \A i \in 1..n : q[i] \in Calls
      BY ElementOfSeq
    <2>3. r = front \o rest
      BY <1>2 DEF Without, RemoveAt, In
    <2> HIDE DEF k
    <2>4. /\ front \in Seq(Calls) /\ Len(front) = k - 1
          /\ \A i \in 1..(k - 1) : front[i] = q[i]
      BY <2>1, <2>2, SubSeqProperties
    <2>5. /\ rest \in Seq(Calls) /\ Len(rest) = n - k
          /\ \A i \in 1..(n - k) : rest[i] = q[i + k]
      <3>1. \A i \in (k + 1)..n : q[i] \in Calls
        BY <2>1, <2>2
      <3> HIDE DEF n
      <3> QED BY <2>1, <3>1, SubSeqProperties
    <2> HIDE DEF front, rest, r
    <2>6. ASSUME NEW f \in Seq(Calls), NEW t \in Seq(Calls)
          PROVE  /\ f \o t \in Seq(Calls) /\ Len(f \o t) = Len(f) + Len(t)
                 /\ \A i \in 1..(Len(f) + Len(t)) :
                       (f \o t)[i] = IF i <= Len(f) THEN f[i] ELSE t[i - Len(f)]
      BY ConcatProperties
    <2>7. /\ r \in Seq(Calls) /\ Len(r) = Len(front) + Len(rest)
          /\ \A i \in 1..(Len(front) + Len(rest)) :
                r[i] = IF i <= Len(front) THEN front[i] ELSE rest[i - Len(front)]
      <3>1. front \in Seq(Calls) /\ rest \in Seq(Calls)
        BY <2>4, <2>5
      <3> QED BY ONLY <3>1, <2>3, <2>6
    <2> HIDE DEF n
    <2>8. /\ Len(r) = n - 1
          /\ \A i \in 1..(n - 1) : r[i] = IF i < k THEN q[i] ELSE q[i + 1]
      BY <2>1, <2>4, <2>5, <2>7
    <2>9. \A i, j \in 1..n : q[i] = q[j] => i = j
      BY DEF Once, n
    <2>10. Once(r)
      BY <2>1, <2>8, <2>9 DEF Once
    <2>11. ~In(r, c)
      BY <2>1, <2>8, <2>9 DEF In
    <2>12. ASSUME NEW d \in Calls \ {c}
           PROVE  (In(r, d) <=> In(q, d)) /\ (First(q, d) => First(r, d))
      <3>1. ASSUME NEW i \in 1..n, q[i] = d PROVE \E j \in 1..(n - 1) : r[j] = d
        <4>1. CASE i < k
          BY <2>1, <2>8, <3>1, <4>1
        <4>2. CASE i > k
          <5>1. i - 1 \in 1..(n - 1) /\ r[i - 1] = d
            BY <2>1, <2>8, <3>1, <4>2
          <5> QED BY <5>1
        <4> QED BY <2>1, <3>1, <4>1, <4>2
      <3>2. ASSUME NEW j \in 1..(n - 1), r[j] = d PROVE \E i \in 1..n : q[i] = d
        BY <2>1, <2>8, <3>2
      <3>3. In(r, d) <=> In(q, d)
        BY <2>8, <3>1, <3>2 DEF In, n
      <3>4. ASSUME First(q, d) PROVE First(r, d)
        <4>1. n > 0 /\ q[1] = d
          BY <3>4, FirstIs DEF n
        <4>2. k > 1
          BY <2>1, <4>1
        <4>3. Len(r) > 0 /\ r[1] = d
          BY <2>1, <2>8, <4>1, <4>2
        <4> QED BY <2>7, <4>3, FirstIs
      <3> QED BY <3>3, <3>4
    <2> QED BY <2>7, <2>10, <2>11, <2>12 DEF Changed, r
  <1> QED BY <1>1, <1>2

\* The first call goes to the end.
LEMMA Requeued ==
    ASSUME NEW q \in Seq(Calls), Once(q), NEW c \in Calls, First(q, c)
    PROVE  Changed(q, Append(Tail(q), c), c) /\ In(Append(Tail(q), c), c)
  <1> DEFINE t == Tail(q)
             r == Append(t, c)
  <1>1. Changed(q, t, c) /\ ~In(t, c)
    BY Tailed
  <1>2. t \in Seq(Calls) /\ Once(t)
    BY <1>1 DEF Changed
  <1> HIDE DEF t
  <1>3. Changed(t, r, c) /\ In(r, c)
    BY <1>1, <1>2, Appended
  <1> HIDE DEF r
  <1>4. Changed(q, r, c)
    BY <1>1, <1>3 DEF Changed
  <1> QED BY <1>3, <1>4 DEF r, t
-----------------------------------------------------------------------------
(* The locks.                                                              *)

\* At first nobody waits and nothing is known.
LEMMA InitIInv == Init => IInv
  <1> SUFFICES ASSUME Init PROVE IInv
    OBVIOUS
  <1> USE DEF Init
  <1>1. TypeOK
    <2>1. queue \in [Locks -> Seq(Calls)]
      BY EmptySeq
    <2> QED BY <2>1 DEF TypeOK
  <1>2. LockInv
    BY DEF LockInv, Once, In, Wants, Renewing, WantsAt, RenewingAt, Identifying, Granting
  <1>3. \A c \in Calls : CallInv(c)
    BY DEF CallInv, HandOf, ReplacedOf, OwedOf, At, Renewing, RenewingAt, Identifying, Granting
  <1> QED BY <1>1, <1>2, <1>3 DEF IInv

\* A step of one call keeps the order if the call is in the queues of what it then wants.
LEMMA LockKept ==
    ASSUME TypeOK, LockInv, NEW c \in Calls, NEW to, Goes(c, to), cloud' = cloud,
           queue' \in [Locks -> Seq(Calls)],
           \A l \in Locks : Changed(queue[l], queue'[l], c),
           \A l \in Locks : WantsAt(to, cloud[c], l) <=> In(queue'[l], c),
           RenewingAt(to, cloud[c]) => First(queue'["ayla"], c),
           to \in Granting => First(queue'["auth"], c)
    PROVE  LockInv'
  <1>1. \A d \in Calls : pc'[d] = IF d = c THEN to ELSE pc[d]
    BY DEF Goes, TypeOK
  <1>2. \A l \in Locks : Once(queue'[l])
    BY DEF Changed
  <1>3. ASSUME NEW d \in Calls, NEW l \in Locks PROVE Wants(d, l)' <=> In(queue'[l], d)
    <2>1. CASE d = c
      BY <1>1, <2>1 DEF Wants
    <2>2. CASE d # c
      BY <1>1, <2>2 DEF Wants, LockInv, Changed
    <2> QED BY <2>1, <2>2
  <1>4. ASSUME NEW d \in Calls, Renewing(d)' PROVE First(queue'["ayla"], d)
    <2>1. CASE d = c
      BY <1>1, <1>4, <2>1 DEF Renewing
    <2>2. CASE d # c
      BY <1>1, <1>4, <2>2 DEF Renewing, LockInv, Changed, First, Holds, Locks
    <2> QED BY <2>1, <2>2
  <1>5. ASSUME NEW d \in Calls, pc'[d] \in Granting PROVE First(queue'["auth"], d)
    <2>1. CASE d = c
      BY <1>1, <1>5, <2>1
    <2>2. CASE d # c
      BY <1>1, <1>5, <2>2 DEF LockInv, Changed, First, Holds, Locks
    <2> QED BY <2>1, <2>2
  <1> QED BY <1>2, <1>3, <1>4, <1>5 DEF LockInv, Holds, First

\* A call that does not want a lock yet waits for it.
LEMMA Joins ==
    ASSUME TypeOK, LockInv, NEW c \in Calls, NEW l \in Locks, ~Wants(c, l),
           queue' = [queue EXCEPT ![l] = Append(@, c)]
    PROVE  /\ queue' \in [Locks -> Seq(Calls)]
           /\ \A k \in Locks : Changed(queue[k], queue'[k], c)
           /\ In(queue'[l], c)
           /\ \A k \in Locks \ {l} : queue'[k] = queue[k]
  <1>1. queue[l] \in Seq(Calls) /\ Once(queue[l]) /\ ~In(queue[l], c)
    BY DEF TypeOK, LockInv
  <1>2. Changed(queue[l], Append(queue[l], c), c) /\ In(Append(queue[l], c), c)
    BY <1>1, Appended
  <1>3. queue'[l] = Append(queue[l], c) /\ \A k \in Locks \ {l} : queue'[k] = queue[k]
    BY DEF TypeOK
  <1>4. \A k \in Locks \ {l} : Changed(queue[k], queue'[k], c)
    BY <1>3 DEF TypeOK, LockInv, Changed
  <1>5. queue' \in [Locks -> Seq(Calls)]
    BY <1>2 DEF TypeOK, Changed
  <1> QED BY <1>2, <1>3, <1>4, <1>5

\* The call that holds a lock leaves it.
LEMMA Frees ==
    ASSUME TypeOK, LockInv, NEW c \in Calls, NEW l \in Locks, Holds(c, l), Releases(l)
    PROVE  /\ queue' \in [Locks -> Seq(Calls)]
           /\ \A k \in Locks : Changed(queue[k], queue'[k], c)
           /\ ~In(queue'[l], c)
           /\ \A k \in Locks \ {l} : queue'[k] = queue[k]
  <1>1. queue[l] \in Seq(Calls) /\ Once(queue[l]) /\ First(queue[l], c)
    BY DEF TypeOK, LockInv, Holds, First
  <1>2. Changed(queue[l], Tail(queue[l]), c) /\ ~In(Tail(queue[l]), c)
    BY <1>1, Tailed
  <1>3. queue'[l] = Tail(queue[l]) /\ \A k \in Locks \ {l} : queue'[k] = queue[k]
    BY DEF TypeOK, Releases
  <1>4. \A k \in Locks \ {l} : Changed(queue[k], queue'[k], c)
    BY <1>3 DEF TypeOK, LockInv, Changed
  <1>5. queue' \in [Locks -> Seq(Calls)]
    BY <1>2 DEF TypeOK, Changed, Releases
  <1> QED BY <1>2, <1>3, <1>4, <1>5

\* A call that ends is in no queue.
LEMMA EndsLeaves ==
    ASSUME TypeOK, LockInv, NEW c \in Calls, Ends(c), cloud' = cloud
    PROVE  queue' \in [Locks -> Seq(Calls)] /\ LockInv'
  <1>1. \A l \in Locks : queue[l] \in Seq(Calls) /\ Once(queue[l])
    BY DEF TypeOK, LockInv
  <1>2. \A l \in Locks : Changed(queue[l], Without(queue[l], c), c) /\ ~In(Without(queue[l], c), c)
    BY <1>1, TakenOut
  <1>3. \A l \in Locks : queue'[l] = Without(queue[l], c)
    BY DEF Ends
  <1>4. queue' \in [Locks -> Seq(Calls)]
    BY <1>2 DEF Ends, Changed
  <1>5. Goes(c, "ended")
    BY DEF Ends
  <1>6. ~RenewingAt("ended", cloud[c]) /\ \A l \in Locks : ~WantsAt("ended", cloud[c], l)
    BY DEF RenewingAt, WantsAt, Identifying, Granting
  <1>7. "ended" \notin Granting
    BY DEF Granting
  <1> QED BY <1>2, <1>3, <1>4, <1>5, <1>6, <1>7, LockKept
\* A call that goes on with what it holds keeps its places.
LEMMA StaysPut ==
    ASSUME TypeOK, LockInv, NEW c \in Calls, NEW to, Goes(c, to), UNCHANGED <<cloud, queue>>,
           \A l \in Locks : WantsAt(to, cloud[c], l) <=> Wants(c, l),
           RenewingAt(to, cloud[c]) => Holds(c, "ayla"),
           to \in Granting => Holds(c, "auth")
    PROVE  queue' \in [Locks -> Seq(Calls)] /\ LockInv'
  <1>1. queue' \in [Locks -> Seq(Calls)] /\ \A l \in Locks : Changed(queue[l], queue'[l], c)
    BY DEF TypeOK, LockInv, Changed
  <1>2. \A l \in Locks : Wants(c, l) <=> In(queue'[l], c)
    BY DEF LockInv
  <1> QED BY <1>1, <1>2, LockKept DEF Holds, First

\* A call that waits for the lock of the id token, maybe inside the lock of Ayla.
LEMMA WaitsForAuth ==
    ASSUME TypeOK, LockInv, NEW c \in Calls, NEW to \in {"idToken", "renew"},
           Waits(c, "auth", to), cloud' = cloud, pc[c] \notin Identifying,
           cloud[c] = "ayla" <=> Wants(c, "ayla"),
           cloud[c] = "ayla" => Holds(c, "ayla")
    PROVE  queue' \in [Locks -> Seq(Calls)] /\ LockInv'
  <1>1. /\ queue' \in [Locks -> Seq(Calls)]
        /\ \A k \in Locks : Changed(queue[k], queue'[k], c)
        /\ In(queue'["auth"], c) /\ queue'["ayla"] = queue["ayla"]
    BY Joins DEF Waits, Wants, WantsAt, Locks
  <1>2. In(queue'["ayla"], c) <=> cloud[c] = "ayla"
    BY <1>1 DEF LockInv, Locks
  <1>3. WantsAt(to, cloud[c], "auth") /\ to \notin Granting
        /\ (WantsAt(to, cloud[c], "ayla") <=> cloud[c] = "ayla")
        /\ (RenewingAt(to, cloud[c]) <=> cloud[c] = "ayla")
    BY DEF WantsAt, RenewingAt, Identifying, Granting
  <1> QED BY <1>1, <1>2, <1>3, LockKept DEF Waits, Locks, Holds, First

\* A call that has its id token leaves the lock of it.
LEMMA UsesIdFrees ==
    ASSUME TypeOK, LockInv, NEW c \in Calls, NEW t, UsesId(c, t), cloud' = cloud,
           pc[c] \in Identifying, Holds(c, "auth")
    PROVE  queue' \in [Locks -> Seq(Calls)] /\ LockInv'
  <1>1. /\ queue' \in [Locks -> Seq(Calls)]
        /\ \A k \in Locks : Changed(queue[k], queue'[k], c)
        /\ ~In(queue'["auth"], c) /\ queue'["ayla"] = queue["ayla"]
    BY Frees DEF UsesId, Locks
  <1>2. cloud[c] \in {"ayla", "aws"} /\ (Renewing(c) <=> cloud[c] = "ayla")
        /\ (In(queue["ayla"], c) <=> cloud[c] = "ayla")
    BY DEF TypeOK, LockInv, Locks, Renewing, RenewingAt, Wants, WantsAt, Identifying, Granting
  <1> DEFINE to == IF cloud[c] = "ayla" THEN "signIn" ELSE "request"
  <1>3. Goes(c, to)
    BY DEF UsesId
  <1>4. ~WantsAt(to, cloud[c], "auth") /\ to \notin Granting
        /\ (WantsAt(to, cloud[c], "ayla") <=> cloud[c] = "ayla")
        /\ (RenewingAt(to, cloud[c]) <=> cloud[c] = "ayla")
    BY <1>2 DEF WantsAt, RenewingAt, Identifying, Granting
  <1>5. cloud[c] = "ayla" => First(queue'["ayla"], c)
    BY <1>1, <1>2 DEF LockInv, Holds, First
  <1> HIDE DEF to
  <1> QED BY <1>1, <1>2, <1>3, <1>4, <1>5, LockKept DEF Locks

\* A call that has its session leaves the lock of Ayla.
LEMMA StoreFrees ==
    ASSUME TypeOK, LockInv, NEW c \in Calls, Goes(c, "request"), Releases("ayla"), cloud' = cloud,
           pc[c] \notin Identifying, Holds(c, "ayla")
    PROVE  queue' \in [Locks -> Seq(Calls)] /\ LockInv'
  <1>1. /\ queue' \in [Locks -> Seq(Calls)]
        /\ \A k \in Locks : Changed(queue[k], queue'[k], c)
        /\ ~In(queue'["ayla"], c) /\ queue'["auth"] = queue["auth"]
    BY Frees DEF Locks
  <1>2. ~In(queue["auth"], c)
    BY DEF LockInv, Locks, Wants, WantsAt
  <1>3. ~RenewingAt("request", cloud[c]) /\ "request" \notin Granting
        /\ \A l \in Locks : ~WantsAt("request", cloud[c], l)
    BY DEF WantsAt, RenewingAt, Identifying, Granting
  <1> QED BY <1>1, <1>2, <1>3, LockKept DEF Locks

\* Every step keeps the locks in order.
LEMMA LockStep ==
    ASSUME IInv, [Next]_vars
    PROVE  queue' \in [Locks -> Seq(Calls)] /\ LockInv'
  <1> USE DEF IInv
  <1> DEFINE Kept == queue' \in [Locks -> Seq(Calls)] /\ LockInv'
  <1>1. CASE Revoke \/ Expire \/ UNCHANGED vars
    <2>1. UNCHANGED <<cloud, queue, pc>>
      BY <1>1 DEF Revoke, Expire, vars
    <2> QED BY <2>1 DEF LockInv, TypeOK, Wants, Renewing, Holds
  <1>2. ASSUME NEW c \in Calls, Begin(c) PROVE Kept
    <2>1. At(c, "ended") /\ cloud' = cloud /\ ~Wants(c, "ayla") /\ ~Wants(c, "auth")
      BY <1>2 DEF Begin, At, Wants, WantsAt, RenewingAt, Identifying, Granting
    <2>2. CASE cloud[c] = "ayla"
      <3>1. Waits(c, "ayla", "ensure")
        BY <1>2, <2>2 DEF Begin
      <3>2. /\ queue' \in [Locks -> Seq(Calls)]
            /\ \A k \in Locks : Changed(queue[k], queue'[k], c)
            /\ In(queue'["ayla"], c) /\ ~In(queue'["auth"], c)
        BY <2>1, <3>1, Joins DEF Waits, Locks, LockInv
      <3>3. WantsAt("ensure", cloud[c], "ayla") /\ ~WantsAt("ensure", cloud[c], "auth")
            /\ ~RenewingAt("ensure", cloud[c]) /\ "ensure" \notin Granting
        BY DEF WantsAt, RenewingAt, Identifying, Granting
      <3> QED BY <2>1, <3>1, <3>2, <3>3, LockKept DEF Waits, Locks
    <2>3. CASE cloud[c] # "ayla"
      <3>1. Waits(c, "auth", "idToken") /\ pc[c] \notin Identifying
        BY <1>2, <2>3 DEF Begin, At, Identifying, Granting
      <3> QED BY <2>1, <2>3, <3>1, WaitsForAuth
    <2> QED BY <2>2, <2>3
  <1>3. ASSUME NEW c \in Calls, GivesUp(c) \/ Answered(c) \/ Fails(c) PROVE Kept
    BY <1>3, EndsLeaves DEF GivesUp, Answered, Fails
  <1>4. ASSUME NEW c \in Calls, Ensure(c) PROVE Kept
    <2>1. /\ At(c, "ensure") /\ Holds(c, "ayla") /\ cloud[c] = "ayla" /\ cloud' = cloud
          /\ pc[c] \notin Identifying /\ Wants(c, "ayla") /\ ~Wants(c, "auth")
      BY <1>4 DEF Ensure, At, CallInv, HandOf, Wants, WantsAt, RenewingAt, Identifying, Granting
    <2>2. CASE Waits(c, "auth", "idToken")
      BY <2>1, <2>2, WaitsForAuth
    <2>3. CASE Goes(c, "refreshing") /\ queue' = queue
      <3>1. WantsAt("refreshing", cloud[c], "ayla") /\ ~WantsAt("refreshing", cloud[c], "auth")
            /\ "refreshing" \notin Granting
        BY DEF WantsAt, RenewingAt, Identifying, Granting
      <3> QED BY <2>1, <2>3, <3>1, StaysPut DEF Locks
    <2>4. CASE Goes(c, "request") /\ Releases("ayla")
      BY <2>1, <2>4, StoreFrees
    <2> QED BY <1>4, <2>2, <2>3, <2>4 DEF Ensure
  <1>5. ASSUME NEW c \in Calls, Refreshed(c) \/ SignedIn(c) PROVE Kept
    <2>1. Renewing(c) /\ pc[c] \notin Identifying /\ cloud' = cloud
      BY <1>5 DEF Refreshed, SignedIn, At, Renewing, RenewingAt, Identifying, Granting, CallInv, HandOf
    <2>2. Goes(c, "request") /\ Releases("ayla")
      BY <1>5 DEF Refreshed, SignedIn, StoreSession
    <2> QED BY <2>1, <2>2, StoreFrees DEF LockInv
  <1>6. ASSUME NEW c \in Calls, RefreshRefused(c) \/ SignInRejected(c) PROVE Kept
    <2>1. Renewing(c) /\ pc[c] \notin Identifying /\ cloud[c] = "ayla" /\ Wants(c, "ayla")
          /\ cloud' = cloud
      BY <1>6 DEF RefreshRefused, SignInRejected, At, Renewing, RenewingAt, Identifying, Granting,
                  CallInv, HandOf, Wants, WantsAt
    <2>2. Holds(c, "ayla")
      BY <2>1 DEF LockInv
    <2>3. \E to \in {"idToken", "renew"} : Waits(c, "auth", to)
      BY <1>6 DEF RefreshRefused, SignInRejected
    <2> QED BY <2>1, <2>2, <2>3, WaitsForAuth
  <1>7. ASSUME NEW c \in Calls, GetIdToken(c) \/ Renew(c) PROVE Kept
    <2>1. pc[c] \in {"idToken", "renew"} /\ pc[c] \in Identifying /\ Holds(c, "auth")
          /\ cloud' = cloud
      BY <1>7 DEF GetIdToken, Renew, At, Identifying
    <2>2. CASE Goes(c, FirstGrant) /\ queue' = queue
      <3>1. /\ \A l \in Locks : WantsAt(FirstGrant, cloud[c], l) <=> Wants(c, l)
            /\ RenewingAt(FirstGrant, cloud[c]) <=> Renewing(c)
        BY <2>1, GrantAssumption
           DEF Wants, WantsAt, Renewing, RenewingAt, Identifying, Granting
      <3> QED BY <2>1, <2>2, <3>1, StaysPut DEF LockInv
    <2>3. CASE UsesId(c, idToken)
      BY <2>1, <2>3, UsesIdFrees
    <2> QED BY <1>7, <2>2, <2>3 DEF GetIdToken, Renew
  <1>8. ASSUME NEW c \in Calls, GrantRefused(c) PROVE Kept
    <2>1. At(c, "password") /\ Goes(c, "pkce") /\ UNCHANGED <<cloud, queue>>
      BY <1>8 DEF GrantRefused
    <2>2. /\ \A l \in Locks : WantsAt("pkce", cloud[c], l) <=> Wants(c, l)
          /\ RenewingAt("pkce", cloud[c]) <=> Renewing(c)
      BY <2>1 DEF Wants, WantsAt, Renewing, RenewingAt, Identifying, Granting, At
    <2> QED BY <2>1, <2>2, StaysPut DEF LockInv, Granting, At
  <1>9. ASSUME NEW c \in Calls, Granted(c) PROVE Kept
    <2>1. pc[c] \in Granting /\ pc[c] \in Identifying /\ UsesId(c, idToken') /\ cloud' = cloud
      BY <1>9 DEF Granted, Granting, Identifying
    <2> QED BY <2>1, UsesIdFrees DEF LockInv
  <1>10. ASSUME NEW c \in Calls, Rejected(c) PROVE Kept
    <2>1. At(c, "request") /\ cloud' = cloud /\ pc[c] \notin Identifying
          /\ ~Wants(c, "ayla") /\ ~Wants(c, "auth")
      BY <1>10 DEF Rejected, At, Wants, WantsAt, RenewingAt, Identifying, Granting
    <2>2. CASE cloud[c] = "ayla"
      <3>1. Waits(c, "ayla", "discard")
        BY <1>10, <2>2 DEF Rejected
      <3>2. /\ queue' \in [Locks -> Seq(Calls)]
            /\ \A k \in Locks : Changed(queue[k], queue'[k], c)
            /\ In(queue'["ayla"], c) /\ ~In(queue'["auth"], c)
        BY <2>1, <3>1, Joins DEF Waits, Locks, LockInv
      <3>3. WantsAt("discard", cloud[c], "ayla") /\ ~WantsAt("discard", cloud[c], "auth")
            /\ ~RenewingAt("discard", cloud[c]) /\ "discard" \notin Granting
        BY DEF WantsAt, RenewingAt, Identifying, Granting
      <3> QED BY <2>1, <3>1, <3>2, <3>3, LockKept DEF Waits, Locks
    <2>3. CASE cloud[c] # "ayla"
      <3>1. Waits(c, "auth", "renew")
        BY <1>10, <2>3 DEF Rejected
      <3> QED BY <2>1, <2>3, <3>1, WaitsForAuth
    <2> QED BY <2>2, <2>3
  <1>11. ASSUME NEW c \in Calls, Discard(c) PROVE Kept
    <2>1. At(c, "discard") /\ Holds(c, "ayla") /\ Again(c) /\ cloud' = cloud
          /\ ~Wants(c, "auth")
      BY <1>11 DEF Discard, At, Wants, WantsAt, Identifying, Granting
    <2>2. queue["ayla"] \in Seq(Calls) /\ Once(queue["ayla"]) /\ First(queue["ayla"], c)
      BY <2>1 DEF TypeOK, LockInv, Holds, First, Locks
    <2>3. queue'["ayla"] = Append(Tail(queue["ayla"]), c) /\ queue'["auth"] = queue["auth"]
      BY <2>1 DEF Again, TypeOK, Locks
    <2>4. Changed(queue["ayla"], queue'["ayla"], c) /\ In(queue'["ayla"], c)
      BY <2>2, <2>3, Requeued
    <2>5. Changed(queue["auth"], queue'["auth"], c) /\ ~In(queue'["auth"], c)
      BY <2>1, <2>3 DEF TypeOK, LockInv, Changed, Locks
    <2>6. queue' \in [Locks -> Seq(Calls)]
      <3>1. queue' \in [Locks -> {queue'["ayla"], queue'["auth"]}]
        BY <2>1, <2>3 DEF Again, TypeOK, Locks
      <3> QED BY <2>4, <2>5, <3>1 DEF Changed
    <2>7. WantsAt("ensure", cloud[c], "ayla") /\ ~WantsAt("ensure", cloud[c], "auth")
          /\ ~RenewingAt("ensure", cloud[c]) /\ "ensure" \notin Granting
      BY DEF WantsAt, RenewingAt, Identifying, Granting
    <2> QED BY <2>1, <2>4, <2>5, <2>6, <2>7, LockKept DEF Again, Locks
  <1> QED BY <1>1, <1>2, <1>3, <1>4, <1>5, <1>6, <1>7, <1>8, <1>9, <1>10, <1>11
          DEF Next, Proceeds
-----------------------------------------------------------------------------
(* The tokens.                                                             *)

\* A token that is issued is new to everyone; of the others those that somebody has are as
\* good or bad as before.
LEMMA IssuesNew ==
    ASSUME NEW tokens, Issues(tokens)
    PROVE  /\ New(tokens) \in tokens \ Held
           /\ valid' = (valid \cap Held) \cup {New(tokens)}
  BY DEF Issues, New

\* Every variable keeps its type.
LEMMA TypeStep ==
    ASSUME IInv, [Next]_vars
    PROVE  TypeOK'
  <1> USE TokensAssumption DEF IInv
  <1>1. queue' \in [Locks -> Seq(Calls)]
    BY LockStep
  <1> HIDE DEF IInv
  <1>0. TypeOK
    BY DEF IInv
  <1>2. CASE Revoke \/ Expire \/ UNCHANGED vars
    BY <1>0, <1>1, <1>2 DEF Revoke, Expire, vars, auth0, ayla, attempts, TypeOK
  <1> USE DEF Goes, Waits
  <1>3. ASSUME NEW c \in Calls, Begin(c) PROVE TypeOK'
    BY <1>0, <1>1, <1>3 DEF Begin, auth0, ayla, attempts, TypeOK
  <1>4. ASSUME NEW c \in Calls, GivesUp(c) \/ Answered(c) \/ Fails(c) PROVE TypeOK'
    BY <1>0, <1>1, <1>4 DEF GivesUp, Answered, Fails, Ends, Forgets, auth0, ayla, TypeOK
  <1>5. ASSUME NEW c \in Calls, Ensure(c) PROVE TypeOK'
    BY <1>0, <1>1, <1>5 DEF Ensure, auth0, ayla, TypeOK
  <1>6. ASSUME NEW c \in Calls, Refreshed(c) \/ SignedIn(c) PROVE TypeOK'
    <2>1. /\ New(AccessTokens) \in AccessTokens
          /\ valid' = (valid \cap Held) \cup {New(AccessTokens)}
      BY <1>6, IssuesNew DEF Refreshed, SignedIn, StoreSession
    <2>2. /\ session' = New(AccessTokens) /\ expiring' = FALSE
          /\ access' = [access EXCEPT ![c] = New(AccessTokens)]
          /\ using' = [using EXCEPT ![c] = NoToken] /\ pc' = [pc EXCEPT ![c] = "request"]
          /\ UNCHANGED <<cloud, idToken, idExpiring, retried, resigned, owed>>
      BY <1>6 DEF Refreshed, SignedIn, StoreSession, auth0, attempts
    <2>3. valid' \subseteq IdTokens \cup AccessTokens
      BY <1>0, <2>1 DEF TypeOK
    <2> QED BY <1>0, <1>1, <2>1, <2>2, <2>3 DEF TypeOK
  <1>7. ASSUME NEW c \in Calls, RefreshRefused(c) \/ SignInRejected(c) \/ GrantRefused(c)
        PROVE  TypeOK'
    BY <1>0, <1>1, <1>7
       DEF RefreshRefused, SignInRejected, GrantRefused, auth0, ayla, attempts, TypeOK
  <1>8. ASSUME NEW c \in Calls, GetIdToken(c) \/ Renew(c) PROVE TypeOK'
    BY <1>0, <1>1, <1>8, GrantAssumption
       DEF GetIdToken, Renew, UsesId, auth0, ayla, attempts, TypeOK
  <1>9. ASSUME NEW c \in Calls, Granted(c) PROVE TypeOK'
    <2>1. /\ New(IdTokens) \in IdTokens
          /\ valid' = (valid \cap Held) \cup {New(IdTokens)}
      BY <1>9, IssuesNew DEF Granted
    <2> QED BY <1>0, <1>1, <1>9, <2>1 DEF Granted, UsesId, ayla, attempts, TypeOK
  <1>10. ASSUME NEW c \in Calls, Rejected(c) \/ Discard(c) PROVE TypeOK'
    BY <1>0, <1>1, <1>10 DEF Rejected, Discard, Again, auth0, ayla, attempts, TypeOK
  <1> QED BY <1>2, <1>3, <1>4, <1>5, <1>6, <1>7, <1>8, <1>9, <1>10 DEF Next, Proceeds

Steps(c) == Begin(c) \/ GivesUp(c) \/ Proceeds(c)

\* A step of one call changes nothing that another call has.
LEMMA OthersKept ==
    ASSUME TypeOK, NEW c \in Calls, Steps(c)
    PROVE  /\ cloud' = cloud
           /\ \A d \in Calls \ {c} :
                 /\ pc'[d] = pc[d] /\ using'[d] = using[d] /\ access'[d] = access[d]
                 /\ retried'[d] = retried[d] /\ resigned'[d] = resigned[d] /\ owed'[d] = owed[d]
  <1> DEFINE Kept == /\ cloud' = cloud
                     /\ \A d \in Calls \ {c} :
                           /\ pc'[d] = pc[d] /\ using'[d] = using[d] /\ access'[d] = access[d]
                           /\ retried'[d] = retried[d] /\ resigned'[d] = resigned[d]
                           /\ owed'[d] = owed[d]
  <1> USE DEF TypeOK, Goes, Waits, attempts
  <1>1. CASE Begin(c) \/ RefreshRefused(c) \/ SignInRejected(c) \/ GrantRefused(c)
             \/ Rejected(c) \/ Discard(c)
    BY <1>1 DEF Begin, RefreshRefused, SignInRejected, GrantRefused, Rejected, Discard, Again
  <1>2. CASE GivesUp(c) \/ Answered(c) \/ Fails(c)
    BY <1>2 DEF GivesUp, Answered, Fails, Ends, Forgets
  <1>3. CASE Ensure(c) \/ Refreshed(c) \/ SignedIn(c)
    BY <1>3 DEF Ensure, Refreshed, SignedIn, StoreSession
  <1>4. CASE GetIdToken(c) \/ Renew(c) \/ Granted(c)
    BY <1>4 DEF GetIdToken, Renew, Granted, UsesId
  <1> QED BY <1>1, <1>2, <1>3, <1>4 DEF Steps, Proceeds

\* What a step of a call does to the two sessions: a token is replaced by a good one, by
\* the call that holds its lock, and no other token becomes good or bad.
LEMMA SessionsKept ==
    ASSUME IInv, NEW c \in Calls, Steps(c)
    PROVE  /\ \A t \in Held : t \in valid' <=> t \in valid
           /\ UNCHANGED auth0 \/ (idToken' \in valid' /\ pc[c] \in Granting)
           /\ \/ UNCHANGED ayla
              \/ session' \in valid' \cup {NoToken} /\ Holds(c, "ayla")
                 /\ (Renewing(c) \/ (At(c, "discard") /\ session = access[c]))
  <1> USE DEF IInv
  <1> DEFINE Kept == /\ \A t \in Held : t \in valid' <=> t \in valid
                     /\ UNCHANGED auth0 \/ (idToken' \in valid' /\ pc[c] \in Granting)
                     /\ \/ UNCHANGED ayla
                        \/ session' \in valid' \cup {NoToken} /\ Holds(c, "ayla")
                           /\ (Renewing(c) \/ (At(c, "discard") /\ session = access[c]))
  <1>1. CASE UNCHANGED <<auth0, ayla, valid>>
    BY <1>1
  <1>2. CASE Refreshed(c) \/ SignedIn(c)
    <2>1. /\ New(AccessTokens) \notin Held
          /\ valid' = (valid \cap Held) \cup {New(AccessTokens)}
      BY <1>2, IssuesNew DEF Refreshed, SignedIn, StoreSession
    <2>2. session' = New(AccessTokens) /\ UNCHANGED auth0
      BY <1>2 DEF Refreshed, SignedIn, StoreSession
    <2>3. Renewing(c)
      BY <1>2 DEF Refreshed, SignedIn, At, Renewing, RenewingAt, CallInv, HandOf
    <2> QED BY <2>1, <2>2, <2>3 DEF LockInv
  <1>3. CASE Granted(c)
    <2>1. /\ New(IdTokens) \notin Held
          /\ valid' = (valid \cap Held) \cup {New(IdTokens)}
      BY <1>3, IssuesNew DEF Granted
    <2> QED BY <1>3, <2>1 DEF Granted, Granting
  <1>4. CASE Discard(c)
    BY <1>4 DEF Discard, ayla, auth0
  <1> QED BY <1>1, <1>2, <1>3, <1>4
          DEF Steps, Proceeds, Begin, GivesUp, Ensure, RefreshRefused, GetIdToken, Renew,
              GrantRefused, SignInRejected, Answered, Rejected, Fails
-----------------------------------------------------------------------------
(* The calls.                                                              *)

\* Nothing that a call has and nothing that the sessions have is issued again.
LEMMA HeldByAll ==
    /\ idToken \in Held /\ session \in Held
    /\ \A c \in Calls : using[c] \in Held /\ access[c] \in Held
  BY DEF Held

\* The step of a call keeps what every other call relies on.
LEMMA OthersStep ==
    ASSUME IInv, NEW c \in Calls, Steps(c), NEW d \in Calls \ {c}
    PROVE  CallInv(d)'
  <1> USE DEF IInv
  <1>0. /\ TypeOK /\ HandOf(d) /\ ReplacedOf(d) /\ OwedOf(d) /\ d \in Calls
    BY DEF CallInv
  <1>1. /\ cloud' = cloud /\ pc'[d] = pc[d] /\ using'[d] = using[d] /\ access'[d] = access[d]
        /\ retried'[d] = retried[d] /\ resigned'[d] = resigned[d] /\ owed'[d] = owed[d]
    BY OthersKept
  <1>2. \A t \in {idToken, session, using[d], access[d]} : t \in valid' <=> t \in valid
    BY SessionsKept, HeldByAll
  <1>3. UNCHANGED auth0 \/ (idToken' \in valid' /\ pc[d] \notin Granting)
    <2>1. pc[c] \in Granting /\ pc[d] \in Granting => FALSE
      BY DEF LockInv, Holds
    <2> QED BY <2>1, SessionsKept
  <1>4. UNCHANGED ayla \/ (session' \in valid' \cup {NoToken} /\ ~Renewing(d))
    <2>1. Holds(c, "ayla") /\ Renewing(d) => FALSE
      BY DEF LockInv, Holds
    <2> QED BY <2>1, SessionsKept
  <1> HIDE DEF IInv
  <1>5. HandOf(d)'
    BY <1>0, <1>1, <1>2 DEF HandOf, At, Token
  <1>6. ReplacedOf(d)'
    <2>1. Renewing(d)' <=> Renewing(d)
      BY <1>1 DEF Renewing
    <2> QED BY <1>0, <1>1, <1>2, <1>3, <1>4, <2>1 DEF ReplacedOf, auth0, ayla
  <1>7. OwedOf(d)'
    BY <1>0, <1>1, <1>2, <1>3, <1>4 DEF OwedOf, At, Token, auth0, ayla
  <1> QED BY <1>5, <1>6, <1>7 DEF CallInv

\* A call that ends was not owed an answer, or has got it.
LEMMA EndStep ==
    ASSUME IInv, NEW c \in Calls, GivesUp(c) \/ Answered(c) \/ Fails(c)
    PROVE  CallInv(c)'
  <1> USE DEF IInv
  <1>1. /\ pc'[c] = "ended" /\ using'[c] = NoToken /\ access'[c] = NoToken
        /\ ~retried'[c] /\ ~resigned'[c]
    BY DEF GivesUp, Answered, Fails, Ends, Forgets, Goes, TypeOK
  <1>2. ~owed'[c]
    <2>1. CASE GivesUp(c) \/ Answered(c)
      BY <2>1 DEF GivesUp, Answered, TypeOK
    <2>2. CASE Fails(c)
      BY <2>2 DEF Fails, CallInv, OwedOf, At
    <2> QED BY <2>1, <2>2
  <1>3. HandOf(c)'
    BY <1>1 DEF HandOf, At
  <1>4. ReplacedOf(c)'
    BY <1>1 DEF ReplacedOf, Renewing, RenewingAt, Identifying, Granting
  <1>5. OwedOf(c)'
    BY <1>2 DEF OwedOf
  <1> QED BY <1>3, <1>4, <1>5 DEF CallInv

\* A call begins with nothing in hand.
LEMMA BeginStep ==
    ASSUME IInv, NEW c \in Calls, Begin(c)
    PROVE  CallInv(c)'
  <1> USE DEF IInv
  <1>0. HandOf(c) /\ At(c, "ended") /\ cloud[c] \in {"ayla", "aws"}
    BY DEF CallInv, Begin, TypeOK
  <1>1. /\ pc'[c] = IF cloud[c] = "ayla" THEN "ensure" ELSE "idToken"
        /\ UNCHANGED <<cloud, using, access, retried, resigned>>
    BY DEF Begin, Waits, Goes, TypeOK, attempts
  <1>2. using'[c] = NoToken /\ access'[c] = NoToken /\ ~retried'[c] /\ ~resigned'[c]
    BY <1>0, <1>1 DEF HandOf
  <1>3. HandOf(c)'
    BY <1>0, <1>1, <1>2 DEF HandOf, At
  <1>4. ReplacedOf(c)'
    BY <1>0, <1>1 DEF ReplacedOf, Renewing, RenewingAt, Identifying, Granting
  <1>5. OwedOf(c)'
    BY <1>0, <1>1, <1>2 DEF OwedOf, At
  <1> QED BY <1>3, <1>4, <1>5 DEF CallInv

\* The session is looked at, signed in for, renewed, or used.
LEMMA EnsureStep ==
    ASSUME IInv, NEW c \in Calls, Ensure(c)
    PROVE  CallInv(c)'
  <1> USE DEF IInv
  <1>0. HandOf(c) /\ OwedOf(c) /\ At(c, "ensure") /\ cloud[c] = "ayla"
    BY DEF CallInv, HandOf, Ensure, At
  <1>1. UNCHANGED <<cloud, idToken, idExpiring, session, expiring, valid, retried, using, owed>>
    BY DEF Ensure, auth0, ayla, TypeOK
  <1>2. CASE session = NoToken /\ Waits(c, "auth", "idToken") /\ UNCHANGED access
             /\ resigned' = [resigned EXCEPT ![c] = FALSE]
    <2>1. pc'[c] = "idToken" /\ ~resigned'[c] /\ access'[c] = access[c]
      BY <1>2 DEF Waits, Goes, TypeOK
    <2> QED BY <1>0, <1>1, <1>2, <2>1
            DEF CallInv, HandOf, ReplacedOf, OwedOf, At, Renewing, RenewingAt, Identifying, Granting
  <1>3. CASE session # NoToken /\ expiring /\ Goes(c, "refreshing")
             /\ UNCHANGED <<queue, resigned, access>>
    <2>1. pc'[c] = "refreshing" /\ UNCHANGED <<resigned, access>>
      BY <1>3 DEF Goes, TypeOK
    <2> QED BY <1>0, <1>1, <1>3, <2>1
            DEF CallInv, HandOf, ReplacedOf, OwedOf, At, Renewing, RenewingAt, Identifying, Granting
  <1>4. CASE session # NoToken /\ Goes(c, "request") /\ UNCHANGED resigned
             /\ access' = [access EXCEPT ![c] = session]
    <2>1. pc'[c] = "request" /\ access'[c] = session /\ Token(c)' = session
      BY <1>0, <1>1, <1>4 DEF Goes, TypeOK, Token
    <2>2. HandOf(c)' /\ ReplacedOf(c)'
      BY <1>1, <1>4, <2>1 DEF HandOf, ReplacedOf, At, Renewing, RenewingAt, Identifying, Granting
    <2>3. OwedOf(c)'
      BY <1>0, <1>1, <1>4, <2>1 DEF OwedOf, At
    <2> QED BY <2>2, <2>3 DEF CallInv
  <1> QED BY <1>2, <1>3, <1>4 DEF Ensure
\* The request is made with the session that was just stored.
LEMMA StoreStep ==
    ASSUME IInv, NEW c \in Calls, Refreshed(c) \/ SignedIn(c)
    PROVE  CallInv(c)'
  <1> USE TokensAssumption DEF IInv
  <1>0. cloud[c] = "ayla"
    BY DEF CallInv, HandOf, Refreshed, SignedIn, At
  <1>1. /\ pc'[c] = "request" /\ using'[c] = NoToken /\ access'[c] = session'
        /\ session' = New(AccessTokens) /\ UNCHANGED <<cloud, idToken, retried>>
    BY DEF Refreshed, SignedIn, StoreSession, Goes, TypeOK, auth0, attempts
  <1>2. session' # NoToken /\ session' \in valid'
    BY <1>1, IssuesNew DEF Refreshed, SignedIn, StoreSession
  <1>3. Token(c)' = session'
    BY <1>0, <1>1 DEF Token
  <1> HIDE DEF IInv
  <1>4. HandOf(c)' /\ ReplacedOf(c)'
    BY <1>0, <1>1, <1>2, <1>3
       DEF HandOf, ReplacedOf, At, Renewing, RenewingAt, Identifying, Granting
  <1>5. OwedOf(c)'
    BY <1>0, <1>1, <1>2, <1>3 DEF OwedOf, At
  <1> QED BY <1>4, <1>5 DEF CallInv

\* A refusal is followed by the next thing to try.
LEMMA RefusedStep ==
    ASSUME IInv, NEW c \in Calls,
           RefreshRefused(c) \/ SignInRejected(c) \/ GrantRefused(c)
    PROVE  CallInv(c)'
  <1> USE DEF IInv
  <1>0. HandOf(c) /\ ReplacedOf(c) /\ OwedOf(c) /\ cloud[c] \in {"ayla", "aws"}
    BY DEF CallInv, TypeOK
  <1>1. UNCHANGED <<cloud, idToken, idExpiring, session, expiring, valid, retried, using, access,
                    owed>>
    BY DEF RefreshRefused, SignInRejected, GrantRefused, auth0, ayla, attempts
  <1>2. CASE RefreshRefused(c)
    <2>1. pc[c] = "refreshing" /\ pc'[c] = "idToken" /\ ~resigned'[c]
      BY <1>2 DEF RefreshRefused, At, Waits, Goes, TypeOK
    <2> HIDE DEF IInv
    <2> QED BY <1>0, <1>1, <2>1
            DEF CallInv, HandOf, ReplacedOf, OwedOf, At, Renewing, RenewingAt, Identifying, Granting
  <1>3. CASE SignInRejected(c)
    <2>1. pc[c] = "signIn" /\ pc'[c] = "renew" /\ using[c] \notin valid
      BY <1>3 DEF SignInRejected, At, Waits, Goes, TypeOK
    <2> HIDE DEF IInv
    <2> QED BY <1>0, <1>1, <2>1
            DEF CallInv, HandOf, ReplacedOf, OwedOf, At, Renewing, RenewingAt, Identifying, Granting
  <1>4. CASE GrantRefused(c)
    <2>1. pc[c] = "password" /\ pc'[c] = "pkce"
      BY <1>4 DEF GrantRefused, At, Goes, TypeOK
    <2> HIDE DEF IInv
    <2> QED BY <1>0, <1>1, <2>1
            DEF CallInv, HandOf, ReplacedOf, OwedOf, At, Renewing, RenewingAt, Identifying, Granting
  <1> QED BY <1>2, <1>3, <1>4

\* An id token is used as it is found, if it is there and is not the one that was rejected;
\* else one is granted.
LEMMA IdTokenStep ==
    ASSUME IInv, NEW c \in Calls, GetIdToken(c) \/ Renew(c)
    PROVE  CallInv(c)'
  <1> USE DEF IInv
  <1>0. HandOf(c) /\ ReplacedOf(c) /\ OwedOf(c) /\ cloud[c] \in {"ayla", "aws"}
        /\ pc[c] \in {"idToken", "renew"}
    BY DEF CallInv, TypeOK, GetIdToken, Renew, At
  <1>1. UNCHANGED <<cloud, idToken, idExpiring, session, expiring, valid, retried, resigned, access,
                    owed>>
    BY DEF GetIdToken, Renew, auth0, ayla, attempts
  <1>2. CASE Goes(c, FirstGrant) /\ UNCHANGED using
             /\ (idToken = NoToken \/ idExpiring \/ idToken \notin valid)
    <2>1. pc'[c] \in Granting
      BY <1>2, GrantAssumption DEF Goes, TypeOK, Granting
    <2> HIDE DEF IInv
    <2> QED BY <1>0, <1>1, <1>2, <2>1
            DEF CallInv, HandOf, ReplacedOf, OwedOf, At, Renewing, RenewingAt, Identifying, Granting
  <1>3. CASE UsesId(c, idToken) /\ idToken # NoToken
             /\ (owed[c] /\ At(c, "renew") => idToken \in valid)
    <2>1. pc'[c] = (IF cloud[c] = "ayla" THEN "signIn" ELSE "request") /\ using'[c] = idToken
      BY <1>3 DEF UsesId, Goes, TypeOK
    <2>2. Renewing(c)' <=> Renewing(c)
      BY <1>0, <1>1, <2>1 DEF Renewing, RenewingAt, Identifying, Granting
    <2> HIDE DEF IInv
    <2>3. HandOf(c)'
      BY <1>0, <1>1, <1>3, <2>1 DEF HandOf, At, Token
    <2>4. ReplacedOf(c)'
      BY <1>0, <1>1, <2>1, <2>2 DEF ReplacedOf, Granting
    <2>5. OwedOf(c)'
      BY <1>0, <1>1, <1>3, <2>1 DEF OwedOf, HandOf, At, Token
    <2> QED BY <2>3, <2>4, <2>5 DEF CallInv
  <1>4. CASE GetIdToken(c)
    BY <1>2, <1>3, <1>4 DEF GetIdToken, At
  <1>5. CASE Renew(c)
    <2>1. using[c] # NoToken /\ using[c] \notin valid
      BY <1>0, <1>5 DEF HandOf, Renew, At
    <2>2. owed[c] /\ idToken \notin {using[c], NoToken} => idToken \in valid
      BY <1>0, <2>1 DEF OwedOf
    <2> QED BY <1>2, <1>3, <1>5, <2>1, <2>2 DEF Renew
  <1> QED BY <1>4, <1>5

\* An id token was granted, and it is good.
LEMMA GrantedStep ==
    ASSUME IInv, NEW c \in Calls, Granted(c)
    PROVE  CallInv(c)'
  <1> USE TokensAssumption DEF IInv
  <1>0. HandOf(c) /\ ReplacedOf(c) /\ OwedOf(c) /\ cloud[c] \in {"ayla", "aws"}
        /\ pc[c] \in Granting
    BY DEF CallInv, TypeOK, Granted, Granting
  <1>1. /\ UNCHANGED <<cloud, session, expiring, retried, resigned, access, owed>>
        /\ using'[c] = idToken'
        /\ pc'[c] = IF cloud[c] = "ayla" THEN "signIn" ELSE "request"
    BY DEF Granted, UsesId, Goes, TypeOK, ayla, attempts
  <1>2. idToken' # NoToken /\ idToken' \in valid'
    BY IssuesNew DEF Granted
  <1>3. \A t \in {session, access[c]} : t \in valid' <=> t \in valid
    BY SessionsKept, HeldByAll DEF Steps, Proceeds
  <1>4. Renewing(c)' <=> Renewing(c)
    BY <1>0, <1>1 DEF Renewing, RenewingAt, Identifying, Granting
  <1> HIDE DEF IInv
  <1>5. HandOf(c)'
    BY <1>0, <1>1, <1>2 DEF HandOf, At, Token, Granting
  <1>6. ReplacedOf(c)'
    BY <1>0, <1>1, <1>4 DEF ReplacedOf, Granting
  <1>7. OwedOf(c)'
    BY <1>0, <1>1, <1>2, <1>3 DEF OwedOf, At, Token, Granting
  <1> QED BY <1>5, <1>6, <1>7 DEF CallInv

\* The first rejection of a request: its token is not good, and is thrown away if it is
\* still the one of the session.
LEMMA RejectedStep ==
    ASSUME IInv, NEW c \in Calls, Rejected(c) \/ Discard(c)
    PROVE  CallInv(c)'
  <1> USE DEF IInv
  <1>0. HandOf(c) /\ ReplacedOf(c) /\ OwedOf(c) /\ cloud[c] \in {"ayla", "aws"}
    BY DEF CallInv, TypeOK
  <1>1. UNCHANGED <<cloud, idToken, idExpiring, valid, resigned, using, access, owed>>
    BY DEF Rejected, Discard, auth0, attempts
  <1>2. CASE Rejected(c)
    <2>1. /\ pc[c] = "request" /\ Token(c) \notin valid /\ UNCHANGED <<session, expiring>>
          /\ pc'[c] = IF cloud[c] = "ayla" THEN "discard" ELSE "renew"
      BY <1>2 DEF Rejected, At, Waits, Goes, TypeOK, ayla
    <2> HIDE DEF IInv
    <2>2. HandOf(c)' /\ ReplacedOf(c)'
      BY <1>0, <1>1, <2>1
         DEF HandOf, ReplacedOf, At, Token, Renewing, RenewingAt, Identifying, Granting
    <2>3. OwedOf(c)'
      BY <1>0, <1>1, <2>1 DEF OwedOf, At
    <2> QED BY <2>2, <2>3 DEF CallInv
  <1>3. CASE Discard(c)
    <2>1. /\ pc[c] = "discard" /\ pc'[c] = "ensure" /\ UNCHANGED retried
          /\ (session' = NoToken \/ (session' = session /\ session # access[c]))
      BY <1>3 DEF Discard, At, Again, Goes, TypeOK, ayla, attempts
    <2> HIDE DEF IInv
    <2>2. HandOf(c)' /\ ReplacedOf(c)'
      BY <1>0, <1>1, <2>1
         DEF HandOf, ReplacedOf, At, Renewing, RenewingAt, Identifying, Granting
    <2>3. OwedOf(c)'
      BY <1>0, <1>1, <2>1 DEF OwedOf, HandOf, At
    <2> QED BY <2>2, <2>3 DEF CallInv
  <1> QED BY <1>2, <1>3
\* A revocation leaves nothing good, and no request is owed an answer any more; a token that
\* comes to its end may be replaced.
LEMMA ServersStep ==
    ASSUME IInv, Revoke \/ Expire \/ UNCHANGED vars, NEW c \in Calls
    PROVE  CallInv(c)'
  <1> USE DEF IInv
  <1>0. CallInv(c)
    OBVIOUS
  <1>1. /\ UNCHANGED <<cloud, idToken, session, pc, retried, resigned, using, access>>
        /\ \/ valid' = {} /\ owed' = [d \in Calls |-> FALSE] /\ UNCHANGED <<idExpiring, expiring>>
           \/ UNCHANGED <<valid, owed>>
        /\ (idExpiring => idExpiring') /\ (expiring => expiring')
    BY DEF Revoke, Expire, vars, auth0, ayla, attempts, TypeOK
  <1>2. Renewing(c)' <=> Renewing(c)
    BY <1>1 DEF Renewing
  <1> HIDE DEF IInv
  <1>3. HandOf(c)'
    BY <1>0, <1>1 DEF CallInv, HandOf, At, Token
  <1>4. ReplacedOf(c)'
    BY <1>0, <1>1, <1>2 DEF CallInv, ReplacedOf
  <1>5. OwedOf(c)'
    BY <1>0, <1>1 DEF CallInv, OwedOf, At, Token
  <1> QED BY <1>3, <1>4, <1>5 DEF CallInv
-----------------------------------------------------------------------------
(* The theorems.                                                           *)

\* The inductive invariant: the two locks, what each call has in hand, what it may replace,
\* and what its second attempt rests on.
THEOREM Invariance == Spec => []IInv
  <1>1. ASSUME IInv, [Next]_vars PROVE IInv'
    <2>1. TypeOK' /\ LockInv'
      BY <1>1, TypeStep, LockStep
    <2>2. ASSUME NEW d \in Calls PROVE CallInv(d)'
      <3>1. CASE Revoke \/ Expire \/ UNCHANGED vars
        BY <1>1, <3>1, ServersStep
      <3>2. ASSUME NEW c \in Calls, Steps(c) PROVE CallInv(d)'
        <4>1. CASE d # c
          BY <1>1, <3>2, <4>1, OthersStep
        <4>2. CASE d = c
          BY <1>1, <3>2, <4>2, EndStep, BeginStep, EnsureStep, StoreStep, RefusedStep,
             IdTokenStep, GrantedStep, RejectedStep DEF Steps, Proceeds
        <4> QED BY <4>1, <4>2
      <3> QED BY <1>1, <3>1, <3>2 DEF Next, Steps
    <2> QED BY <2>1, <2>2 DEF IInv
  <1> QED BY InitIInv, <1>1, PTL DEF Spec

\* Every variable has its type: an id token is never taken for the token of a session.
THEOREM TypeCorrect == Spec => []TypeOK
  <1>1. IInv => TypeOK
    BY DEF IInv
  <1> QED BY <1>1, Invariance, PTL

\* A request under which nothing is revoked and that is not itself lost is answered,
\* whatever was revoked or expired before it and whatever the other requests do
\* (ayla.py:80-146, aws.py:215-227).
THEOREM RequestsRecover == Spec => []Recovers
  <1>1. IInv => Recovers
    BY DEF IInv, CallInv, OwedOf, Recovers, At
  <1> QED BY <1>1, Invariance, PTL

\* A token that is accepted and not about to expire is not replaced: one renewal serves all
\* who met a rejection of the one before (auth0.py:98-99, ayla.py:141-145).
THEOREM GoodTokensKept == Spec => FreshKept
  <1> DEFINE Kept == /\ idToken \in valid /\ ~idExpiring => idToken' = idToken
                     /\ session \in valid /\ ~expiring => session' = session
  <1>1. ASSUME IInv, [Next]_vars PROVE Kept
    <2>1. CASE Revoke \/ Expire \/ UNCHANGED vars
      BY <2>1 DEF Revoke, Expire, vars, auth0, ayla
    <2>2. ASSUME NEW c \in Calls, Steps(c) PROVE Kept
      <3>1. HandOf(c) /\ ReplacedOf(c) /\ NoToken \notin valid
        BY <1>1, TokensAssumption DEF IInv, CallInv, TypeOK
      <3>2. UNCHANGED auth0 \/ pc[c] \in Granting
        BY <1>1, <2>2, SessionsKept
      <3>3. UNCHANGED ayla \/ Renewing(c) \/ (At(c, "discard") /\ session = access[c])
        BY <1>1, <2>2, SessionsKept
      <3>4. idToken \in valid /\ ~idExpiring => idToken' = idToken
        BY <3>1, <3>2 DEF ReplacedOf, auth0
      <3>5. session \in valid /\ ~expiring => session' = session
        BY <3>1, <3>3 DEF ReplacedOf, HandOf, ayla
      <3> QED BY <3>4, <3>5
    <2> QED BY <1>1, <2>1, <2>2 DEF Next, Steps
  <1>2. IInv /\ [Next]_vars => [Kept]_vars
    BY <1>1
  <1> QED BY <1>2, Invariance, PTL DEF Spec, FreshKept

\* The locks are taken in one order and left at the end of a call, so that no calls wait
\* for each other in a circle (ayla.py:118-145, auth0.py:90-104).
THEOREM LocksInOrder == Spec => []LocksOrdered
  <1>1. ASSUME IInv, NEW l \in Locks, queue[l] # <<>>, NEW h, h = Head(queue[l])
        PROVE  /\ ~At(h, "ended")
               /\ \A k \in Locks :
                     (\E i \in 2..Len(queue[k]) : queue[k][i] = h) => <<l, k>> = <<"ayla", "auth">>
    <2>1. /\ \A k \in Locks : queue[k] \in Seq(Calls) /\ Len(queue[k]) \in Nat /\ Once(queue[k])
          /\ \A k \in Locks, c \in Calls : Wants(c, k) <=> In(queue[k], c)
      BY <1>1, LenProperties DEF IInv, TypeOK, LockInv
    <2>2. h \in Calls /\ 1 \in 1..Len(queue[l]) /\ queue[l][1] = h
      BY <1>1, <2>1, ElementOfSeq, EmptySeq, FirstIs DEF First
    <2>3. Wants(h, l)
      BY <2>1, <2>2 DEF In
    <2>4. ~At(h, "ended")
      BY <2>3 DEF Wants, WantsAt, RenewingAt, Identifying, Granting, At
    <2>5. ASSUME NEW k \in Locks, NEW i \in 2..Len(queue[k]), queue[k][i] = h
          PROVE  <<l, k>> = <<"ayla", "auth">>
      <3>1. Len(queue[k]) \in Nat /\ i \in 1..Len(queue[k]) /\ 1 \in 1..Len(queue[k]) /\ i # 1
        BY <2>1, <2>5
      <3>2. Wants(h, k)
        BY <2>1, <2>2, <2>5, <3>1 DEF In
      <3>3. l # k
        BY <2>1, <2>2, <2>5, <3>1 DEF Once
      <3>4. ~Holds(h, k)
        BY <2>1, <2>2, <2>5, <3>1, FirstIs DEF Once, Holds, First
      <3>5. ~(l = "auth" /\ k = "ayla")
        <4>1. SUFFICES ASSUME l = "auth", k = "ayla" PROVE FALSE
          OBVIOUS
        <4>2. Renewing(h)
          BY <2>3, <3>2, <4>1
             DEF Wants, WantsAt, Renewing, RenewingAt, Identifying, Granting
        <4> QED BY <1>1, <2>2, <3>4, <4>1, <4>2 DEF IInv, LockInv
      <3> QED BY <3>3, <3>5 DEF Locks
    <2> QED BY <2>4, <2>5
  <1>2. IInv => LocksOrdered
    BY <1>1 DEF LocksOrdered
  <1> QED BY <1>2, Invariance, PTL

\* What is still to come is a number of steps.
LEMMA ToComeNat ==
    ASSUME TypeOK, NEW c \in Calls
    PROVE  ToCome(c) \in 0..24
  <1>1. Stage[pc[c]] \in 0..12 /\ (pc[c] \in Signing => Stage[pc[c]] <= 5)
    <2>1. pc[c] \in {"ended", "ensure", "refreshing", "idToken", "renew",
                     "password", "pkce", "signIn", "request", "discard"}
      BY DEF TypeOK
    <2> QED BY <2>1 DEF Stage, Signing
  <1>2. ASSUME NEW s \in 0..12, NEW n \in {0, 4}, NEW r \in {0, 12}, s <= 5 \/ n = 0
        PROVE  s + n + r \in 0..24
    BY <1>2
  <1> DEFINE n == IF pc[c] \in Signing /\ ~resigned[c] THEN 4 ELSE 0
             r == IF retried[c] THEN 0 ELSE 12
  <1>3. n \in {0, 4} /\ r \in {0, 12} /\ (Stage[pc[c]] <= 5 \/ n = 0)
    BY <1>1
  <1>4. ToCome(c) \in {0, Stage[pc[c]] + n + r}
    BY DEF ToCome
  <1> HIDE DEF n, r
  <1> QED BY <1>1, <1>2, <1>3, <1>4

\* Every own step of a request leaves it less to come, whatever is revoked, refused or
\* replaced by others meanwhile: the retries of the layers do not multiply without end
\* (ayla.py:80-146, aws.py:215-227).
THEOREM AttemptsEnd == Spec => AttemptsBounded
  <1>1. ASSUME IInv, NEW c \in Calls, Proceeds(c) PROVE ToCome(c)' < ToCome(c)
    <2> USE DEF ToCome, Stage, Signing, At
    <2>0. /\ TypeOK /\ HandOf(c) /\ retried[c] \in BOOLEAN /\ resigned[c] \in BOOLEAN
          /\ cloud[c] \in {"ayla", "aws"}
      BY <1>1 DEF IInv, CallInv, TypeOK
    <2>1. CASE Ensure(c)
      <3>1. At(c, "ensure") /\ retried'[c] = retried[c]
            /\ pc'[c] \in {"idToken", "refreshing", "request"}
            /\ (pc'[c] = "idToken" => ~resigned'[c])
        BY <2>0, <2>1 DEF Ensure, Waits, Goes, TypeOK
      <3> QED BY <2>0, <3>1
    <2>2. CASE Refreshed(c) \/ SignedIn(c)
      <3>1. pc[c] \in {"refreshing", "signIn"} /\ pc'[c] = "request" /\ retried'[c] = retried[c]
        BY <2>0, <2>2 DEF Refreshed, SignedIn, StoreSession, Goes, TypeOK, attempts
      <3> QED BY <2>0, <3>1
    <2>3. CASE RefreshRefused(c)
      <3>1. pc[c] = "refreshing" /\ pc'[c] = "idToken" /\ retried'[c] = retried[c] /\ ~resigned'[c]
        BY <2>0, <2>3 DEF RefreshRefused, Waits, Goes, TypeOK
      <3> QED BY <2>0, <3>1
    <2>4. CASE GetIdToken(c) \/ Renew(c)
      <3>1. pc[c] \in {"idToken", "renew"} /\ retried'[c] = retried[c] /\ resigned'[c] = resigned[c]
        BY <2>4 DEF GetIdToken, Renew, attempts
      <3>2. pc'[c] \in {"password", "pkce", "signIn", "request"}
        BY <2>0, <2>4, GrantAssumption DEF GetIdToken, Renew, UsesId, Goes, TypeOK
      <3> QED BY <2>0, <3>1, <3>2
    <2>5. CASE GrantRefused(c)
      <3>1. pc[c] = "password" /\ pc'[c] = "pkce" /\ retried'[c] = retried[c]
            /\ resigned'[c] = resigned[c]
        BY <2>0, <2>5 DEF GrantRefused, Goes, TypeOK, attempts
      <3> QED BY <2>0, <3>1
    <2>6. CASE Granted(c)
      <3>1. pc[c] \in {"password", "pkce"} /\ pc'[c] \in {"signIn", "request"}
            /\ retried'[c] = retried[c] /\ resigned'[c] = resigned[c]
        BY <2>0, <2>6 DEF Granted, UsesId, Goes, TypeOK, attempts
      <3> QED BY <2>0, <3>1
    <2>7. CASE SignInRejected(c)
      <3>1. pc[c] = "signIn" /\ pc'[c] = "renew" /\ retried'[c] = retried[c]
            /\ ~resigned[c] /\ resigned'[c]
        BY <2>0, <2>7 DEF SignInRejected, Waits, Goes, TypeOK
      <3> QED BY <2>0, <3>1
    <2>8. CASE Answered(c) \/ Fails(c)
      <3>1. pc[c] \in {"signIn", "request"} /\ pc'[c] = "ended"
        BY <2>0, <2>8 DEF Answered, Fails, Ends, Goes, TypeOK
      <3> QED BY <2>0, <3>1
    <2>9. CASE Rejected(c)
      <3>1. pc[c] = "request" /\ pc'[c] \in {"discard", "renew"} /\ ~retried[c] /\ retried'[c]
        BY <2>0, <2>9 DEF Rejected, Waits, Goes, TypeOK
      <3> QED BY <2>0, <3>1
    <2>10. CASE Discard(c)
      <3>1. pc[c] = "discard" /\ pc'[c] = "ensure" /\ retried'[c] = retried[c]
        BY <2>0, <2>10 DEF Discard, Again, Goes, TypeOK, attempts
      <3> QED BY <2>0, <3>1
    <2> QED
      BY <1>1, <2>1, <2>2, <2>3, <2>4, <2>5, <2>6, <2>7, <2>8, <2>9, <2>10 DEF Proceeds
  <1> DEFINE Counted == \A c \in Calls : ToCome(c) \in 0..24
  <1>2. IInv => Counted
    BY ToComeNat DEF IInv
  <1>3. IInv /\ Counted /\ Counted' /\ [Next]_vars
          => [\A c \in Calls : Proceeds(c) => ToCome(c)' \in 0..(ToCome(c) - 1)]_vars
    <2>1. ASSUME IInv, Counted, Counted', NEW c \in Calls, Proceeds(c)
          PROVE  ToCome(c)' \in 0..(ToCome(c) - 1)
      <3>1. ToCome(c) \in 0..24 /\ ToCome(c)' \in 0..24
        BY <2>1
      <3>2. ToCome(c)' < ToCome(c)
        BY <1>1, <2>1
      <3> QED BY <3>1, <3>2
    <2> QED BY <2>1
  <1> QED BY <1>2, <1>3, Invariance, PTL DEF Spec, AttemptsBounded
=============================================================================
