-------------------------- MODULE CookSettings_proof --------------------------
(***************************************************************************)
(* Proofs about CookSettings, for any values, durations, modes, grace and  *)
(* lag: no change of a running cook reverts another, in the grill or on    *)
(* the card, and the duration of the cook survives the changes.            *)
(***************************************************************************)
EXTENDS CookSettings, TLAPS

\* A cook that the user may expect.
Wanted(cook) == cook.temp \in asked.temp /\ cook.target \in asked.target

\* Taken since the last command: what it shows is not older than what was sent.
Fresh == dataAge < issuedAge

\* The duration is known, and over Bluetooth no other one is staged yet.
Sound == ~Lost /\ (local => command = NoCook \/ ~command.duration)

\* The command inside the lock is a change of what is wanted, and once the grill acted
\* the grill runs it.
CommandInv ==
    /\ command # NoCook => Wanted(command) /\ command.seconds <= command.total
    /\ acted => /\ command # NoCook
                /\ grill.temp = command.temp /\ grill.target = command.target
                /\ grill.set = command.seconds

\* Whatever a change is built on is wanted: what is pending within its grace, what is
\* staged over Bluetooth, and a view that is newer than the last command.
ValuesInv ==
    /\ Wanted(grill)
    /\ local => Wanted(staged)
    /\ pending # NoCook => Wanted(pending) /\ InGrace
    /\ pending = NoCook => ~InGrace
    /\ data.estimated => local
    /\ Fresh => data.target \in asked.target /\ (data.estimated \/ data.temp \in asked.temp)

\* No timer has more left than it was set to, and none was sent more than the whole; an
\* estimate has not, as long as the duration is sound.
TimersInv ==
    /\ grill.left <= grill.set
    /\ data.left > data.set => data.estimated
    /\ override # <<>> => override[1] <= override[2]
    /\ pending # NoCook /\ ~Lost =>
          pending.remaining <= pending.total + (IF pending.running THEN issuedAge ELSE 0)
    /\ local /\ Sound => timer <= staged.seconds
    /\ Fresh /\ Sound /\ ~acted => data.left <= data.set

\* What is pending or staged, and what the grill and a fresh view show is, with the elapsed
\* time put back, a duration that was asked for; a fresh view of an idle grill is the last
\* word about it.
TotalInv ==
    ~Lost =>
        /\ pending # NoCook => pending.total \in asked.total
        /\ override # <<>> => override[2] \in asked.total
        /\ local => staged.seconds \in asked.total
        /\ ~acted /\ ~forgot /\ grill.on => SecondsSet(grill.set) \in asked.total
        /\ ~acted /\ Fresh /\ data.on =>
              data.set \in asked.total \/ (data.set = 0 /\ data.estimated)
        /\ ~acted /\ Fresh /\ ~data.on => ~grill.on

IInv == TypeOK /\ CommandInv /\ ValuesInv /\ TimersInv /\ TotalInv /\ TotalKept

Asked == [temp : SUBSET Temps, target : SUBSET Targets, total : SUBSET (1..MaxTotal)]
-----------------------------------------------------------------------------
(* The operators of the model.                                             *)

\* What is left of a cook is not negative, and not more than it was set to if that was so
\* when it was reported; where there is no timer, it is nothing or what is staged.
LEMMA LiveRemainingIs ==
    ASSUME NEW d \in Views, NEW age \in Nat, staged.seconds \in 1..MaxTotal
    PROVE  /\ LiveRemaining(d, age) \in 0..MaxTotal
           /\ d.left <= d.set /\ d.set # 0 => LiveRemaining(d, age) <= d.set
           /\ d.left = 0 /\ d.set = 0 => LiveRemaining(d, age) \in {0, staged.seconds}
  <1>1. d.left \in 0..MaxTotal /\ d.set \in 0..MaxTotal /\ MaxTotal \in Nat
    BY ValuesAssumption DEF Views
  <1>2. RemainingSeconds(d, age) \in 0..d.left
    BY <1>1 DEF RemainingSeconds
  <1> QED BY <1>1, <1>2 DEF LiveRemaining

\* With the elapsed time put back a cook is not shorter than it was set to.
LEMMA SecondsSetIs ==
    ASSUME TypeOK, TimersInv, NEW n \in 0..MaxTotal
    PROVE  /\ SecondsSet(n) \in 0..MaxTotal /\ n <= SecondsSet(n)
           /\ n = 0 => SecondsSet(n) = 0
           /\ SecondsSet(n) = n \/ (override # <<>> /\ SecondsSet(n) = override[2])
  <1>1. MaxTotal \in Nat
    BY ValuesAssumption
  <1>2. CASE override # <<>> /\ n = override[1]
    BY <1>1, <1>2 DEF SecondsSet, TypeOK, TimersInv
  <1>3. CASE ~(override # <<>> /\ n = override[1])
    BY <1>1, <1>3 DEF SecondsSet
  <1> QED BY <1>2, <1>3

\* What a change is built on: wanted settings, and an elapsed time and a rest that make up
\* a duration that was asked for.
LEMMA BaseIs ==
    ASSUME IInv, command = NoCook, Changeable
    PROVE  /\ Base \in [temp : Temps, target : Targets, remaining : Nat, elapsed : Nat]
           /\ Wanted(Base)
           /\ ~Lost => Base.elapsed + Base.remaining \in asked.total
  <1> USE DEF IInv
  <1>0. MaxTotal \in Nat /\ ISSUE_GRACE \in Nat /\ LAG \in Nat /\ LAG <= ISSUE_GRACE
    BY ValuesAssumption, LagAssumption
  <1>1. CASE Pending
    <2> DEFINE since == IF pending.running THEN issuedAge ELSE 0
               rest == AtLeast(0, pending.remaining - since)
    <2>1. pending \in Issued /\ Wanted(pending) /\ (~Lost => pending.total \in asked.total)
      BY <1>1 DEF Pending, TypeOK, ValuesInv, TotalInv
    <2>2. /\ pending.remaining \in Nat /\ pending.total \in Nat /\ since \in Nat
          /\ ~Lost => pending.remaining <= pending.total + since
          /\ pending.temp \in Temps /\ pending.target \in Targets
      BY <1>0, <1>1, <2>1 DEF Issued, TypeOK, TimersInv, Pending
    <2>3. rest \in Nat /\ (~Lost => rest <= pending.total)
      <3> HIDE DEF since
      <3> QED BY <2>2 DEF AtLeast
    <2>4. Base = [temp |-> pending.temp, target |-> pending.target, remaining |-> rest,
                  elapsed |-> AtLeast(0, pending.total - rest)]
      BY <1>1 DEF Base
    <2> HIDE DEF rest
    <2>5. AtLeast(0, pending.total - rest) \in Nat
      BY <2>2, <2>3 DEF AtLeast
    <2>6. ~Lost => AtLeast(0, pending.total - rest) + rest = pending.total
      BY <2>2, <2>3 DEF AtLeast
    <2> QED BY <2>1, <2>2, <2>3, <2>4, <2>5, <2>6 DEF Wanted
  <1>2. CASE ~Pending
    <2> DEFINE rest == LiveRemaining(data, dataAge)
    <2>1. /\ data \in Views /\ dataAge \in Nat /\ staged.seconds \in 1..MaxTotal
          /\ staged.temp \in Temps /\ data.temp \in Temps /\ data.target \in Targets
          /\ data.set \in 0..MaxTotal /\ data.left \in 0..MaxTotal
      BY <1>0 DEF TypeOK, Views
    <2>2. Fresh
      BY <1>0, <1>2 DEF Pending, InGrace, Fresh, ValuesInv, TypeOK
    <2>3. LiveTemp \in asked.temp /\ LiveTemp \in Temps /\ data.target \in asked.target
      BY <2>1, <2>2 DEF ValuesInv, LiveTemp, Wanted
    <2>4. rest \in 0..MaxTotal
      BY <2>1, LiveRemainingIs
    <2>5. Base = [temp |-> LiveTemp, target |-> data.target, remaining |-> rest,
                  elapsed |-> AtLeast(0, data.set - rest)]
      BY <1>2 DEF Base
    <2>6. AtLeast(0, data.set - rest) \in Nat
      <3> HIDE DEF rest
      <3> QED BY <1>0, <2>1, <2>4 DEF AtLeast
    <2>7. ASSUME ~Lost PROVE AtLeast(0, data.set - rest) + rest \in asked.total
      <3>1. ~acted /\ Sound
        BY <2>7 DEF CommandInv, Sound, TypeOK
      <3>2. data.left <= data.set
        BY <2>2, <3>1 DEF TimersInv
      <3>3. CASE data.set \in asked.total /\ data.set # 0
        <4>1. rest <= data.set
          BY <2>1, <3>2, <3>3, LiveRemainingIs
        <4> HIDE DEF rest
        <4>2. AtLeast(0, data.set - rest) + rest = data.set
          BY <1>0, <2>1, <2>4, <4>1 DEF AtLeast
        <4> QED BY <3>3, <4>2
      <3>4. CASE data.set = 0 /\ data.estimated
        <4>1. data.left = 0
          BY <1>0, <2>1, <3>2, <3>4
        <4>2. rest = staged.seconds
          <5>1. rest \in {0, staged.seconds}
            BY <2>1, <3>4, <4>1, LiveRemainingIs
          <5>2. rest > 0
            BY <2>5 DEF Changeable
          <5> HIDE DEF rest
          <5> QED BY <1>0, <5>1, <5>2
        <4>3. staged.seconds \in asked.total
          BY <2>7, <3>4 DEF TotalInv, ValuesInv
        <4> HIDE DEF rest
        <4>4. AtLeast(0, data.set - rest) + rest = staged.seconds
          BY <1>0, <2>1, <3>4, <4>2 DEF AtLeast
        <4> QED BY <4>3, <4>4
      <3>5. 0 \notin asked.total
        BY DEF TypeOK
      <3>6. data.set \in asked.total \/ (data.set = 0 /\ data.estimated)
        BY <2>2, <2>7, <3>1 DEF TotalInv, Changeable, Active
      <3> HIDE DEF rest
      <3> QED BY <3>3, <3>4, <3>5, <3>6
    <2> HIDE DEF rest
    <2>8. rest \in Nat
      BY <1>0, <2>4
    <2> QED BY <2>1, <2>3, <2>5, <2>6, <2>7, <2>8 DEF Wanted
  <1> QED BY <1>1, <1>2
-----------------------------------------------------------------------------
(* The steps.                                                              *)

\* The first cook is the one that is wanted, and it is shown.
LEMMA InitIInv == Init => IInv
  <1> SUFFICES ASSUME Init PROVE IInv
    OBVIOUS
  <1>0. MaxTotal \in Nat /\ ISSUE_GRACE \in Nat /\ LAG \in Nat /\ MIN_REMAINING \in 1..MaxTotal
    BY ValuesAssumption, LagAssumption, RemainingAssumption
  <1>1. PICK t \in Temps, g \in Targets, n \in MIN_REMAINING..MaxTotal :
          /\ grill = [on |-> TRUE, temp |-> t, target |-> g, phase |-> "preheat",
                      set |-> n, left |-> n]
          /\ data = [on |-> TRUE, temp |-> t, target |-> g, phase |-> "preheat",
                     set |-> n, left |-> n, ends |-> FALSE, estimated |-> FALSE]
          /\ staged = [temp |-> t, target |-> g, seconds |-> n]
    BY DEF Init
  <1>2. n \in 1..MaxTotal /\ n \in 0..MaxTotal
    BY <1>0
  <1>3. grill \in Cooks /\ data \in Views
    BY <1>1, <1>2 DEF Cooks, Phases, Views
  <1>4. asked = [temp |-> {t}, target |-> {g}, total |-> {n}]
    BY <1>1 DEF Init
  <1>5. /\ local \in BOOLEAN /\ timer = Off /\ dataAge = 0 /\ pending = NoCook
        /\ issuedAge = ISSUE_GRACE + 1 /\ override = <<>> /\ command = NoCook
        /\ acted = FALSE /\ forgot = FALSE
    BY DEF Init
  <1>6. TypeOK
    <2>1. issuedAge \in 0..(ISSUE_GRACE + 1) /\ dataAge \in 0..LAG /\ timer \in Off..MaxTotal
      BY <1>0, <1>5 DEF Off
    <2>2. asked \in [temp : SUBSET Temps, target : SUBSET Targets, total : SUBSET (1..MaxTotal)]
      BY <1>2, <1>4
    <2>3. staged \in [temp : Temps, target : Targets, seconds : 1..MaxTotal]
      BY <1>1, <1>2
    <2> QED BY <1>3, <1>5, <2>1, <2>2, <2>3 DEF TypeOK
  <1>7. CommandInv /\ ValuesInv /\ TotalKept
    BY <1>0, <1>1, <1>4, <1>5 DEF CommandInv, ValuesInv, TotalKept, Wanted, Fresh, InGrace
  <1>8. TimersInv
    BY <1>0, <1>1, <1>2, <1>5 DEF TimersInv, Off
  <1>9. TotalInv
    BY <1>0, <1>1, <1>4, <1>5 DEF TotalInv, SecondsSet, Fresh
  <1> QED BY <1>6, <1>7, <1>8, <1>9 DEF IInv

\* The grill goes through its phases, or ends the cook when the timer has run out.
LEMMA GrillStep == ASSUME IInv, GrillMoves PROVE IInv'
  <1> USE DEF IInv
  <1>1. grill \in Cooks
    BY DEF TypeOK
  <1>2. /\ grill' \in Cooks /\ (grill'.on => grill.on)
        /\ grill'.temp = grill.temp /\ grill'.target = grill.target
        /\ grill'.set = grill.set /\ grill'.left = grill.left
    BY <1>1 DEF GrillMoves, Cooks, Phases
  <1>3. UNCHANGED <<local, data, dataAge, pending, issuedAge, override, staged, timer, command,
                    acted, asked, forgot>>
    BY DEF GrillMoves, view, sent, estimate, history
  <1>4. TypeOK'
    BY <1>2, <1>3 DEF TypeOK
  <1>5. CommandInv' /\ ValuesInv' /\ TotalKept'
    BY <1>2, <1>3 DEF CommandInv, ValuesInv, TotalKept, Wanted, Fresh, InGrace, Lost
  <1>6. TimersInv'
    BY <1>2, <1>3 DEF TimersInv, Fresh, Sound, Lost
  <1>7. TotalInv'
    BY <1>2, <1>3 DEF TotalInv, SecondsSet, Fresh, Lost
  <1> QED BY <1>4, <1>5, <1>6, <1>7

\* Time passes between commands: the view and the last command age together, until the
\* grace is over, which no view outlasts.
LEMMA TickStep == ASSUME IInv, Tick PROVE IInv'
  <1> USE DEF IInv
  <1>0. ISSUE_GRACE \in Nat /\ LAG \in Nat /\ LAG <= ISSUE_GRACE /\ MaxTotal \in Nat
    BY LagAssumption, ValuesAssumption
  <1>1. /\ grill \in Cooks /\ dataAge \in 0..LAG /\ issuedAge \in 0..(ISSUE_GRACE + 1)
        /\ timer \in Off..MaxTotal
    BY DEF TypeOK
  <1>2. /\ grill' \in Cooks /\ grill'.on = grill.on
        /\ grill'.temp = grill.temp /\ grill'.target = grill.target
        /\ grill'.set = grill.set /\ grill'.left <= grill.left
    <2>1. grill.left \in 0..MaxTotal
      BY <1>1 DEF Cooks
    <2>2. CASE grill.on /\ grill.phase = "cooking" /\ grill.left > 0
      <3>1. grill' = [grill EXCEPT !.left = @ - 1] /\ grill.left - 1 \in 0..MaxTotal
        BY <1>0, <2>1, <2>2 DEF Tick
      <3> QED BY <1>1, <2>1, <3>1 DEF Cooks
    <2>3. CASE ~(grill.on /\ grill.phase = "cooking" /\ grill.left > 0)
      BY <1>1, <2>1, <2>3 DEF Tick
    <2> QED BY <2>2, <2>3
  <1>3. UNCHANGED <<local, data, override, staged, command, acted, asked, forgot>>
    BY DEF Tick, history
  <1>4. /\ dataAge' \in 0..LAG /\ issuedAge' \in 0..(ISSUE_GRACE + 1)
        /\ issuedAge <= issuedAge' /\ (Fresh' <=> Fresh)
    BY <1>0, <1>1 DEF Tick, Fresh
  <1>5. timer' \in Off..MaxTotal /\ timer' <= timer
    BY <1>0, <1>1 DEF Tick, Off
  <1>6. /\ pending' = pending \/ pending' = NoCook
        /\ pending' # NoCook => issuedAge' <= ISSUE_GRACE
        /\ pending' = NoCook => ~InGrace'
    BY <1>0, <1>1 DEF Tick, ValuesInv, InGrace
  <1>7. TypeOK'
    BY <1>2, <1>3, <1>4, <1>5, <1>6 DEF TypeOK
  <1>8. CommandInv' /\ TotalKept'
    BY <1>2, <1>3 DEF Tick, CommandInv, TotalKept, Wanted
  <1>9. ValuesInv'
    BY <1>2, <1>3, <1>4, <1>6 DEF ValuesInv, Wanted, InGrace
  <1>10. TimersInv'
    <2>1. grill'.left <= grill'.set
      BY <1>0, <1>1, <1>2 DEF TimersInv, Cooks
    <2>2. pending # NoCook => pending \in Issued /\ pending.remaining \in Nat /\ pending.total \in Nat
      BY <1>0 DEF TypeOK, Issued
    <2>3. pending' # NoCook /\ ~Lost' =>
             pending'.remaining <= pending'.total + (IF pending'.running THEN issuedAge' ELSE 0)
      BY <1>0, <1>1, <1>3, <1>4, <1>6, <2>2 DEF TimersInv, Lost
    <2>4. local' /\ Sound' => timer' <= staged'.seconds
      <3>1. staged.seconds \in Int /\ timer \in Int /\ timer' \in Int
        BY <1>0, <1>1, <1>5 DEF TypeOK, Off
      <3> QED BY <1>3, <1>5, <3>1 DEF TimersInv, Sound, Lost
    <2>5. Fresh' /\ Sound' /\ ~acted' => data'.left <= data'.set
      BY <1>3, <1>4 DEF TimersInv, Sound, Lost
    <2>6. (data'.left > data'.set => data'.estimated) /\ (override' # <<>> => override'[1] <= override'[2])
      BY <1>3 DEF TimersInv
    <2> QED BY <2>1, <2>3, <2>4, <2>5, <2>6 DEF TimersInv
  <1>11. TotalInv'
    BY <1>2, <1>3, <1>4, <1>6 DEF TotalInv, SecondsSet, Lost
  <1> QED BY <1>7, <1>8, <1>9, <1>10, <1>11

\* A poll keeps what is pending as it was sent and takes over its timer, and forgets the
\* elapsed time only with the cook.
LEMMA NormalizedIs ==
    ASSUME IInv, NEW d \in Views, NEW age \in 0..LAG, Normalized(d, age),
           ~Lost' => ~Lost /\ d.left <= d.set,
           asked'.temp = asked.temp, asked'.target = asked.target,
           asked'.total = asked.total \/ Lost'
    PROVE  /\ pending' \in Issued \cup {NoCook} /\ (pending' = NoCook <=> pending = NoCook)
           /\ pending' # NoCook =>
                 /\ pending'.temp = pending.temp /\ pending'.target = pending.target
                 /\ pending'.total = pending.total
                 /\ ~Lost' => pending'.remaining <=
                       pending'.total + (IF pending'.running THEN issuedAge ELSE 0)
           /\ \/ override' = override
              \/ override' = <<>> /\ ~d.on /\ ~InGrace
           /\ dataAge' = age /\ data' \in Views
           /\ data'.left = d.left /\ d.set <= data'.set
           /\ data' = IF d.on THEN [d EXCEPT !.set = SecondsSet(@)] ELSE d
  <1> USE DEF IInv
  <1>0. ISSUE_GRACE \in Nat /\ LAG \in Nat /\ MaxTotal \in Nat
    BY LagAssumption, ValuesAssumption
  <1> DEFINE shown == [d EXCEPT !.set = SecondsSet(@)]
  <1>1. /\ d.set \in 0..MaxTotal /\ d.left \in 0..MaxTotal
        /\ SecondsSet(d.set) \in 0..MaxTotal /\ d.set <= SecondsSet(d.set)
    BY SecondsSetIs DEF Views
  <1>2. /\ shown \in Views /\ shown.set = SecondsSet(d.set) /\ shown.left = d.left
        /\ shown.phase = d.phase
    BY <1>1 DEF Views
  <1>3. data' = IF d.on THEN shown ELSE d
    BY DEF Normalized
  <1>4. dataAge' = age /\ data' \in Views /\ data'.left = d.left /\ d.set <= data'.set
    <2>1. dataAge' = age
      BY DEF Normalized
    <2> HIDE DEF shown
    <2> QED BY <1>0, <1>1, <1>2, <1>3, <2>1
  <1>5. \/ override' = override
        \/ override' = <<>> /\ ~d.on /\ ~InGrace
    BY DEF Normalized
  <1>6. ASSUME UNCHANGED pending
        PROVE  /\ pending' \in Issued \cup {NoCook} /\ (pending' = NoCook <=> pending = NoCook)
               /\ pending' # NoCook =>
                     /\ pending'.temp = pending.temp /\ pending'.target = pending.target
                     /\ pending'.total = pending.total
                     /\ ~Lost' => pending'.remaining <=
                           pending'.total + (IF pending'.running THEN issuedAge ELSE 0)
    BY <1>6 DEF TypeOK, TimersInv
  <1>7. CASE ~(d.on /\ Pending /\ shown.set = pending.total)
    <2>1. UNCHANGED pending
      BY <1>7 DEF Normalized
    <2> HIDE DEF shown
    <2> QED BY <1>3, <1>4, <1>5, <1>6, <2>1 DEF shown
  <1>8. CASE d.on /\ Pending /\ shown.set = pending.total
    <2> DEFINE running == d.phase = "cooking"
               since == IF running THEN issuedAge ELSE 0
               left == LiveRemaining(shown, age)
    <2>1. pending' = [pending EXCEPT !.remaining = left + since, !.running = running]
      BY <1>8 DEF Normalized
    <2>2. pending \in Issued /\ pending # NoCook /\ issuedAge \in 0..ISSUE_GRACE
      BY <1>0, <1>8 DEF Pending, TypeOK, InGrace, ValuesInv
    <2>3. pending.total \in 1..MaxTotal
      BY <2>2 DEF Issued
    <2>4. /\ left \in 0..MaxTotal
          /\ shown.left <= shown.set /\ shown.set # 0 => left <= shown.set
      <3>1. age \in Nat /\ staged.seconds \in 1..MaxTotal
        BY <1>0 DEF TypeOK
      <3> HIDE DEF shown
      <3> QED BY <1>2, <3>1, LiveRemainingIs
    <2>5. since \in 0..ISSUE_GRACE /\ running \in BOOLEAN
      BY <1>0, <2>2
    <2>6. ~Lost' => left <= pending.total
      <3>1. shown.set \in 1..MaxTotal
        BY <1>8, <2>3
      <3>2. ~Lost' => shown.left <= shown.set
        <4> HIDE DEF shown
        <4> QED BY <1>0, <1>1, <1>2
      <3> HIDE DEF shown, left
      <3> QED BY <1>0, <1>8, <2>4, <3>1, <3>2
    <2> HIDE DEF left, since, running
    <2>7. /\ left + since \in 0..(MaxTotal + ISSUE_GRACE)
          /\ ~Lost' => left + since <= pending.total + since
      BY <1>0, <2>3, <2>4, <2>5, <2>6
    <2>8. /\ pending' \in Issued /\ pending'.total = pending.total
          /\ pending'.remaining = left + since /\ pending'.running = running
          /\ pending'.temp = pending.temp /\ pending'.target = pending.target
      BY <2>1, <2>2, <2>5, <2>7 DEF Issued
    <2>9. IF pending'.running THEN since = issuedAge ELSE since = 0
      BY <2>8 DEF since
    <2>10. pending' # NoCook
      BY <2>8, NoCookAssumption
    <2> HIDE DEF shown
    <2> QED BY <1>3, <1>4, <1>5, <2>2, <2>7, <2>8, <2>9, <2>10 DEF shown
  <1> QED BY <1>7, <1>8

\* A poll shows the grill as it is, or once more what it showed before.
LEMMA PollStep == ASSUME IInv, Poll PROVE IInv'
  <1> USE DEF IInv
  <1>0. ISSUE_GRACE \in Nat /\ LAG \in Nat /\ LAG <= ISSUE_GRACE /\ MaxTotal \in Nat
    BY LagAssumption, ValuesAssumption
  <1>1. UNCHANGED <<grill, local, issuedAge, staged, command, acted, forgot>>
    BY DEF Poll
  <1>2. PICK d \in {Framed, data}, age \in {0, dataAge} :
           /\ Normalized(d, age)
           /\ \/ d = Framed /\ age = 0 /\ Expect(~forgot)
              \/ d = data /\ age = dataAge /\ Expect(~Mixed)
    BY DEF Poll
  <1>3. Framed \in Views
    <2>1. grill \in Cooks /\ staged.target \in Targets /\ (grill.phase = "cooking") \in BOOLEAN
      BY DEF TypeOK
    <2> QED BY <1>0, <2>1 DEF Framed, Cooks, Views
  <1> Framed.estimated = FALSE /\ Framed.left = grill.left /\ Framed.set = grill.set
    BY DEF Framed
  <1>4. d \in Views /\ age \in 0..LAG /\ dataAge \in 0..LAG
    BY <1>0, <1>2, <1>3 DEF TypeOK
  <1>5. /\ asked' \in Asked /\ asked'.temp = asked.temp /\ asked'.target = asked.target
        /\ asked'.total = asked.total \/ Lost'
        /\ ~Lost' => ~Lost /\ asked' = asked
    BY <1>2 DEF Expect, TypeOK, Asked, Lost
  <1>6. ~Lost' => d.left <= d.set
    <2>1. CASE d = Framed
      BY <2>1 DEF Framed, TimersInv
    <2>2. CASE d = data /\ Expect(~Mixed)
      <3>1. ~Lost' => ~Mixed
        BY <2>2 DEF Expect, TypeOK, Lost
      <3>2. data.left \in Int /\ data.set \in Int
        BY <1>0 DEF TypeOK, Views
      <3> QED BY <2>2, <3>1, <3>2 DEF TimersInv, Mixed
    <2> QED BY <1>2, <2>1, <2>2
  <1>7. /\ pending' \in Issued \cup {NoCook} /\ (pending' = NoCook <=> pending = NoCook)
        /\ pending' # NoCook =>
              /\ pending'.temp = pending.temp /\ pending'.target = pending.target
              /\ pending'.total = pending.total
              /\ ~Lost' => pending'.remaining <=
                    pending'.total + (IF pending'.running THEN issuedAge ELSE 0)
        /\ \/ override' = override
           \/ override' = <<>> /\ ~d.on /\ ~InGrace
        /\ dataAge' = age /\ data' \in Views
        /\ data'.left = d.left /\ d.set <= data'.set
        /\ data' = IF d.on THEN [d EXCEPT !.set = SecondsSet(@)] ELSE d
    BY <1>2, <1>4, <1>5, <1>6, NormalizedIs
  <1>8. /\ data'.on = d.on /\ data'.temp = d.temp /\ data'.target = d.target
        /\ data'.estimated = d.estimated
        /\ data'.set = IF d.on THEN SecondsSet(d.set) ELSE d.set
    BY <1>4, <1>7 DEF Views
  <1>9. timer' = timer \/ timer' = Off
    BY DEF Poll
  <1>10. TypeOK'
    <2>1. timer' \in Off..MaxTotal
      BY <1>0, <1>9 DEF TypeOK, Off
    <2> QED BY <1>1, <1>4, <1>5, <1>7, <2>1 DEF TypeOK, Asked
  <1>11. CommandInv' /\ TotalKept'
    BY <1>1, <1>5 DEF CommandInv, TotalKept, Wanted
  <1>12. ValuesInv'
    <2>1. Wanted(grill)' /\ (local' => Wanted(staged)') /\ (pending' # NoCook => Wanted(pending)')
      BY <1>1, <1>5, <1>7 DEF ValuesInv, Wanted
    <2>2. (pending' # NoCook => InGrace') /\ (pending' = NoCook => ~InGrace')
      BY <1>1, <1>7 DEF ValuesInv, InGrace
    <2>3. data'.estimated => local'
      <3>1. d.estimated => local
        BY <1>2 DEF ValuesInv
      <3> QED BY <1>1, <1>8, <3>1
    <2>4. ASSUME Fresh'
          PROVE  data'.target \in asked'.target /\ (data'.estimated \/ data'.temp \in asked'.temp)
      <3>1. CASE d = Framed
        BY <1>5, <1>8, <3>1 DEF Framed, ValuesInv, Wanted
      <3>2. CASE d = data /\ age = dataAge
        BY <1>1, <1>5, <1>7, <1>8, <2>4, <3>2 DEF ValuesInv, Fresh
      <3> QED BY <1>2, <3>1, <3>2
    <2> QED BY <2>1, <2>2, <2>3, <2>4 DEF ValuesInv
  <1>13. TimersInv'
    <2>1. grill'.left <= grill'.set /\ (override' # <<>> => override'[1] <= override'[2])
      BY <1>1, <1>7 DEF TimersInv
    <2>2. pending' # NoCook /\ ~Lost' =>
             pending'.remaining <= pending'.total + (IF pending'.running THEN issuedAge' ELSE 0)
      BY <1>1, <1>7
    <2>3. data'.left > data'.set => data'.estimated
      <3>1. d.left > d.set => d.estimated
        BY <1>0, <1>2 DEF TimersInv, TypeOK, Cooks
      <3>2. d.left \in Int /\ d.set \in Int /\ data'.set \in Int
        BY <1>0, <1>4, <1>7 DEF Views
      <3> QED BY <1>7, <1>8, <3>1, <3>2
    <2>4. local' /\ Sound' => timer' <= staged'.seconds
      <3>1. Sound' => Sound
        BY <1>1, <1>5 DEF Sound
      <3>2. staged.seconds \in 1..MaxTotal
        BY DEF TypeOK
      <3> QED BY <1>0, <1>1, <1>9, <3>1, <3>2 DEF TimersInv, Off
    <2>5. Sound' => data'.left <= data'.set
      <3>1. d.left \in Int /\ d.set \in Int /\ data'.set \in Int
        BY <1>0, <1>4, <1>7 DEF Views
      <3> QED BY <1>6, <1>7, <3>1 DEF Sound
    <2> QED BY <2>1, <2>2, <2>3, <2>4, <2>5 DEF TimersInv
  <1>14. TotalInv'
    <2> SUFFICES ASSUME ~Lost' PROVE TotalInv'
      BY DEF TotalInv
    <2>1. ~Lost /\ asked' = asked
      BY <1>5
    <2>2. ~InGrace => Fresh
      BY <1>0, <1>4 DEF InGrace, Fresh, TypeOK
    <2>3. /\ pending' # NoCook => pending'.total \in asked'.total
          /\ override' # <<>> => override'[2] \in asked'.total
          /\ local' => staged'.seconds \in asked'.total
      BY <1>1, <1>7, <2>1 DEF TotalInv
    <2>4. \A n : SecondsSet(n)' = SecondsSet(n) \/ (override' = <<>> /\ ~d.on /\ ~InGrace)
      BY <1>7 DEF SecondsSet
    <2>5. ~acted /\ ~InGrace /\ ~d.on => ~grill.on
      <3>1. d = Framed => d.on = grill.on
        BY DEF Framed
      <3> QED BY <1>2, <2>1, <2>2, <3>1 DEF TotalInv
    <2>6. ~acted' /\ ~forgot' /\ grill'.on => SecondsSet(grill.set)' \in asked'.total
      <3>1. ~acted /\ ~forgot /\ grill.on => SecondsSet(grill.set) \in asked.total
        BY <2>1 DEF TotalInv
      <3>2. SecondsSet(grill.set)' = SecondsSet(grill.set) \/ ~(~acted /\ grill.on)
        BY <1>1, <2>4, <2>5 DEF SecondsSet
      <3> QED BY <1>1, <2>1, <3>1, <3>2
    <2>7. ASSUME ~acted', Fresh', data'.on
          PROVE  data'.set \in asked'.total \/ (data'.set = 0 /\ data'.estimated)
      <3>1. CASE d = Framed /\ Expect(~forgot)
        <4>1. ~forgot /\ grill.on /\ d.set = grill.set
          BY <1>8, <2>7, <3>1 DEF Framed, Expect, TypeOK, Lost
        <4> QED BY <1>1, <1>8, <2>1, <2>7, <4>1 DEF TotalInv
      <3>2. CASE d = data /\ age = dataAge
        <4>1. Fresh /\ data.on /\ ~acted
          BY <1>1, <1>7, <1>8, <2>7, <3>2 DEF Fresh
        <4>2. data.set \in asked.total \/ (data.set = 0 /\ data.estimated)
          BY <2>1, <4>1 DEF TotalInv
        <4>3. data.set \in 0..MaxTotal
          BY DEF TypeOK, Views
        <4>4. /\ data.set = 0 => SecondsSet(data.set) = 0
              /\ \/ SecondsSet(data.set) = data.set
                 \/ override # <<>> /\ SecondsSet(data.set) = override[2]
          BY <4>3, SecondsSetIs
        <4>5. override # <<>> => override[2] \in asked.total
          BY <2>1 DEF TotalInv
        <4> QED BY <1>8, <2>1, <3>2, <4>1, <4>2, <4>4, <4>5
      <3> QED BY <1>2, <3>1, <3>2
    <2>8. ~acted' /\ Fresh' /\ ~data'.on => ~grill'.on
      <3>1. CASE d = Framed
        BY <1>1, <1>8, <3>1 DEF Framed
      <3>2. CASE d = data /\ age = dataAge
        BY <1>1, <1>7, <1>8, <2>1, <3>2 DEF TotalInv, Fresh
      <3> QED BY <1>2, <3>1, <3>2
    <2> QED BY <1>1, <2>3, <2>6, <2>7, <2>8 DEF TotalInv
  <1> QED BY <1>10, <1>11, <1>12, <1>13, <1>14

\* What is staged may be shown where there is no frame of the timer: the estimate is one of
\* it, or goes on.
LEMMA EstimatesIs ==
    ASSUME IInv, NEW n \in Estimates
    PROVE  /\ n \in Off..MaxTotal /\ (local /\ Sound => n <= staged.seconds)
           /\ Estimated(n) \in Views
           /\ Estimated(n).on = grill.on /\ Estimated(n).target = staged.target
           /\ Estimated(n).estimated = TRUE
           /\ Estimated(n).set \in {0, staged.seconds}
           /\ local /\ Sound => Estimated(n).left <= Estimated(n).set
  <1> USE DEF IInv
  <1>1. /\ MaxTotal \in Nat /\ staged.seconds \in 1..MaxTotal /\ timer \in Off..MaxTotal
        /\ staged.temp \in Temps /\ staged.target \in Targets
        /\ grill.on \in BOOLEAN /\ grill.phase \in Phases
    BY ValuesAssumption DEF TypeOK, Cooks
  <1>2. n \in {Off, staged.seconds, timer}
    BY DEF Estimates
  <1>3. n \in Off..MaxTotal /\ (local /\ Sound => n <= staged.seconds)
    BY <1>1, <1>2 DEF TimersInv, Off
  <1> DEFINE counts == grill.on /\ grill.phase = "cooking" /\ n # Off
  <1>4. Estimated(n) = [on |-> grill.on, temp |-> staged.temp, target |-> staged.target,
                        phase |-> grill.phase, set |-> IF counts THEN staged.seconds ELSE 0,
                        left |-> IF counts THEN n ELSE 0, ends |-> counts, estimated |-> TRUE]
    BY DEF Estimated
  <1>5. counts \in BOOLEAN /\ (counts => n \in 0..MaxTotal)
    BY <1>1, <1>3 DEF Off
  <1> HIDE DEF counts
  <1> QED BY <1>1, <1>3, <1>4, <1>5 DEF Views

\* A Bluetooth poll without a frame shows what is staged, of a cook that is on or not as the
\* beacon says.
LEMMA FramelessStep == ASSUME IInv, PollFrameless PROVE IInv'
  <1> USE DEF IInv
  <1>0. LAG \in Nat /\ ISSUE_GRACE \in Nat /\ MaxTotal \in Nat
    BY LagAssumption, ValuesAssumption
  <1>1. /\ local /\ dataAge' = 0
        /\ UNCHANGED <<grill, local, pending, issuedAge, staged, command, acted, asked>>
        /\ forgot' \in BOOLEAN /\ (~forgot' => ~forgot /\ override' = override)
        /\ override' = override \/ override' = <<>>
    <2>1. forgot \in BOOLEAN
      BY DEF TypeOK
    <2>2. CASE InGrace
      BY <2>1, <2>2 DEF PollFrameless
    <2>3. CASE ~InGrace
      BY <2>1, <2>3, Zenon DEF PollFrameless
    <2> QED BY <2>2, <2>3
  <1>2. /\ timer' \in Off..MaxTotal /\ (Sound => timer' <= staged.seconds)
        /\ data' \in Views /\ data'.on = grill.on /\ data'.target = staged.target
        /\ data'.estimated = TRUE /\ data'.set \in {0, staged.seconds}
        /\ Sound => data'.left <= data'.set
    <2>1. timer' \in Estimates /\ data' = Estimated(timer')
      BY DEF PollFrameless
    <2> QED BY <1>1, <2>1, EstimatesIs
  <1>3. TypeOK'
    BY <1>0, <1>1, <1>2 DEF TypeOK
  <1>4. CommandInv' /\ TotalKept'
    BY <1>1 DEF CommandInv, TotalKept, Wanted, Lost
  <1>5. ValuesInv'
    BY <1>1, <1>2 DEF ValuesInv, Wanted, InGrace
  <1>6. TimersInv'
    <2>1. Sound' <=> Sound
      BY <1>1 DEF Sound, Lost
    <2> QED BY <1>1, <1>2, <2>1 DEF TimersInv, Lost
  <1>7. TotalInv'
    BY <1>1, <1>2 DEF TotalInv, SecondsSet, Lost
  <1> QED BY <1>3, <1>4, <1>5, <1>6, <1>7

\* So does a beacon, if that is what is shown already; otherwise it changes no number.
LEMMA BeaconStep == ASSUME IInv, Beacon PROVE IInv'
  <1> USE DEF IInv
  <1>0. LAG \in Nat /\ ISSUE_GRACE \in Nat /\ MaxTotal \in Nat
    BY LagAssumption, ValuesAssumption
  <1>1. /\ local
        /\ UNCHANGED <<grill, local, pending, issuedAge, override, staged, command, acted,
                       asked, forgot>>
    BY DEF Beacon, sent, history
  <1>2. (Sound' <=> Sound) /\ (Lost' <=> Lost)
    BY <1>1 DEF Sound, Lost
  <1>3. timer' \in Estimates \/ timer' = timer \/ timer' = Off
    BY DEF Beacon
  <1>4. timer' \in Off..MaxTotal /\ (Sound => timer' <= staged.seconds)
    <2>1. timer \in Off..MaxTotal /\ staged.seconds \in 1..MaxTotal
      BY DEF TypeOK
    <2>2. Sound => timer <= staged.seconds
      BY <1>1 DEF TimersInv
    <2>3. CASE timer' \in Estimates
      BY <1>1, <2>3, EstimatesIs
    <2>4. CASE timer' = timer \/ timer' = Off
      BY <1>0, <2>1, <2>2, <2>4 DEF Off
    <2> QED BY <1>3, <2>3, <2>4
  <1>5. CommandInv' /\ TotalKept'
    BY <1>1, <1>2 DEF CommandInv, TotalKept, Wanted
  <1>6. CASE data.estimated /\ data' = Estimated(timer') /\ timer' \in Estimates /\ dataAge' = 0
    <2>1. /\ data' \in Views /\ data'.on = grill.on /\ data'.target = staged.target
          /\ data'.estimated = TRUE /\ data'.set \in {0, staged.seconds}
          /\ Sound => data'.left <= data'.set
      BY <1>1, <1>6, EstimatesIs
    <2>2. TypeOK'
      BY <1>0, <1>1, <1>4, <1>6, <2>1 DEF TypeOK
    <2>3. ValuesInv'
      BY <1>1, <2>1 DEF ValuesInv, Wanted, InGrace
    <2>4. TimersInv'
      BY <1>1, <1>2, <1>4, <2>1 DEF TimersInv
    <2>5. TotalInv'
      BY <1>1, <1>2, <2>1 DEF TotalInv, SecondsSet
    <2> QED BY <1>5, <2>2, <2>3, <2>4, <2>5
  <1>7. CASE /\ data' = [data EXCEPT !.on = grill.on, !.phase = grill.phase,
                                     !.target = staged.target]
             /\ dataAge' = dataAge
    <2>1. data \in Views /\ grill.on \in BOOLEAN /\ grill.phase \in Phases /\ staged.target \in Targets
      BY DEF TypeOK, Cooks
    <2>2. /\ data' \in Views /\ data'.on = grill.on /\ data'.target = staged.target
          /\ data'.estimated = data.estimated /\ data'.set = data.set /\ data'.left = data.left
          /\ data'.temp = data.temp
      BY <1>7, <2>1 DEF Views
    <2>3. TypeOK'
      BY <1>1, <1>4, <1>7, <2>2 DEF TypeOK
    <2>4. ValuesInv'
      BY <1>1, <1>7, <2>2 DEF ValuesInv, Wanted, InGrace, Fresh
    <2>5. TimersInv'
      BY <1>1, <1>2, <1>4, <1>7, <2>2 DEF TimersInv, Fresh
    <2>6. TotalInv'
      BY <1>1, <1>2, <1>7, <2>2 DEF TotalInv, SecondsSet, Fresh
    <2> QED BY <1>5, <2>3, <2>4, <2>5, <2>6
  <1> QED BY <1>6, <1>7 DEF Beacon

\* A change is a cook that is wanted but for the setting that is changed, and as long as
\* the cook was asked to be.
LEMMA ReissueStep ==
    ASSUME IInv, NEW duration \in BOOLEAN,
           NEW change \in [temp : Temps, target : Targets, remaining : Nat, elapsed : Nat],
           NEW rest \in Nat,
           command = NoCook, Changeable, Reissue(duration, change, rest),
           UNCHANGED <<grill, local, view, sent, timer, forgot>>,
           staged' \in [temp : Temps, target : Targets, seconds : 1..MaxTotal],
           asked' \in Asked,
           asked.temp \subseteq asked'.temp, asked.target \subseteq asked'.target,
           ~Lost' => ~Lost /\ asked.total \subseteq asked'.total,
           change.temp \in asked'.temp, change.target \in asked'.target,
           local => staged'.temp \in asked'.temp /\ staged'.target \in asked'.target,
           local /\ ~Lost' => staged'.seconds \in asked'.total,
           ~duration => staged'.seconds = staged.seconds /\ rest = Base.remaining
    PROVE  IInv'
  <1> USE DEF IInv
  <1>0. MaxTotal \in Nat /\ MIN_REMAINING \in 1..MaxTotal
    BY ValuesAssumption, RemainingAssumption
  <1>1. ~acted /\ Active /\ Base.remaining > 0
    BY DEF Changeable, CommandInv, TypeOK
  <1>2. /\ Base.elapsed \in Nat /\ Base.remaining \in Nat
        /\ ~Lost => Base.elapsed + Base.remaining \in asked.total
    BY BaseIs
  <1>3. /\ UNCHANGED <<grill, local, data, dataAge, pending, issuedAge, override, timer, forgot>>
        /\ acted' = FALSE
    BY DEF Reissue, view, sent
  <1>4. PICK longest \in Longests :
           /\ Base.elapsed + Clamped(rest, longest) <= MaxTotal
           /\ command' = [duration |-> duration, temp |-> change.temp,
                          target |-> change.target, seconds |-> Clamped(rest, longest),
                          cut |-> rest > longest, total |-> Base.elapsed + Clamped(rest, longest),
                          skip |-> ~Preheating, running |-> TimerRunning]
    BY DEF Reissue
  <1> DEFINE seconds == Clamped(rest, longest)
  <1>5. longest \in MIN_REMAINING..MaxTotal
    BY LongestsAssumption
  <1>6. seconds = IF rest < MIN_REMAINING THEN MIN_REMAINING
                  ELSE IF rest > longest THEN longest ELSE rest
    BY <1>0, <1>5 DEF Clamped, AtLeast
  <1>7. /\ seconds \in 1..MaxTotal /\ Base.elapsed + seconds \in 1..MaxTotal
        /\ seconds <= Base.elapsed + seconds
    <2>1. seconds \in Nat /\ seconds >= MIN_REMAINING /\ Base.elapsed + seconds <= MaxTotal
      BY <1>0, <1>4, <1>5, <1>6
    <2> HIDE DEF seconds
    <2> QED BY <1>0, <1>2, <2>1
  <1>8. /\ command'.temp = change.temp /\ command'.target = change.target
        /\ command'.seconds = seconds /\ command'.total = Base.elapsed + seconds
        /\ command'.duration = duration /\ command'.cut = (rest > longest)
    BY <1>4
  <1>9. command' \in Sent
    <2>1. change.temp \in Temps /\ change.target \in Targets
      OBVIOUS
    <2>2. (~Preheating) \in BOOLEAN /\ TimerRunning \in BOOLEAN
      BY Zenon DEF Preheating, TimerRunning
    <2>3. (rest > longest) \in BOOLEAN
      BY <1>5, LongestsAssumption
    <2> DEFINE cut == rest > longest
    <2>4. cut \in BOOLEAN
      BY <2>3
    <2>5. command' = [duration |-> duration, temp |-> change.temp, target |-> change.target,
                      seconds |-> seconds, cut |-> cut, total |-> Base.elapsed + seconds,
                      skip |-> ~Preheating, running |-> TimerRunning]
      BY <1>4
    <2> HIDE DEF seconds, cut
    <2> QED BY <1>7, <2>1, <2>2, <2>4, <2>5 DEF Sent
  <1>10. command' # NoCook
    BY <1>9, NoCookAssumption
  <1> HIDE DEF seconds
  <1>11. TypeOK'
    BY <1>3, <1>9 DEF TypeOK, Asked
  <1>12. CommandInv'
    BY <1>3, <1>7, <1>8 DEF CommandInv, Wanted
  <1>13. ValuesInv'
    BY <1>3 DEF ValuesInv, Wanted, Fresh, InGrace
  <1>14. TimersInv'
    <2>1. Sound' => Sound /\ (local => ~duration)
      BY <1>3, <1>8, <1>10 DEF Sound
    <2> QED BY <1>1, <1>3, <2>1 DEF TimersInv, Fresh
  <1>15. TotalInv'
    BY <1>1, <1>3 DEF TotalInv, SecondsSet, Fresh
  <1>16. TotalKept'
    <2> SUFFICES ASSUME ~duration, ~Lost'
                 PROVE  \E n \in asked'.total :
                           \/ command'.total = n
                           \/ /\ command'.seconds = MIN_REMAINING
                              /\ command'.total - n \in 1..(MIN_REMAINING - 1)
                           \/ command'.cut /\ command'.total < n
      BY <1>8 DEF TotalKept
    <2> DEFINE n == Base.elapsed + Base.remaining
    <2>1. n \in asked'.total
      BY <1>2
    <2>2. rest = Base.remaining /\ command'.total = Base.elapsed + seconds
          /\ command'.seconds = seconds
      BY <1>8
    <2>3. CASE rest < MIN_REMAINING
      <3>1. command'.seconds = MIN_REMAINING /\ command'.total - n \in 1..(MIN_REMAINING - 1)
        BY <1>0, <1>1, <1>2, <1>6, <2>2, <2>3
      <3> HIDE DEF n
      <3> QED BY <2>1, <3>1
    <2>4. CASE ~(rest < MIN_REMAINING) /\ rest > longest
      <3>1. command'.cut
        BY <1>8, <2>4
      <3>2. command'.total < n
        BY <1>0, <1>2, <1>5, <1>6, <2>2, <2>4
      <3> HIDE DEF n
      <3> QED BY <2>1, <3>1, <3>2
    <2>5. CASE ~(rest < MIN_REMAINING) /\ ~(rest > longest)
      BY <1>6, <2>1, <2>2, <2>5
    <2> QED BY <2>3, <2>4, <2>5
  <1> QED BY <1>11, <1>12, <1>13, <1>14, <1>15, <1>16

\* A change of a setting, by a number, a select or a switch: staged over Bluetooth whether
\* or not it is sent.
LEMMA ChangeStep ==
    ASSUME IInv,
           \/ \E t \in Temps : SetTemp(t)
           \/ \E g \in Targets : SetTarget(g)
           \/ \E n \in MIN_REMAINING..MaxTotal : SetTotal(n)
    PROVE  IInv'
  <1> USE DEF IInv
  <1>0. MaxTotal \in Nat /\ MIN_REMAINING \in 1..MaxTotal
    BY ValuesAssumption, RemainingAssumption
  <1>1. /\ command = NoCook
        /\ UNCHANGED <<grill, local, view, sent, timer, forgot>>
    BY DEF SetTemp, SetTarget, SetTotal, Stage
  <1>2. asked \in Asked /\ local \in BOOLEAN
        /\ staged \in [temp : Temps, target : Targets, seconds : 1..MaxTotal]
    BY DEF TypeOK, Asked
  <1>3. Changeable => /\ Base \in [temp : Temps, target : Targets, remaining : Nat, elapsed : Nat]
                      /\ Base.temp \in asked.temp /\ Base.target \in asked.target
    BY <1>1, BaseIs DEF Wanted
  <1>4. local => Wanted(staged)
    BY DEF ValuesInv
  <1>5. local /\ ~Lost => staged.seconds \in asked.total
    BY DEF TotalInv
  <1>6. ASSUME UNCHANGED <<command, acted>>,
               staged' \in [temp : Temps, target : Targets, seconds : 1..MaxTotal],
               asked' \in Asked,
               asked.temp \subseteq asked'.temp, asked.target \subseteq asked'.target,
               ~Lost' => ~Lost /\ asked'.total = asked.total /\ staged'.seconds = staged.seconds,
               local => staged'.temp \in asked'.temp /\ staged'.target \in asked'.target
        PROVE  IInv'
    <2>1. UNCHANGED <<grill, local, data, dataAge, pending, issuedAge, override, timer, forgot>>
      BY <1>1 DEF view, sent
    <2>2. TypeOK'
      BY <1>6, <2>1 DEF TypeOK, Asked
    <2>3. CommandInv' /\ TotalKept'
      BY <1>1, <1>6, <2>1 DEF CommandInv, TotalKept
    <2>4. ValuesInv'
      BY <1>6, <2>1 DEF ValuesInv, Wanted, Fresh, InGrace
    <2>5. TimersInv'
      <3>1. Sound' => Sound /\ staged'.seconds = staged.seconds
        BY <1>6, <2>1 DEF Sound
      <3> QED BY <1>6, <2>1, <3>1 DEF TimersInv, Fresh
    <2>6. TotalInv'
      BY <1>6, <2>1 DEF TotalInv, SecondsSet, Fresh
    <2> QED BY <2>2, <2>3, <2>4, <2>5, <2>6
  <1>7. ASSUME NEW t \in Temps, SetTemp(t) PROVE IInv'
    <2>1. /\ staged' = IF local THEN [staged EXCEPT !.temp = t] ELSE staged
          /\ asked' = IF Changeable \/ local THEN [asked EXCEPT !.temp = @ \cup {t}] ELSE asked
      BY <1>7 DEF SetTemp, Stage, Asks
    <2>2. /\ staged' \in [temp : Temps, target : Targets, seconds : 1..MaxTotal]
          /\ staged'.seconds = staged.seconds /\ staged'.target = staged.target
          /\ staged'.temp = IF local THEN t ELSE staged.temp
      BY <1>2, <2>1
    <2>3. /\ asked' \in Asked /\ asked.temp \subseteq asked'.temp
          /\ Changeable \/ local => t \in asked'.temp
          /\ asked'.target = asked.target /\ asked'.total = asked.total /\ (Lost' <=> Lost)
      BY <1>2, <2>1 DEF Asked, Lost
    <2>4. local => staged'.temp \in asked'.temp /\ staged'.target \in asked'.target
      BY <1>4, <2>2, <2>3 DEF Wanted
    <2>5. CASE Changeable
      <3> DEFINE change == [Base EXCEPT !.temp = t]
      <3>1. Reissue(FALSE, change, Base.remaining)
        BY <1>7, <2>5 DEF SetTemp
      <3>2. /\ change \in [temp : Temps, target : Targets, remaining : Nat, elapsed : Nat]
            /\ change.temp = t /\ change.target = Base.target /\ Base.remaining \in Nat
        BY <1>3, <2>5
      <3> HIDE DEF change
      <3> QED BY <1>1, <1>3, <1>5, <2>2, <2>3, <2>4, <2>5, <3>1, <3>2, ReissueStep
    <2>6. CASE ~Changeable
      <3>1. UNCHANGED <<command, acted>>
        BY <1>7, <2>6 DEF SetTemp
      <3> QED BY <1>6, <2>2, <2>3, <2>4, <3>1
    <2> QED BY <2>5, <2>6
  <1>8. ASSUME NEW g \in Targets, SetTarget(g) PROVE IInv'
    <2> DEFINE sends == Changeable /\ g # Shown.target
    <2>1. /\ staged' = IF local THEN [staged EXCEPT !.target = g] ELSE staged
          /\ asked' = IF sends \/ local THEN [asked EXCEPT !.target = @ \cup {g}] ELSE asked
      BY <1>8 DEF SetTarget, Stage, Asks
    <2>2. /\ staged' \in [temp : Temps, target : Targets, seconds : 1..MaxTotal]
          /\ staged'.seconds = staged.seconds /\ staged'.temp = staged.temp
          /\ staged'.target = IF local THEN g ELSE staged.target
      BY <1>2, <2>1
    <2>3. /\ asked' \in Asked /\ asked.target \subseteq asked'.target
          /\ sends \/ local => g \in asked'.target
          /\ asked'.temp = asked.temp /\ asked'.total = asked.total /\ (Lost' <=> Lost)
      BY <1>2, <2>1 DEF Asked, Lost
    <2>4. local => staged'.temp \in asked'.temp /\ staged'.target \in asked'.target
      BY <1>4, <2>2, <2>3 DEF Wanted
    <2>5. CASE sends
      <3> DEFINE change == [Base EXCEPT !.target = g]
      <3>1. Reissue(FALSE, change, Base.remaining)
        BY <1>8, <2>5 DEF SetTarget
      <3>2. /\ change \in [temp : Temps, target : Targets, remaining : Nat, elapsed : Nat]
            /\ change.target = g /\ change.temp = Base.temp /\ Base.remaining \in Nat
        BY <1>3, <2>5
      <3> HIDE DEF change
      <3> QED BY <1>1, <1>3, <1>5, <2>2, <2>3, <2>4, <2>5, <3>1, <3>2, ReissueStep
    <2>6. CASE ~sends
      <3>1. UNCHANGED <<command, acted>>
        BY <1>8, <2>6 DEF SetTarget
      <3> QED BY <1>6, <2>2, <2>3, <2>4, <3>1
    <2> QED BY <2>5, <2>6
  <1>9. ASSUME NEW n \in MIN_REMAINING..MaxTotal, SetTotal(n) PROVE IInv'
    <2> DEFINE sends == Changeable /\ n >= Base.elapsed + MIN_REMAINING
    <2>1. staged' = IF local THEN [staged EXCEPT !.seconds = n] ELSE staged
      BY <1>9 DEF SetTotal, Stage
    <2>2. /\ staged' \in [temp : Temps, target : Targets, seconds : 1..MaxTotal]
          /\ staged'.temp = staged.temp /\ staged'.target = staged.target
          /\ staged'.seconds = IF local THEN n ELSE staged.seconds
      BY <1>0, <1>2, <2>1
    <2>3. CASE sends
      <3>1. /\ Reissue(TRUE, Base, n - Base.elapsed)
            /\ asked' = IF Lost THEN asked ELSE [asked EXCEPT !.total = @ \cup {n}]
        BY <1>9, <2>3 DEF SetTotal
      <3>2. /\ asked' \in Asked /\ asked'.temp = asked.temp /\ asked'.target = asked.target
            /\ ~Lost' => ~Lost /\ asked'.total = asked.total \cup {n}
        BY <1>0, <1>2, <3>1 DEF Asked, Lost
      <3>3. n - Base.elapsed \in Nat
        BY <1>0, <1>3, <2>3
      <3>4. local => staged'.temp \in asked'.temp /\ staged'.target \in asked'.target
        BY <1>4, <2>2, <3>2 DEF Wanted
      <3>5. local /\ ~Lost' => staged'.seconds \in asked'.total
        BY <2>2, <3>2
      <3> QED BY <1>1, <1>3, <2>2, <2>3, <3>1, <3>2, <3>3, <3>4, <3>5, ReissueStep
    <2>4. CASE ~sends
      <3>1. Expect(~local) /\ UNCHANGED <<command, acted>>
        BY <1>9, <2>4 DEF SetTotal
      <3>2. /\ asked' \in Asked /\ asked'.temp = asked.temp /\ asked'.target = asked.target
            /\ ~Lost' => ~Lost /\ asked'.total = asked.total /\ ~local
        BY <1>2, <3>1 DEF Expect, Asked, Lost
      <3>3. local => staged'.temp \in asked'.temp /\ staged'.target \in asked'.target
        BY <1>4, <2>2, <3>2 DEF Wanted
      <3> QED BY <1>6, <2>2, <3>1, <3>2, <3>3
    <2> QED BY <2>3, <2>4
  <1> QED BY <1>7, <1>8, <1>9

\* The grill takes the command.
LEMMA ActStep == ASSUME IInv, Act PROVE IInv'
  <1> USE DEF IInv
  <1>1. UNCHANGED <<local, data, dataAge, pending, issuedAge, override, staged, timer, command,
                    asked, forgot>>
    BY DEF Act, view, sent, estimate, history
  <1>2. command \in Sent /\ command # NoCook /\ acted' = TRUE
    BY DEF Act, TypeOK
  <1>3. PICK phase \in Phases :
           grill' = [on |-> TRUE, temp |-> command.temp, target |-> command.target,
                     phase |-> phase, set |-> command.seconds, left |-> command.seconds]
    <2>1. grill.phase \in Phases
      BY DEF TypeOK, Cooks
    <2> QED BY <2>1 DEF Act, Phases
  <1>4. MaxTotal \in Nat /\ command.seconds \in 1..MaxTotal /\ command.seconds \in 0..MaxTotal
    BY <1>2, ValuesAssumption DEF Sent
  <1>5. grill' \in Cooks
    BY <1>2, <1>3, <1>4 DEF Cooks, Sent
  <1>6. TypeOK'
    BY <1>1, <1>2, <1>5 DEF TypeOK
  <1>7. CommandInv' /\ ValuesInv' /\ TotalKept'
    BY <1>1, <1>2, <1>3 DEF CommandInv, ValuesInv, TotalKept, Wanted, Fresh, InGrace, Lost
  <1>8. TimersInv' /\ TotalInv'
    BY <1>1, <1>2, <1>3, <1>4 DEF TimersInv, TotalInv, Sound, Lost
  <1> QED BY <1>6, <1>7, <1>8

\* The command has succeeded: it is what is pending, and all that is wanted.
LEMMA SucceedStep == ASSUME IInv, Succeed PROVE IInv'
  <1> USE DEF IInv
  <1>0. MaxTotal \in Nat /\ ISSUE_GRACE \in Nat
    BY ValuesAssumption, LagAssumption
  <1>1. command \in Sent /\ command # NoCook /\ acted
    BY DEF Succeed, CommandInv, TypeOK
  <1>2. /\ pending' = [temp |-> command.temp, target |-> command.target,
                       remaining |-> command.seconds, total |-> command.total,
                       running |-> command.running]
        /\ issuedAge' = 0 /\ command' = NoCook /\ acted' = FALSE /\ forgot' = FALSE
        /\ asked' = [temp |-> {command.temp},
                     total |-> IF Lost /\ ~command.duration THEN {} ELSE {command.total},
                     target |-> {command.target} \cup IF local THEN {staged.target} ELSE {}]
        /\ UNCHANGED <<grill, local, data, dataAge>>
        /\ override' = IF command.total # command.seconds
                       THEN <<command.seconds, command.total>> ELSE <<>>
        /\ staged' = IF local THEN [staged EXCEPT !.temp = command.temp,
                                                  !.seconds = command.total]
                     ELSE staged
        /\ timer' = IF timer = Off THEN Off ELSE command.seconds
    BY DEF Succeed, view
  <1>3. /\ command.seconds \in 1..MaxTotal /\ command.total \in 1..MaxTotal
        /\ command.seconds <= command.total
        /\ command.temp \in Temps /\ command.target \in Targets /\ command.running \in BOOLEAN
    BY <1>1 DEF Sent, CommandInv
  <1>4. command.seconds \in 0..(MaxTotal + ISSUE_GRACE)
    BY <1>0, <1>3
  <1>5. pending' \in Issued /\ pending' # NoCook
    BY <1>2, <1>3, <1>4, NoCookAssumption DEF Issued
  <1>6. issuedAge' \in 0..(ISSUE_GRACE + 1) /\ dataAge \in Nat /\ ~Fresh' /\ InGrace'
    BY <1>0, <1>2, LagAssumption DEF TypeOK, Fresh, InGrace
  <1>7. staged \in [temp : Temps, target : Targets, seconds : 1..MaxTotal]
    BY DEF TypeOK
  <1>8. /\ asked' \in Asked
        /\ command.temp \in asked'.temp /\ command.target \in asked'.target
        /\ local => staged.target \in asked'.target
        /\ ~Lost' => asked'.total = {command.total}
    BY <1>2, <1>3, <1>7 DEF Asked, Lost
  <1>9. /\ staged' \in [temp : Temps, target : Targets, seconds : 1..MaxTotal]
        /\ local => /\ staged'.temp = command.temp /\ staged'.target = staged.target
                    /\ staged'.seconds = command.total
    BY <1>2, <1>3, <1>7
  <1>10. timer' \in Off..MaxTotal /\ timer' <= command.total
    BY <1>0, <1>2, <1>3 DEF Off
  <1>11. TypeOK'
    <2>1. override' = <<>> \/ override' \in (1..MaxTotal) \X (1..MaxTotal)
      BY <1>2, <1>3
    <2> QED BY <1>2, <1>5, <1>6, <1>8, <1>9, <1>10, <2>1 DEF TypeOK, Asked
  <1>12. CommandInv' /\ TotalKept'
    BY <1>2 DEF CommandInv, TotalKept
  <1>13. ValuesInv'
    <2>1. grill.temp = command.temp /\ grill.target = command.target
      BY <1>1 DEF CommandInv
    <2>2. pending'.temp = command.temp /\ pending'.target = command.target
      BY <1>2
    <2>3. data.estimated => local
      BY DEF ValuesInv
    <2> QED BY <1>2, <1>5, <1>6, <1>8, <1>9, <2>1, <2>2, <2>3 DEF ValuesInv, Wanted
  <1>14. TimersInv'
    <2>1. pending'.remaining <= pending'.total + (IF pending'.running THEN issuedAge' ELSE 0)
      BY <1>0, <1>2, <1>3
    <2>2. override' # <<>> => override'[1] <= override'[2]
      BY <1>2, <1>3
    <2>3. local' => timer' <= staged'.seconds
      BY <1>2, <1>9, <1>10
    <2> QED BY <1>2, <1>6, <2>1, <2>2, <2>3 DEF TimersInv
  <1>15. TotalInv'
    <2>1. grill.set = command.seconds
      BY <1>1 DEF CommandInv
    <2>2. SecondsSet(grill.set)' = command.total
      BY <1>2, <2>1 DEF SecondsSet
    <2>3. (override' # <<>> => override'[2] = command.total) /\ pending'.total = command.total
      BY <1>2
    <2> QED BY <1>2, <1>6, <1>8, <1>9, <2>2, <2>3 DEF TotalInv
  <1> QED BY <1>11, <1>12, <1>13, <1>14, <1>15

\* The command has failed, or it is not known what became of it.
LEMMA FailStep == ASSUME IInv, Fail PROVE IInv'
  <1> USE DEF IInv
  <1>1. /\ UNCHANGED <<grill, local, data, dataAge, pending, issuedAge, override, staged, timer,
                       forgot>>
        /\ command # NoCook /\ command' = NoCook /\ acted' = FALSE
    BY DEF Fail, view, sent, estimate
  <1>2. /\ asked' \in Asked /\ asked'.temp = asked.temp /\ asked'.target = asked.target
        /\ ~Lost' => ~Lost /\ asked'.total = asked.total /\ ~acted
                     /\ ~(local /\ command.duration)
    BY DEF Fail, Expect, TypeOK, Asked, Lost
  <1>3. TypeOK'
    BY <1>1, <1>2 DEF TypeOK, Asked
  <1>4. CommandInv' /\ TotalKept'
    BY <1>1 DEF CommandInv, TotalKept
  <1>5. ValuesInv'
    BY <1>1, <1>2 DEF ValuesInv, Wanted, Fresh, InGrace
  <1>6. TimersInv'
    <2>1. Sound' => Sound /\ ~acted
      BY <1>1, <1>2 DEF Sound
    <2> QED BY <1>1, <1>2, <2>1 DEF TimersInv, Fresh
  <1>7. TotalInv'
    BY <1>1, <1>2 DEF TotalInv, SecondsSet, Fresh
  <1> QED BY <1>3, <1>4, <1>5, <1>6, <1>7
-----------------------------------------------------------------------------
(* The theorems.                                                           *)

\* The inductive invariant: what is pending, in the grill and on the card is wanted, and
\* with the elapsed time put back every timer is the one that was asked for.
THEOREM Invariance == Spec => []IInv
  <1>1. ASSUME IInv, UNCHANGED vars PROVE IInv'
    <2>1. UNCHANGED <<grill, local, data, dataAge, pending, issuedAge, override, staged, timer,
                      command, acted, asked, forgot>>
      BY <1>1 DEF vars, view, sent, estimate, history
    <2>2. TypeOK' /\ CommandInv' /\ ValuesInv' /\ TotalKept'
      BY <1>1, <2>1 DEF IInv, TypeOK, CommandInv, ValuesInv, TotalKept, Wanted, Fresh, InGrace,
                        Lost
    <2>3. TimersInv' /\ TotalInv'
      BY <1>1, <2>1 DEF IInv, TimersInv, TotalInv, Fresh, Sound, Lost, SecondsSet
    <2> QED BY <2>2, <2>3 DEF IInv
  <1>2. IInv /\ [Next]_vars => IInv'
    BY <1>1, GrillStep, TickStep, PollStep, FramelessStep, BeaconStep, ChangeStep, ActStep,
       SucceedStep, FailStep DEF Next
  <1> QED BY InitIInv, <1>2, PTL DEF Spec

\* Every variable has its type: no time is negative, no cook longer than it was asked for.
THEOREM TypeCorrect == Spec => []TypeOK
  <1>1. IInv => TypeOK
    BY DEF IInv
  <1> QED BY <1>1, Invariance, PTL

\* The grill cooks with the values asked for last, however the view lags and whatever
\* failed: a change never takes an earlier one back (coordinator.py:1312-1313).
THEOREM ChangesKept == Spec => []NoRevert
  <1>1. IInv => NoRevert
    BY DEF IInv, ValuesInv, Wanted, NoRevert
  <1> QED BY <1>1, Invariance, PTL

\* The card shows them as well, while the command is pending and after
\* (coordinator.py:755-762).
THEOREM CardKept == Spec => []NoFlicker
  <1>1. ASSUME IInv PROVE NoFlicker
    <2>0. ISSUE_GRACE \in Nat /\ LAG \in Nat /\ LAG <= ISSUE_GRACE
      BY LagAssumption
    <2>1. CASE Pending
      BY <1>1, <2>1 DEF IInv, ValuesInv, Wanted, Pending, NoFlicker, Shown
    <2>2. CASE ~Pending
      <3>1. Fresh
        BY <1>1, <2>0, <2>2 DEF IInv, ValuesInv, TypeOK, Pending, InGrace, Fresh
      <3>2. LiveTemp \in asked.temp /\ data.target \in asked.target
        BY <1>1, <3>1 DEF IInv, ValuesInv, Wanted, LiveTemp
      <3> QED BY <2>2, <3>2 DEF NoFlicker, Shown
    <2> QED BY <2>1, <2>2
  <1> QED BY <1>1, Invariance, PTL

\* A change of another setting is sent with the duration that was asked for, of which the
\* grill keeps only the rest, over the cloud and over Bluetooth, with frames of the timer
\* and without, but for the exceptions named at TotalKept (coordinator.py:464-476, 574-592,
\* 866-894, 1336-1343).
THEOREM DurationKept == Spec => []TotalKept
  <1>1. IInv => TotalKept
    BY DEF IInv
  <1> QED BY <1>1, Invariance, PTL
=============================================================================
