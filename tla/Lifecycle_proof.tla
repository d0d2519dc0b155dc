-------------------------- MODULE Lifecycle_proof ---------------------------
(***************************************************************************)
(* Proofs about Lifecycle: the types, and that over a cloud each event of  *)
(* a cook is announced once, however the polls overlap.  What carries      *)
(* them: readings are taken in an order, and what a cook has passed in one *)
(* of them it has passed in every later one.                               *)
(***************************************************************************)
EXTENDS Lifecycle, TLAPS

\* The grill, and the readings under way that are newer than any that was shown.
Newer == {polls[i] : i \in behind + 1..Len(polls)} \cup {grill}

\* A cook that is over for good, or just done.
Gone(r) == r.step \in {"idle", LidWait}
Past(r) == Gone(r) \/ r.step = "done"

\* The phases that go with a step.
Fits(r) ==
    /\ r.step \in {"preheat", "insert_food"} => r.phase = "preheat"
    /\ r.step = "cooking" => r.phase = "cooking"
    /\ r.step = "lid open" => r.phase \in {"preheat", "cooking"}
    /\ Past(r) => r.phase = "none"

\* Whatever a has passed, b has passed too.
Older(a, b) ==
    /\ Past(b) \/ b.left <= a.left
    /\ a.temp <= b.temp
    /\ Gone(a) => Gone(b)
    /\ Past(a) => Past(b)
    /\ ~Preheating(a) => ~Preheating(b)
    /\ a.phase # "preheat" => b.phase # "preheat"

\* b is of a later cook than a, or later in the same.
Follows(a, b) == a.cook <= b.cook /\ (a.cook = b.cook => Older(a, b))

Ordered ==
    /\ Fits(grill)
    /\ \A i \in 1..Len(polls) : Fits(polls[i]) /\ Follows(polls[i], grill)
    /\ \A i, j \in 1..Len(polls) : i < j => Follows(polls[i], polls[j])

\* What holds of everything that is still to be shown.
OfNow == \A r \in Newer : r.cook = grill.cook
HalfPassed == \A r \in Newer : Past(r) \/ Halftime(r)
TargetPassed == \A r \in Newer : r.temp >= TARGET
PreheatPassed == \A r \in Newer : ~Preheating(r)
FoodPassed == \A r \in Newer : r.phase # "preheat"
CookOver == \A r \in Newer : Past(r)
CookGone == \A r \in Newer : Gone(r)

HalftimeInv == fired["halftime"] > 0 =>
    /\ OfNow /\ HalfPassed /\ ~newCook /\ fired["halftime"] = 1
    /\ prev # None /\ (~flags.halftime \/ prev \notin ACTIVE_STATES) => CookOver

TargetInv == fired["probeTarget"] > 0 =>
    /\ OfNow /\ TargetPassed /\ ~newCook /\ fired["probeTarget"] = 1
    /\ prev # None /\ (~flags.target \/ prev \notin ACTIVE_STATES) => CookOver

PreheatInv == fired["preheatComplete"] > 0 =>
    /\ OfNow /\ PreheatPassed /\ fired["preheatComplete"] = 1
    /\ prev # None /\ flags.seenPreheat => flags.preheat

FoodInv == fired["addfood"] > 0 =>
    /\ OfNow /\ PreheatPassed /\ fired["addfood"] = 1
    /\ prev # None /\ ~prevPrompt => FoodPassed

DoneInv == fired["done"] > 0 =>
    /\ OfNow /\ CookOver /\ fired["done"] = 1
    /\ prev \notin ACTIVE_STATES
    /\ prev \notin {None, "done"} => CookGone

StartedInv == fired["started"] > 0 =>
    /\ OfNow /\ ~newCook /\ fired["started"] = 1
    /\ prev # None /\ prev \notin ACTIVE_STATES => CookOver

\* The inductive invariant.
CloudInv ==
    HalftimeInv /\ TargetInv /\ PreheatInv /\ FoodInv /\ DoneInv /\ StartedInv
IInv == TypeOK /\ Ordered /\ (~local => CloudInv)
-----------------------------------------------------------------------------
(* The initial state, and the types.                                       *)

\* Before the first poll nothing has been announced.
LEMMA InitIInv == Init => IInv
  <1> SUFFICES ASSUME Init PROVE IInv
    OBVIOUS
  <1> USE UnitsAssumption DEF Init
  <1>1. TypeOK
    <2>1. grill \in Readings
      BY DEF Readings, Steps
    <2>2. fired \in [Events -> 0..2]
      BY DEF Nothing
    <2>3. flags \in Flags
      BY DEF Flags, Reset
    <2>4. polls \in Seq(Readings) /\ behind \in 0..Len(polls)
      OBVIOUS
    <2>5. timer \in Off..TOTAL
      BY DEF Off
    <2> QED BY <2>1, <2>2, <2>3, <2>4, <2>5 DEF TypeOK
  <1>2. Ordered
    BY DEF Ordered, Fits, Past, Gone, LidWait
  <1>3. CloudInv
    BY DEF CloudInv, HalftimeInv, TargetInv, PreheatInv, FoodInv, DoneInv, StartedInv, Events,
           Nothing
  <1> QED BY <1>1, <1>2, <1>3 DEF IInv

\* What a reading leaves of the flags are flags.
LEMMA FlagsType ==
    ASSUME TypeOK, NEW r
    PROVE  /\ Begun(r) \in Flags
           /\ Timed(r) \in Flags
           /\ Counted(r) \in Flags
           /\ Seeded(r) \in Flags
  <1> USE DEF Flags
  <1>0. Reset \in Flags /\ flags \in Flags
    BY DEF Reset, TypeOK
  <1>1. Begun(r) \in Flags
    BY <1>0 DEF Begun
  <1>2. Active(r) \in BOOLEAN /\ Preheating(r) \in BOOLEAN /\ Halftime(r) \in BOOLEAN
        /\ AtTarget(r) \in BOOLEAN /\ PreheatOver(r) \in BOOLEAN /\ HalfOver(r) \in BOOLEAN
    BY DEF Active, Preheating, Halftime, AtTarget, PreheatOver, HalfOver
  <1>3. Timed(r) \in Flags
    BY <1>1, <1>2 DEF Timed
  <1>4. Counted(r) \in Flags
    BY <1>3, <1>0 DEF Counted
  <1>5. Seeded(r) \in Flags
    BY <1>0, <1>2 DEF Seeded
  <1> QED BY <1>1, <1>3, <1>4, <1>5

\* An announcement keeps the types, whatever is announced.
LEMMA AnnounceType ==
    ASSUME TypeOK, NEW r, NEW again, Announce(r, again),
           r.step \in Steps \cup {"powered_off"}, r.prompt \in BOOLEAN
    PROVE  /\ prev' \in Steps \cup {"powered_off", None} /\ prevPrompt' \in BOOLEAN
           /\ newCook' \in BOOLEAN /\ flags' \in Flags /\ fired' \in [Events -> 0..2]
  <1>1. prev' \in Steps \cup {"powered_off", None} /\ prevPrompt' \in BOOLEAN
    BY DEF Announce
  <1>2. CASE First(r, again)
    <2>1. flags' \in Flags /\ newCook' \in BOOLEAN
      BY <1>2, FlagsType DEF First, TypeOK
    <2>2. fired' \in [Events -> 0..2]
      BY <1>2 DEF First, Recount, TypeOK
    <2> QED BY <1>1, <2>1, <2>2
  <1>3. CASE Emit(r, again)
    <2>1. newCook' \in BOOLEAN
      BY <1>3 DEF Emit, TypeOK, Began, Active
    <2>2. flags' \in Flags
      <3>1. Fires("probeTarget", r) \in BOOLEAN
        BY DEF Fires, Active, AtTarget
      <3> QED BY <1>3, <3>1, FlagsType DEF Emit, Flags
    <2>3. \A e \in Events : fired[e] \in 0..2 /\ (fired[e] < 2 => fired[e] + 1 \in 0..2)
      BY DEF TypeOK
    <2>4. fired' \in [Events -> 0..2]
      BY <1>3, <2>3 DEF Emit
    <2> QED BY <1>1, <2>1, <2>2, <2>4
  <1> QED BY <1>2, <1>3 DEF Announce

\* What the grill does of itself: it goes on in its cook, or begins another.
LEMMA GrillStep ==
    ASSUME TypeOK, Fits(grill),
           GrillMoves \/ CookGoesOn \/ \E s \in {"preheat", LidWait} : Begin(s)
    PROVE  /\ grill' \in Readings /\ Fits(grill')
           /\ \/ grill'.cook = grill.cook /\ Older(grill, grill') /\ UNCHANGED fired
              \/ grill'.cook = grill.cook + 1 /\ fired' = Nothing
  <1> USE UnitsAssumption
  <1>0. grill \in Readings /\ grill.step \in Steps
    BY DEF TypeOK, Readings
  <1> DEFINE
        Further ==
            /\ grill' \in Readings /\ Fits(grill')
            /\ \/ grill'.cook = grill.cook /\ Older(grill, grill') /\ UNCHANGED fired
               \/ grill'.cook = grill.cook + 1 /\ fired' = Nothing
  <1>1. ASSUME NEW s \in {"preheat", LidWait}, Begin(s) PROVE Further
    <2>0. PICK temp \in 0..TARGET :
             grill' = [cook |-> grill.cook + 1, step |-> s, left |-> TOTAL, temp |-> temp,
                       phase |-> IF s = "preheat" THEN "preheat" ELSE "none"]
      BY <1>1 DEF Begin
    <2>1. grill.cook + 1 \in 0..MaxCooks /\ TOTAL \in 0..TOTAL
      BY <1>0, <1>1 DEF Begin, Readings
    <2>2. grill' \in Readings /\ grill'.cook = grill.cook + 1
      BY <2>0, <2>1 DEF Readings, Steps, LidWait
    <2>3. Fits(grill')
      BY <2>0 DEF Fits, Past, Gone, LidWait
    <2> QED BY <2>2, <2>3, <1>1 DEF Begin
  <1>2. CASE CookGoesOn
    <2>0. UNCHANGED fired
      BY <1>2 DEF CookGoesOn
    <2>1. /\ grill' \in Readings /\ UNCHANGED <<grill.cook, grill.step, grill.phase>>
          /\ grill'.left <= grill.left /\ grill.temp <= grill'.temp
      <3>1. CASE /\ grill.left > 0
                 /\ grill' = [grill EXCEPT !.left = @ - 1]
        <4>1. grill.left - 1 \in 0..TOTAL
          BY <3>1, <1>0 DEF Readings
        <4> QED BY <3>1, <4>1, <1>0 DEF Readings
      <3>2. CASE /\ grill.temp < TARGET
                 /\ grill' = [grill EXCEPT !.temp = @ + 1]
        <4>1. grill.temp + 1 \in 0..TARGET
          BY <3>2, <1>0 DEF Readings
        <4> QED BY <3>2, <4>1, <1>0 DEF Readings
      <3> QED BY <1>2, <3>1, <3>2 DEF CookGoesOn
    <2>2. Fits(grill') /\ Older(grill, grill')
      BY <2>1 DEF Fits, Older, Past, Gone, Preheating
    <2> QED BY <2>0, <2>1, <2>2
  <1>3. ASSUME NEW s \in Steps, NEW p \in {"preheat", "cooking", "none"}, To(s, p),
               s \in {"preheat", "insert_food"} => p = "preheat",
               s = "cooking" => p = "cooking",
               s = "lid open" => p \in {"preheat", "cooking"},
               s \in {"idle", LidWait, "done"} => p = "none",
               Gone(grill) => s = "idle",
               Past(grill) => s = "idle",
               p = "preheat" /\ s # "insert_food" => Preheating(grill),
               p = "preheat" => grill.phase = "preheat"
        PROVE  Further
    <2>0. /\ grill' = [grill EXCEPT !.step = s, !.phase = p,
                                    !.left = IF p = "none" THEN TOTAL ELSE @]
          /\ UNCHANGED fired
      BY <1>3 DEF To
    <2>1. TOTAL \in 0..TOTAL
      OBVIOUS
    <2>2. grill' \in Readings /\ grill'.step = s /\ grill'.phase = p
          /\ UNCHANGED <<grill.cook, grill.temp>> /\ (p # "none" => UNCHANGED grill.left)
      BY <2>0, <2>1, <1>0, <1>3 DEF Readings
    <2>3. Fits(grill') /\ (p = "none" => Past(grill'))
      BY <2>2, <1>3 DEF Fits, Past, Gone, Steps
    <2>4. (Gone(grill) => Gone(grill')) /\ (Past(grill) => Past(grill'))
      BY <2>2, <1>3 DEF Past, Gone
    <2>5. ~Preheating(grill) => ~Preheating(grill')
      BY <2>2, <2>3, <1>3 DEF Preheating, Fits, PREHEAT_STATES, Past, Gone, Steps, LidWait
    <2>6. (Past(grill') \/ grill'.left <= grill.left) /\ grill.temp <= grill'.temp
      <3>1. grill.left \in Int /\ grill.temp \in Int
        BY <1>0 DEF Readings
      <3>2. grill'.temp = grill.temp /\ (p # "none" => grill'.left = grill.left)
        BY <2>2
      <3> QED BY <2>3, <3>1, <3>2
    <2>7. Older(grill, grill')
      BY <2>2, <2>4, <2>5, <2>6, <1>3 DEF Older
    <2> QED BY <2>0, <2>2, <2>3, <2>7
  <1>4. CASE GrillMoves
    <2> SUFFICES Further
      OBVIOUS
    <2> USE <1>0 DEF Past, Gone, LidWait, Steps, Preheating, PREHEAT_STATES
    <2>1. CASE grill.step = "preheat" /\ To("insert_food", "preheat")
      BY <2>1, <1>3 DEF Fits
    <2>2. CASE grill.step = "insert_food" /\ \E s \in {"cooking", "lid open"} : To(s, "cooking")
      BY <2>2, <1>3 DEF Fits
    <2>3. CASE grill.step \in {"preheat", "cooking"} /\ To("lid open", grill.phase)
      BY <2>3, <1>3 DEF Fits
    <2>4. CASE Lid /\ To(grill.phase, grill.phase)
      BY <2>4, <1>3 DEF Fits, Lid
    <2>5. CASE Lid /\ To(LidWait, "none")
      BY <2>5, <1>3 DEF Fits, Lid
    <2>6. CASE grill.step = "cooking" /\ grill.left = 0 /\ To("done", "none")
      BY <2>6, <1>3 DEF Fits
    <2>7. CASE grill.step # "idle" /\ To("idle", "none")
      BY <2>7, <1>3 DEF Fits
    <2>8. CASE \E s \in {"preheat", LidWait} : Begin(s)
      BY <2>8, <1>1
    <2> QED BY <1>4, <2>1, <2>2, <2>3, <2>4, <2>5, <2>6, <2>7, <2>8 DEF GrillMoves
  <1> QED BY <1>1, <1>2, <1>4

\* One reading less.
LEMMA WithoutType ==
    ASSUME NEW S, NEW s \in Seq(S), NEW i \in 1..Len(s)
    PROVE  /\ Without(s, i) \in Seq(S)
           /\ Len(Without(s, i)) = Len(s) - 1
           /\ \A j \in 1..Len(s) - 1 : Without(s, i)[j] = IF j < i THEN s[j] ELSE s[j + 1]
  <1>1. SubSeq(s, 1, i - 1) \in Seq(S) /\ Len(SubSeq(s, 1, i - 1)) = i - 1
        /\ \A j \in 1..i - 1 : SubSeq(s, 1, i - 1)[j] = s[j]
    OBVIOUS
  <1>2. SubSeq(s, i + 1, Len(s)) \in Seq(S) /\ Len(SubSeq(s, i + 1, Len(s))) = Len(s) - i
        /\ \A j \in 1..Len(s) - i : SubSeq(s, i + 1, Len(s))[j] = s[i + j]
    OBVIOUS
  <1> DEFINE a == SubSeq(s, 1, i - 1)
             b == SubSeq(s, i + 1, Len(s))
  <1>3. a \o b \in Seq(S) /\ Len(a \o b) = Len(a) + Len(b)
        /\ \A j \in 1..Len(a) + Len(b) : (a \o b)[j] = IF j <= Len(a) THEN a[j] ELSE b[j - Len(a)]
    <2> HIDE DEF a, b
    <2>1. a \in Seq(S) /\ b \in Seq(S)
      BY <1>1, <1>2 DEF a, b
    <2> QED BY <2>1
  <1>4. Without(s, i) = a \o b /\ Len(a) = i - 1 /\ Len(b) = Len(s) - i
    BY <1>1, <1>2 DEF Without
  <1>5. ASSUME NEW j \in 1..Len(s) - 1 PROVE (a \o b)[j] = IF j < i THEN s[j] ELSE s[j + 1]
    <2> HIDE DEF a, b
    <2>1. CASE j < i
      BY <2>1, <1>1, <1>3, <1>4 DEF a
    <2>2. CASE ~(j < i)
      <3>1. j - (i - 1) \in 1..Len(s) - i /\ i + (j - (i - 1)) = j + 1
        BY <2>2
      <3> QED BY <2>2, <3>1, <1>2, <1>3, <1>4 DEF b
    <2> QED BY <2>1, <2>2
  <1> HIDE DEF a, b
  <1>6. Len(a) + Len(b) = Len(s) - 1
    <2>1. Len(s) \in Nat /\ i \in Int
      OBVIOUS
    <2> QED BY <2>1, <1>4
  <1> QED BY <1>3, <1>4, <1>5, <1>6

\* What is merged is a view.
LEMMA MergedType ==
    ASSUME TypeOK, NEW k, NEW b \in Readings \cup {NoReading},
           k.cook \in 0..MaxCooks, k.step \in Steps \cup {"powered_off", "unknown"},
           k.left \in 0..TOTAL
    PROVE  /\ Merged(k, b).cook \in 0..MaxCooks
           /\ Merged(k, b).step \in Steps \cup {"powered_off"}
           /\ Merged(k, b).left \in 0..TOTAL
           /\ Merged(k, b).prompt \in BOOLEAN
           /\ MergedTimer(k, b) \in Off..TOTAL
  <1>0. Live(b) => b.cook \in 0..MaxCooks /\ b.step \in Steps
    BY DEF Live, Readings
  <1>1. MergedStep(k, b) \in Steps \cup {"powered_off"}
    <2>1. CASE ~Live(b)
      BY <2>1 DEF MergedStep
    <2>2. CASE Live(b) /\ Keeps(k, b)
      BY <1>0, <2>2 DEF MergedStep, Keeps, Steps, IsActive, ACTIVE_STATES, PREHEAT_STATES,
         COOKING_STATES, REST_STATES, PAUSED_STATES
    <2>3. CASE Live(b) /\ ~Keeps(k, b)
      BY <1>0, <2>3 DEF MergedStep, Steps
    <2> QED BY <2>1, <2>2, <2>3
  <1>2. MergedTimer(k, b) \in Off..TOTAL
    BY UnitsAssumption DEF MergedTimer, TypeOK, Off
  <1>3. MergedTimer(k, b) # Off => MergedTimer(k, b) \in 0..TOTAL
    BY <1>2, UnitsAssumption DEF Off
  <1> QED BY <1>0, <1>1, <1>2, <1>3 DEF Merged

\* A view that is merged and shown keeps the types.
LEMMA ShowType ==
    ASSUME TypeOK, NEW k, NEW b \in Readings \cup {NoReading}, NEW polled \in BOOLEAN,
           k.cook \in 0..MaxCooks, k.step \in Steps \cup {"powered_off", "unknown"},
           k.left \in 0..TOTAL, k.online \in BOOLEAN,
           Show(k, b, polled), beacon' \in Readings \cup {NoReading}
    PROVE  TypeOK'
  <1> DEFINE r == Merged(k, b)
  <1>1. /\ shown' = [cook |-> r.cook, step |-> r.step, left |-> r.left, online |-> k.online]
        /\ timer' = MergedTimer(k, b)
        /\ UNCHANGED <<grill, unanswered, local, polls, behind>>
    BY DEF Show
  <1>2. shown' \in Views \cup {NoView} /\ timer' \in Off..TOTAL
    BY <1>1, MergedType DEF Views
  <1>3. cookSeen' \in BOOLEAN
    <2>1. (prev # None /\ Ended(r)) \in BOOLEAN /\ ShowsCook(b) \in BOOLEAN
      BY DEF Ended, EndsCook, ShowsCook
    <2> QED BY <2>1 DEF Show, TypeOK
  <1>4. /\ prev' \in Steps \cup {"powered_off", None} /\ prevPrompt' \in BOOLEAN
        /\ newCook' \in BOOLEAN /\ flags' \in Flags /\ fired' \in [Events -> 0..2]
    <2>1. CASE k.online
      <3>1. Announce(r, Blurred(r, b))
        BY <2>1 DEF Show
      <3>2. r.step \in Steps \cup {"powered_off"} /\ r.prompt \in BOOLEAN
        BY MergedType
      <3> HIDE DEF r
      <3> QED BY <3>1, <3>2, AnnounceType
    <2>2. CASE ~k.online
      BY <2>2 DEF Show, Forget, memory, TypeOK
    <2> QED BY <2>1, <2>2
  <1> QED BY <1>1, <1>2, <1>3, <1>4 DEF TypeOK

\* What a poll shows, as it is announced.
LEMMA CloudReading ==
    ASSUME NEW r
    PROVE  /\ Cloud(r).step = r.step /\ Cloud(r).phase = r.phase /\ Cloud(r).left = r.left
           /\ Cloud(r).temp = r.temp /\ Cloud(r).probe = TRUE
           /\ Cloud(r).prompt = (r.step = "insert_food")
           /\ Cloud(r).cook = r.cook /\ Cloud(r).sensed = r.cook
  BY DEF Cloud

LEMMA TypeStep == ASSUME TypeOK, Ordered, [Next]_vars PROVE TypeOK'
  <1> USE DEF sources, merged, memory
  <1>0. \A b : b \in Readings => b \in Readings \cup {NoReading}
    OBVIOUS
  <1>1. CASE GrillMoves \/ CookGoesOn
    <2>1. grill' \in Readings /\ (fired' = fired \/ fired' = Nothing)
      BY <1>1, GrillStep DEF Ordered
    <2>2. fired' \in [Events -> 0..2]
      BY <2>1 DEF TypeOK, Nothing
    <2>3. UNCHANGED <<unanswered, local, polls, behind, beacon, shown, cookSeen, timer, prev,
                      newCook, flags, prevPrompt>>
      BY <1>1 DEF GrillMoves, CookGoesOn
    <2> QED BY <2>1, <2>2, <2>3 DEF TypeOK
  <1>2. CASE TimerRuns
    BY <1>2, UnitsAssumption DEF TimerRuns, TypeOK, Off
  <1>3. CASE StartActs
    <2>1. grill' \in Readings /\ (fired' = fired \/ fired' = Nothing)
      BY <1>3, GrillStep DEF Ordered, StartActs
    <2>2. fired' \in [Events -> 0..2]
      BY <2>1 DEF TypeOK, Nothing
    <2> QED BY <1>3, <2>1, <2>2 DEF StartActs, TypeOK
  <1>4. ASSUME NEW s \in {"preheat", "cooking"}, StartReturns(s) PROVE TypeOK'
    <2>1. fired' \in [Events -> 0..2]
      BY <1>4 DEF StartReturns, Recount, TypeOK
    <2>2. shown' \in Views \cup {NoView} /\ cookSeen' \in BOOLEAN
      <3>1. grill.cook \in 0..MaxCooks /\ s \in Steps
        BY DEF TypeOK, Readings, Steps
      <3> QED BY <1>4, <3>1 DEF StartReturns, TypeOK, Views
    <2> QED BY <1>4, <2>1, <2>2 DEF StartReturns, TypeOK
  <1>5. CASE StartFails
    BY <1>5 DEF StartFails, TypeOK
  <1>6. CASE PollReads
    BY <1>6 DEF PollReads, TypeOK
  <1>7. ASSUME NEW i \in 1..Len(polls), PollShows(i) PROVE TypeOK'
    <2>1. polls \in Seq(Readings) /\ polls[i] \in Readings /\ behind \in 0..Len(polls)
      BY DEF TypeOK
    <2>2. polls' \in Seq(Readings) /\ behind' \in 0..Len(polls')
      BY <1>7, <2>1, WithoutType DEF PollShows
    <2>3. Cloud(polls[i]).step \in Steps \cup {"powered_off"} /\ Cloud(polls[i]).prompt \in BOOLEAN
      BY <2>1, CloudReading DEF Readings
    <2>4. /\ prev' \in Steps \cup {"powered_off", None} /\ prevPrompt' \in BOOLEAN
          /\ newCook' \in BOOLEAN /\ flags' \in Flags /\ fired' \in [Events -> 0..2]
      BY <1>7, <2>3, AnnounceType DEF PollShows
    <2> QED BY <1>7, <2>2, <2>4 DEF PollShows, TypeOK
  <1>8. CASE PollOffline
    BY <1>8 DEF PollOffline, Forget, TypeOK
  <1>9. ASSUME shown # NoView
        PROVE  /\ shown.cook \in 0..MaxCooks /\ shown.step \in Steps \cup {"powered_off", "unknown"}
               /\ shown.left \in 0..TOTAL /\ shown.online \in BOOLEAN
    BY <1>9 DEF TypeOK, Views
  <1>10. CASE BeaconComes
    <2>1. grill \in Readings
      BY DEF TypeOK
    <2>2. CASE shown = NoView
      BY <1>10, <2>1, <2>2 DEF BeaconComes, TypeOK
    <2>3. CASE shown # NoView
      BY <1>10, <2>1, <2>3, <1>9, ShowType DEF BeaconComes
    <2> QED BY <2>2, <2>3
  <1>11. CASE BeaconAges
    BY <1>11 DEF BeaconAges, TypeOK
  <1>12. shown.cook \in 0..MaxCooks /\ TOTAL \in 0..TOTAL /\ beacon \in Readings \cup {NoReading}
    BY UnitsAssumption DEF TypeOK, Views, NoView
  <1>13. CASE PollFrameless
    <2> DEFINE k == [cook |-> shown.cook, step |-> "unknown", left |-> TOTAL, online |-> TRUE]
    <2>1. /\ k.cook \in 0..MaxCooks /\ k.step \in Steps \cup {"powered_off", "unknown"}
          /\ k.left \in 0..TOTAL /\ k.online \in BOOLEAN
      BY <1>12
    <2>2. Show(k, beacon, TRUE) /\ beacon' = beacon
      BY <1>13 DEF PollFrameless
    <2> HIDE DEF k
    <2> QED BY <1>12, <2>1, <2>2, ShowType
  <1>14. CASE PollUnconnected
    <2> DEFINE k == [cook |-> shown.cook, step |-> "powered_off", left |-> TOTAL, online |-> FALSE]
    <2>1. /\ k.cook \in 0..MaxCooks /\ k.step \in Steps \cup {"powered_off", "unknown"}
          /\ k.left \in 0..TOTAL /\ k.online \in BOOLEAN
      BY <1>12
    <2>2. beacon' = beacon
          /\ ((shown # NoView /\ Show(shown, beacon, TRUE)) \/ Show(k, beacon, TRUE))
      BY <1>14 DEF PollUnconnected
    <2> HIDE DEF k
    <2>3. CASE shown # NoView /\ Show(shown, beacon, TRUE)
      BY <1>9, <1>12, <2>2, <2>3, ShowType
    <2>4. CASE Show(k, beacon, TRUE)
      BY <1>12, <2>1, <2>2, <2>4, ShowType
    <2> QED BY <2>2, <2>3, <2>4
  <1>15. CASE Restart
    <2>1. flags' \in Flags
      BY <1>15 DEF Restart, Flags, Reset
    <2>2. polls' \in Seq(Readings) /\ behind' \in 0..Len(polls')
      BY <1>15 DEF Restart
    <2>3. timer' \in Off..TOTAL
      BY <1>15, UnitsAssumption DEF Restart, Off
    <2> QED BY <1>15, <2>1, <2>2, <2>3 DEF Restart, TypeOK
  <1>16. CASE UNCHANGED vars
    BY <1>16 DEF vars, TypeOK
  <1> QED BY <1>1, <1>2, <1>3, <1>4, <1>5, <1>6, <1>7, <1>8, <1>10, <1>11, <1>13, <1>14, <1>15,
             <1>16 DEF Next
-----------------------------------------------------------------------------
(* The order of the readings.                                              *)

LEMMA FollowsTransitive ==
    ASSUME NEW a \in Readings, NEW b \in Readings, NEW c \in Readings, Follows(a, b), Follows(b, c)
    PROVE  Follows(a, c)
  <1>1. a.cook \in Int /\ b.cook \in Int /\ c.cook \in Int /\ a.left \in Int /\ b.left \in Int
        /\ c.left \in Int /\ a.temp \in Int /\ b.temp \in Int /\ c.temp \in Int
    BY DEF Readings
  <1>2. ASSUME Older(a, b), Older(b, c) PROVE Older(a, c)
    BY <1>1, <1>2 DEF Older
  <1> QED BY <1>1, <1>2 DEF Follows

LEMMA FollowsReflexive == ASSUME NEW a \in Readings PROVE Follows(a, a)
  BY DEF Follows, Older, Readings

\* A reading after the grill has gone on, in its cook or into another.
LEMMA GrillFollows ==
    ASSUME TypeOK, Fits(grill),
           GrillMoves \/ CookGoesOn \/ \E s \in {"preheat", LidWait} : Begin(s)
    PROVE  grill' \in Readings /\ Fits(grill') /\ Follows(grill, grill')
  <1>1. grill.cook \in Int
    BY DEF TypeOK, Readings
  <1> QED BY <1>1, GrillStep DEF Follows

\* One reading less leaves the others in their order.
LEMMA WithoutOrdered ==
    ASSUME TypeOK, Ordered, NEW i \in 1..Len(polls), polls' = Without(polls, i), grill' = grill
    PROVE  Ordered'
  <1> DEFINE At(j) == IF j < i THEN j ELSE j + 1
  <1>1. polls \in Seq(Readings) /\ Len(polls') = Len(polls) - 1 /\ Len(polls) \in Nat
        /\ \A j \in 1..Len(polls) - 1 : polls'[j] = polls[At(j)]
    BY WithoutType DEF TypeOK
  <1>2. \A j \in 1..Len(polls') : At(j) \in 1..Len(polls)
    BY <1>1
  <1>3. \A j, k \in 1..Len(polls') : j < k => At(j) < At(k)
    BY <1>1
  <1>4. \A j \in 1..Len(polls') : polls'[j] = polls[At(j)]
    BY <1>1
  <1> HIDE DEF At
  <1>5. \A j \in 1..Len(polls') : Fits(polls'[j]) /\ Follows(polls'[j], grill')
    BY <1>2, <1>4 DEF Ordered
  <1>6. \A j, k \in 1..Len(polls') : j < k => Follows(polls'[j], polls'[k])
    BY <1>2, <1>3, <1>4 DEF Ordered
  <1> QED BY <1>5, <1>6 DEF Ordered

LEMMA OrderedStep == ASSUME TypeOK, Ordered, [Next]_vars PROVE Ordered'
  <1> USE DEF sources
  <1>0. grill \in Readings /\ polls \in Seq(Readings) /\ Fits(grill)
        /\ \A i \in 1..Len(polls) : polls[i] \in Readings
    BY DEF TypeOK, Ordered
  <1>1. ASSUME GrillMoves \/ CookGoesOn \/ \E s \in {"preheat", LidWait} : Begin(s), polls' = polls
        PROVE  Ordered'
    <2>1. grill' \in Readings /\ Fits(grill') /\ Follows(grill, grill')
      BY <1>1, GrillFollows DEF Ordered
    <2>2. \A i \in 1..Len(polls) : Follows(polls[i], grill')
      BY <1>0, <2>1, FollowsTransitive DEF Ordered
    <2> QED BY <1>1, <2>1, <2>2 DEF Ordered
  <1>2. CASE polls' = polls /\ grill' = grill
    BY <1>2 DEF Ordered
  <1>3. CASE PollReads
    <2>1. grill' = grill /\ Len(polls') = Len(polls) + 1 /\ polls'[Len(polls) + 1] = grill
          /\ \A i \in 1..Len(polls) : polls'[i] = polls[i]
      BY <1>0, <1>3 DEF PollReads
    <2>2. Follows(grill, grill)
      BY <1>0, FollowsReflexive
    <2>3. \A i \in 1..Len(polls') : Fits(polls'[i]) /\ Follows(polls'[i], grill')
      BY <1>0, <2>1, <2>2 DEF Ordered
    <2>4. ASSUME NEW i \in 1..Len(polls'), NEW j \in 1..Len(polls'), i < j
          PROVE  Follows(polls'[i], polls'[j])
      <3>1. i \in 1..Len(polls) /\ polls'[i] = polls[i]
        BY <1>0, <2>1, <2>4
      <3>2. CASE j \in 1..Len(polls)
        BY <2>1, <2>4, <3>1, <3>2 DEF Ordered
      <3>3. CASE j = Len(polls) + 1
        BY <2>1, <3>1, <3>3 DEF Ordered
      <3> QED BY <1>0, <2>1, <3>2, <3>3
    <2> QED BY <2>1, <2>3, <2>4, <1>0 DEF Ordered
  <1>4. ASSUME NEW i \in 1..Len(polls), PollShows(i) PROVE Ordered'
    BY <1>4, WithoutOrdered DEF PollShows
  <1>5. CASE Restart
    BY <1>5, <1>0 DEF Restart, Ordered
  <1>6. CASE GrillMoves \/ CookGoesOn \/ StartActs
    BY <1>1, <1>6 DEF GrillMoves, CookGoesOn, StartActs
  <1>7. CASE BeaconComes \/ PollFrameless \/ PollUnconnected
    <2>1. polls' = polls /\ grill' = grill
      BY <1>7 DEF BeaconComes, PollFrameless, PollUnconnected, Show
    <2> QED BY <2>1, <1>2
  <1>8. CASE TimerRuns \/ StartFails \/ PollOffline \/ BeaconAges \/ UNCHANGED vars
    BY <1>2, <1>8 DEF TimerRuns, StartFails, PollOffline, BeaconAges, vars
  <1>9. ASSUME NEW s \in {"preheat", "cooking"}, StartReturns(s) PROVE Ordered'
    BY <1>2, <1>9 DEF StartReturns
  <1> QED BY <1>3, <1>4, <1>5, <1>6, <1>7, <1>8, <1>9 DEF Next
-----------------------------------------------------------------------------
(* What every step over a cloud keeps: a cook's own past.                  *)

\* Whatever is newer after a step is so already, or later in its cook.
Kept ==
    /\ grill'.cook = grill.cook
    /\ \A y \in Newer' : \E x \in Newer : x = y \/ (x.cook = y.cook /\ Older(x, y))

\* The poll that shows `r` is newer than those before, and leaves the newer ones.
Shows(r) ==
    /\ r \in Newer /\ Fits(r) /\ Announce(Cloud(r), {})
    /\ grill' = grill /\ \A y \in Newer' : y \in Newer /\ Follows(r, y)

LEMMA Elements ==
    ASSUME NEW S, NEW s \in Seq(S), NEW b \in 0..Len(s)
    PROVE  \A i \in b + 1..Len(s) : s[i] \in S
  OBVIOUS

LEMMA NewerReadings == ASSUME TypeOK PROVE \A x \in Newer : x \in Readings
  BY DEF TypeOK, Newer

LEMMA PollShowsNewer ==
    ASSUME TypeOK, Ordered, NEW i \in 1..Len(polls), PollShows(i), behind < i
    PROVE  Shows(polls[i])
  <1> DEFINE r == polls[i]
  <1>1. polls \in Seq(Readings) /\ behind \in 0..Len(polls) /\ Len(polls) \in Nat
    BY DEF TypeOK
  <1>2. r \in Newer /\ Fits(r)
    BY <1>1 DEF Newer, Ordered
  <1>3. Announce(Cloud(r), {}) /\ grill' = grill
    <2>1. ~(i <= behind)
      BY <1>1
    <2> QED BY <2>1 DEF PollShows
  <1>4. Len(polls') = Len(polls) - 1 /\ behind' = i - 1
        /\ \A j \in 1..Len(polls) - 1 : polls'[j] = IF j < i THEN polls[j] ELSE polls[j + 1]
    <2>1. polls' = Without(polls, i) /\ behind' = i - 1
      BY <1>1 DEF PollShows
    <2> QED BY <1>1, <2>1, WithoutType
  <1>5. \A j \in behind' + 1..Len(polls') :
          j + 1 \in behind + 1..Len(polls) /\ i < j + 1 /\ polls'[j] = polls[j + 1]
    BY <1>1, <1>4
  <1>6. ASSUME NEW y \in Newer' PROVE y \in Newer /\ Follows(r, y)
    <2>1. CASE y = grill
      BY <2>1 DEF Newer, Ordered
    <2>2. CASE \E j \in behind' + 1..Len(polls') : y = polls'[j]
      <3>1. PICK j \in behind' + 1..Len(polls') : y = polls'[j]
        BY <2>2
      <3>2. j + 1 \in behind + 1..Len(polls) /\ i < j + 1 /\ y = polls[j + 1]
        BY <1>5, <3>1
      <3>3. j + 1 \in 1..Len(polls)
        BY <1>1, <3>2
      <3> QED BY <3>2, <3>3 DEF Newer, Ordered
    <2> QED BY <1>3, <1>6, <2>1, <2>2 DEF Newer
  <1> QED BY <1>2, <1>3, <1>6 DEF Shows

\* A reading that is older than one shown lets everything be announced anew.
LEMMA PollShowsOlder ==
    ASSUME TypeOK, NEW i \in 1..Len(polls), PollShows(i), i <= behind
    PROVE  fired' = Nothing
  <1>1. Announce(Cloud(polls[i]), Events)
    BY DEF PollShows
  <1>2. CASE First(Cloud(polls[i]), Events)
    BY <1>2 DEF First, Recount, Nothing
  <1>3. CASE Emit(Cloud(polls[i]), Events)
    BY <1>3 DEF Emit, Nothing
  <1> QED BY <1>1, <1>2, <1>3 DEF Announce

\* A step over a cloud begins another cook or shows an older reading; or it keeps the past of
\* the cook and is one of five.
LEMMA StepKinds ==
    ASSUME TypeOK, Ordered, [Next]_vars, ~local
    PROVE  \/ fired' = Nothing
           \/ /\ Kept
              /\ \/ UNCHANGED <<prev, newCook, flags, prevPrompt, fired>>
                 \/ \E s \in {"preheat", "cooking"} : StartReturns(s)
                 \/ PollOffline \/ Restart
                 \/ \E r \in Readings : Shows(r)
  <1> USE DEF sources, merged, memory
  <1>0. polls \in Seq(Readings) /\ Len(polls) \in Nat /\ behind \in 0..Len(polls)
        /\ grill \in Readings
    BY DEF TypeOK
  <1>1. ASSUME UNCHANGED <<grill, polls, behind>> PROVE Kept
    BY <1>1 DEF Kept, Newer
  <1>2. ASSUME GrillMoves \/ CookGoesOn \/ \E s \in {"preheat", LidWait} : Begin(s),
               UNCHANGED <<polls, behind>>
        PROVE  fired' = Nothing \/ (Kept /\ UNCHANGED fired)
    <2>1. CASE grill'.cook = grill.cook /\ Older(grill, grill') /\ UNCHANGED fired
      BY <1>2, <2>1 DEF Kept, Newer
    <2> QED BY <1>2, <2>1, GrillStep DEF Ordered
  <1>3. CASE GrillMoves \/ CookGoesOn
    BY <1>2, <1>3 DEF GrillMoves, CookGoesOn
  <1>4. CASE StartActs
    BY <1>4 DEF StartActs, Begin
  <1>5. CASE TimerRuns \/ StartFails \/ PollOffline \/ BeaconAges \/ UNCHANGED vars
    BY <1>1, <1>5 DEF TimerRuns, StartFails, PollOffline, BeaconAges, vars
  <1>6. ASSUME NEW s \in {"preheat", "cooking"}, StartReturns(s) PROVE Kept
    BY <1>1, <1>6 DEF StartReturns
  <1>7. CASE PollReads
    <2>1. /\ Len(polls') = Len(polls) + 1 /\ polls'[Len(polls) + 1] = grill /\ grill' = grill
          /\ behind' = behind /\ \A i \in 1..Len(polls) : polls'[i] = polls[i]
      BY <1>0, <1>7 DEF PollReads
    <2>2. \A j \in behind' + 1..Len(polls') :
            (j \in behind + 1..Len(polls) /\ polls'[j] = polls[j]) \/ polls'[j] = grill
      BY <1>0, <2>1
    <2>3. \A y \in Newer' : y \in Newer
      BY <2>1, <2>2 DEF Newer
    <2> QED BY <1>7, <2>1, <2>3 DEF Kept, PollReads
  <1>8. ASSUME NEW i \in 1..Len(polls), PollShows(i), behind < i
        PROVE  Kept /\ \E r \in Readings : Shows(r)
    <2>1. Shows(polls[i]) /\ polls[i] \in Readings
      BY <1>0, <1>8, PollShowsNewer
    <2> QED BY <2>1 DEF Kept, Shows
  <1>9. ASSUME NEW i \in 1..Len(polls), PollShows(i), ~(behind < i) PROVE fired' = Nothing
    BY <1>0, <1>9, PollShowsOlder
  <1>10. CASE Restart
    BY <1>0, <1>10 DEF Restart, Kept, Newer
  <1>11. ~BeaconComes /\ ~PollFrameless /\ ~PollUnconnected
    BY DEF BeaconComes, PollFrameless, PollUnconnected
  <1> QED BY <1>3, <1>4, <1>5, <1>6, <1>7, <1>8, <1>9, <1>10, <1>11 DEF Next, TimerRuns,
             StartFails, BeaconAges, vars

\* What all the newer readings have passed, they have passed after the step.
LEMMA PassedKept ==
    ASSUME TypeOK, TypeOK', Kept
    PROVE  /\ OfNow => OfNow'
           /\ HalfPassed => HalfPassed'
           /\ TargetPassed => TargetPassed'
           /\ PreheatPassed => PreheatPassed'
           /\ FoodPassed => FoodPassed'
           /\ CookOver => CookOver'
           /\ CookGone => CookGone'
  <1> SUFFICES ASSUME NEW y \in Newer'
               PROVE  /\ OfNow => y.cook = grill'.cook
                      /\ HalfPassed => Past(y) \/ Halftime(y)
                      /\ TargetPassed => y.temp >= TARGET
                      /\ PreheatPassed => ~Preheating(y)
                      /\ FoodPassed => y.phase # "preheat"
                      /\ CookOver => Past(y)
                      /\ CookGone => Gone(y)
    BY DEF OfNow, HalfPassed, TargetPassed, PreheatPassed, FoodPassed, CookOver, CookGone
  <1>1. PICK x \in Newer : x = y \/ (x.cook = y.cook /\ Older(x, y))
    BY DEF Kept
  <1>2. x \in Readings /\ y \in Readings
    <2>1. x \in Readings
      BY <1>1, NewerReadings
    <2>2. y \in Readings
      <3>1. grill' \in Readings /\ polls' \in Seq(Readings) /\ behind' \in 0..Len(polls')
        BY DEF TypeOK
      <3>2. \A i \in behind' + 1..Len(polls') : polls'[i] \in Readings
        BY <3>1, Elements
      <3> QED BY <3>1, <3>2 DEF Newer
    <2> QED BY <2>1, <2>2
  <1>3. x.left \in Int /\ y.left \in Int /\ x.temp \in Int /\ y.temp \in Int
    BY <1>2 DEF Readings
  <1>4. HalfPassed => Past(y) \/ Halftime(y)
    BY <1>1, <1>3, UnitsAssumption DEF HalfPassed, Halftime, Older
  <1>5. TargetPassed => y.temp >= TARGET
    BY <1>1, <1>3, UnitsAssumption DEF TargetPassed, Older
  <1> QED BY <1>1, <1>4, <1>5 DEF Kept, OfNow, PreheatPassed, FoodPassed, CookOver, CookGone, Older
-----------------------------------------------------------------------------
(* The events.                                                             *)

\* What a reading leaves of the flags.
LEMMA ShownFlags ==
    ASSUME TypeOK, NEW r
    PROVE  /\ Active(r) => /\ ~Ended(r)
                           /\ Counted(r).seenPreheat = (Begun(r).seenPreheat \/ Preheating(r))
                           /\ Counted(r).preheat = (Begun(r).preheat \/ PreheatOver(r))
                           /\ Counted(r).halftime = (Begun(r).halftime \/ HalfOver(r))
                           /\ Counted(r).target = Begun(r).target
           /\ ~Active(r) => Counted(r) = Reset \/ Counted(r) = flags
  <1> USE DEF Flags
  <1>1. Begun(r) \in Flags /\ flags \in Flags
    BY FlagsType DEF TypeOK
  <1>2. Active(r) \in BOOLEAN /\ Preheating(r) \in BOOLEAN /\ PreheatOver(r) \in BOOLEAN
        /\ HalfOver(r) \in BOOLEAN
    BY DEF Active, Preheating, PreheatOver, HalfOver
  <1>3. Active(r) => ~Ended(r)
    BY PhasesDisjoint DEF Active, Ended, EndsCook
  <1>4. /\ Timed(r).seenPreheat = (Begun(r).seenPreheat \/ (Active(r) /\ Preheating(r)))
        /\ Timed(r).preheat = (Begun(r).preheat \/ PreheatOver(r))
        /\ Timed(r).halftime = (Begun(r).halftime \/ HalfOver(r))
        /\ Timed(r).target = Begun(r).target
    BY <1>1, <1>2 DEF Timed
  <1>5. ASSUME ~Active(r) PROVE Timed(r) = flags
    <2>1. Begun(r) = flags /\ ~PreheatOver(r) /\ ~HalfOver(r)
      BY <1>5 DEF Begun, Began, PreheatOver, HalfOver
    <2> QED BY <2>1, <1>1, <1>5 DEF Timed
  <1> QED BY <1>2, <1>3, <1>4, <1>5 DEF Counted

\* A reading that shows no cook is of one that is over.
LEMMA ActivePast == ASSUME NEW r \in Readings PROVE Active(r) <=> ~Past(r)
  BY DEF Readings, Steps, Active, Past, Gone, LidWait, ACTIVE_STATES, PREHEAT_STATES,
     COOKING_STATES, REST_STATES, PAUSED_STATES

\* What is announced of a cloud reading: at most one of each event of the present cook, and
\* then everything newer is of this cook and follows the reading.
LEMMA Announced ==
    ASSUME TypeOK, Ordered, ~local, NEW r \in Readings, Shows(r), NEW e \in Events,
           fired[e] > 0 => OfNow
    PROVE  /\ prev' = r.step /\ prev' # None /\ prevPrompt' = (r.step = "insert_food")
           /\ prev = None => fired' = fired /\ newCook' = newCook /\ flags' = Seeded(Cloud(r))
           /\ prev # None =>
                /\ newCook' = (newCook /\ ~Began(Cloud(r)))
                /\ flags' = [Counted(Cloud(r)) EXCEPT !.target = @ \/ Fires("probeTarget", Cloud(r))]
                /\ ~Fires(e, Cloud(r)) => fired'[e] = fired[e]
                /\ Fires(e, Cloud(r)) => fired'[e] = fired[e] \/ fired'[e] = fired[e] + 1
           /\ fired'[e] > 0 => OfNow' /\ \A y \in Newer' : Older(r, y)
           /\ fired[e] \in 0..2
  <1> DEFINE c == Cloud(r)
  <1>1. Announce(c, {})
    BY DEF Shows
  <1>2. c.step = r.step /\ c.prompt = (r.step = "insert_food") /\ CookOf(e, c) = r.cook
    BY CloudReading DEF CookOf
  <1> HIDE DEF c
  <1>3. fired \in [Events -> 0..2] /\ r.step # None
    BY DEF TypeOK, Readings, Steps, None, LidWait
  <1>4. prev' = r.step /\ prevPrompt' = (r.step = "insert_food")
    BY <1>1, <1>2 DEF Announce
  <1>5. ASSUME prev = None PROVE fired' = fired /\ newCook' = newCook /\ flags' = Seeded(c)
    <2>1. First(c, {})
      BY <1>1, <1>5 DEF Announce
    <2>2. fired' = Recount({})
      BY <2>1 DEF First
    <2>3. fired' = fired
      BY <2>2, <1>3 DEF Recount
    <2> QED BY <2>1, <2>3 DEF First
  <1>6. ASSUME prev # None
        PROVE  /\ newCook' = (newCook /\ ~Began(c))
               /\ flags' = [Counted(c) EXCEPT !.target = @ \/ Fires("probeTarget", c)]
               /\ fired'[e] = IF r.cook = grill.cook /\ fired[e] < 2 /\ Fires(e, c)
                              THEN fired[e] + 1 ELSE fired[e]
    <2>1. Emit(c, {})
      BY <1>1, <1>6 DEF Announce
    <2> QED BY <2>1, <1>2 DEF Emit
  <1>7. ASSUME fired'[e] > 0 PROVE OfNow' /\ \A y \in Newer' : Older(r, y)
    <2>1. r.cook = grill.cook
      BY <1>3, <1>5, <1>6, <1>7 DEF OfNow, Shows
    <2>2. ASSUME NEW y \in Newer' PROVE y.cook = grill'.cook /\ Older(r, y)
      <3>1. y \in Newer /\ Follows(r, y) /\ grill' = grill
        BY DEF Shows
      <3>2. Follows(y, grill) /\ y \in Readings /\ grill \in Readings
        <4>1. grill \in Readings /\ polls \in Seq(Readings) /\ behind \in 0..Len(polls)
          BY DEF TypeOK
        <4>2. \A i \in behind + 1..Len(polls) : i \in 1..Len(polls)
          BY <4>1
        <4> QED BY <3>1, <4>1, <4>2, FollowsReflexive, NewerReadings DEF Newer, Ordered
      <3>3. y.cook \in Int /\ grill.cook \in Int /\ r.cook \in Int
        BY <3>2 DEF Readings
      <3> QED BY <2>1, <3>1, <3>2, <3>3 DEF Follows
    <2> QED BY <2>2 DEF OfNow
  <1> QED BY <1>3, <1>4, <1>5, <1>6, <1>7 DEF c

\* The names of the events.
LEMMA FiresCases ==
    ASSUME NEW r
    PROVE  /\ Fires("started", r) = Began(r) /\ Fires("preheatComplete", r) = PreheatOver(r)
           /\ Fires("halftime", r) = HalfOver(r) /\ Fires("done", r) = Ended(r)
           /\ Fires("addfood", r) = (r.prompt /\ ~prevPrompt)
           /\ Fires("probeTarget", r) = (Active(r) /\ ~Counted(r).target /\ AtTarget(r))
  BY DEF Fires

\* Without an announcement: a step keeps the past, and forgets or begins anew to count.
LEMMA Quiet ==
    ASSUME TypeOK, TypeOK', ~local, CloudInv,
           \/ fired' = Nothing
           \/ /\ Kept
              /\ \/ UNCHANGED <<prev, newCook, flags, prevPrompt, fired>>
                 \/ \E s \in {"preheat", "cooking"} : StartReturns(s)
                 \/ PollOffline \/ Restart
    PROVE  CloudInv'
  <1> USE DEF CloudInv
  <1>1. CASE fired' = Nothing
    BY <1>1 DEF HalftimeInv, TargetInv, PreheatInv, FoodInv, DoneInv, StartedInv, Nothing, Events
  <1>2. CASE Kept /\ UNCHANGED <<prev, newCook, flags, prevPrompt, fired>>
    BY <1>2, PassedKept DEF HalftimeInv, TargetInv, PreheatInv, FoodInv, DoneInv, StartedInv
  <1>3. ASSUME NEW s \in {"preheat", "cooking"}, StartReturns(s), Kept PROVE CloudInv'
    <2>1. /\ fired'["halftime"] = 0 /\ fired'["probeTarget"] = 0 /\ fired'["started"] = 0
          /\ fired'["preheatComplete"] = fired["preheatComplete"]
          /\ fired'["done"] = fired["done"] /\ fired'["addfood"] = fired["addfood"]
      BY <1>3 DEF StartReturns, Recount, Restarted, Events
    <2>2. UNCHANGED <<prev, flags, prevPrompt>>
      BY <1>3 DEF StartReturns
    <2> QED BY <1>3, <2>1, <2>2, PassedKept
            DEF HalftimeInv, TargetInv, PreheatInv, FoodInv, DoneInv, StartedInv
  <1>4. ASSUME PollOffline \/ Restart, Kept PROVE CloudInv'
    <2>1. prev' = None /\ fired' = fired /\ (newCook' = newCook \/ newCook' = FALSE)
      BY <1>4 DEF PollOffline, Forget, Restart
    <2>2. None \notin ACTIVE_STATES
      BY DEF None, ACTIVE_STATES, PREHEAT_STATES, COOKING_STATES, REST_STATES, PAUSED_STATES
    <2> QED BY <1>4, <2>1, <2>2, PassedKept
            DEF HalftimeInv, TargetInv, PreheatInv, FoodInv, DoneInv, StartedInv
  <1> QED BY <1>1, <1>2, <1>3, <1>4

\* The cook that a reading shows to be over, or past its half, is so in everything newer.
LEMMA NewerPassed ==
    ASSUME TypeOK', NEW r \in Readings, Fits(r), \A y \in Newer' : Older(r, y)
    PROVE  /\ ~Active(r) => CookOver'
           /\ Gone(r) => CookGone'
           /\ Active(r) /\ Halftime(r) => HalfPassed'
           /\ r.temp >= TARGET => TargetPassed'
           /\ ~Preheating(r) => PreheatPassed'
           /\ ~Preheating(r) /\ r.step # "insert_food" => FoodPassed'
  <1> SUFFICES ASSUME NEW y \in Newer'
               PROVE  /\ ~Active(r) => Past(y)
                      /\ Gone(r) => Gone(y)
                      /\ Active(r) /\ Halftime(r) => Past(y) \/ Halftime(y)
                      /\ r.temp >= TARGET => y.temp >= TARGET
                      /\ ~Preheating(r) => ~Preheating(y)
                      /\ ~Preheating(r) /\ r.step # "insert_food" => y.phase # "preheat"
    BY DEF HalfPassed, TargetPassed, PreheatPassed, FoodPassed, CookOver, CookGone
  <1>1. y \in Readings
    <2>1. grill' \in Readings /\ polls' \in Seq(Readings) /\ behind' \in 0..Len(polls')
      BY DEF TypeOK
    <2>2. \A i \in behind' + 1..Len(polls') : polls'[i] \in Readings
      BY <2>1, Elements
    <2> QED BY <2>1, <2>2 DEF Newer
  <1>2. Older(r, y) /\ (Active(r) <=> ~Past(r))
    BY ActivePast
  <1>3. r.left \in Int /\ y.left \in Int /\ r.temp \in Int /\ y.temp \in Int
    BY <1>1 DEF Readings
  <1>4. Active(r) /\ Halftime(r) => Past(y) \/ Halftime(y)
    BY <1>2, <1>3, UnitsAssumption DEF Halftime, Older
  <1>5. r.temp >= TARGET => y.temp >= TARGET
    BY <1>2, <1>3, UnitsAssumption DEF Older
  <1>6. ~Preheating(r) /\ r.step # "insert_food" => r.phase # "preheat"
    BY DEF Preheating, PREHEAT_STATES
  <1> QED BY <1>2, <1>4, <1>5, <1>6 DEF Older

LEMMA StartedShown ==
    ASSUME TypeOK, TypeOK', Ordered, ~local, StartedInv, NEW r \in Readings, Shows(r)
    PROVE  StartedInv'
  <1> DEFINE c == Cloud(r)
  <1> SUFFICES ASSUME fired'["started"] > 0 PROVE StartedInv'
    BY DEF StartedInv
  <1>0. "started" \in Events /\ (fired["started"] > 0 => OfNow)
    BY DEF Events, StartedInv
  <1>1. OfNow' /\ (~Active(r) => CookOver') /\ prev' = r.step
    BY <1>0, Announced, NewerPassed DEF Shows
  <1>2. Active(c) = Active(r) /\ r \in Newer
    BY CloudReading DEF Active, Shows
  <1>3. prev' \notin ACTIVE_STATES => CookOver'
    BY <1>1 DEF Active
  <1>4. CASE prev = None
    BY <1>0, <1>1, <1>3, <1>4, Announced DEF StartedInv
  <1>5. CASE prev # None
    <2>1. CASE fired["started"] > 0
      <3>1. ~newCook /\ fired["started"] = 1 /\ (prev \notin ACTIVE_STATES => Past(r))
        BY <1>2, <1>5, <2>1 DEF StartedInv, CookOver
      <3>2. ~Began(c)
        BY <3>1, <1>2, ActivePast DEF Began
      <3>3. fired'["started"] = 1 /\ ~newCook'
        BY <1>0, <1>5, <3>1, <3>2, Announced, FiresCases
      <3> QED BY <1>1, <1>3, <3>3 DEF StartedInv
    <2>2. CASE ~(fired["started"] > 0)
      <3>1. fired["started"] = 0
        BY <1>0, <2>2, Announced
      <3>2. Began(c) /\ fired'["started"] = 1
        BY <1>0, <1>5, <3>1, Announced, FiresCases
      <3>3. ~newCook'
        BY <1>0, <1>5, <3>2, Announced
      <3> QED BY <1>1, <1>3, <3>2, <3>3 DEF StartedInv
    <2> QED BY <2>1, <2>2
  <1> QED BY <1>4, <1>5

LEMMA DoneShown ==
    ASSUME TypeOK, TypeOK', Ordered, ~local, DoneInv, NEW r \in Readings, Shows(r)
    PROVE  DoneInv'
  <1> DEFINE c == Cloud(r)
  <1> SUFFICES ASSUME fired'["done"] > 0 PROVE DoneInv'
    BY DEF DoneInv
  <1>0. "done" \in Events /\ (fired["done"] > 0 => OfNow)
    BY DEF Events, DoneInv
  <1>1. /\ OfNow' /\ (~Active(r) => CookOver') /\ (Gone(r) => CookGone')
        /\ prev' = r.step /\ prev' # None
    BY <1>0, Announced, NewerPassed DEF Shows
  <1>2. c.step = r.step /\ r \in Newer
    BY CloudReading DEF Shows
  <1>3. ASSUME ~Active(r), fired'["done"] = 1 PROVE DoneInv'
    <2>1. Past(r) /\ prev' \notin ACTIVE_STATES
      BY <1>1, <1>3, ActivePast DEF Active
    <2> QED BY <1>1, <1>3, <2>1 DEF DoneInv, Past
  <1>4. CASE fired["done"] > 0
    <2>1. fired["done"] = 1 /\ Past(r) /\ prev \notin ACTIVE_STATES
          /\ (prev \notin {None, "done"} => Gone(r))
      BY <1>2, <1>4 DEF DoneInv, CookOver, CookGone
    <2>2. prev # None => ~Ended(c)
      BY <1>2, <2>1 DEF Ended, EndsCook, Gone, LidWait
    <2>3. fired'["done"] = 1
      BY <1>0, <2>1, <2>2, Announced, FiresCases
    <2> QED BY <1>3, <2>1, <2>3, ActivePast
  <1>5. CASE ~(fired["done"] > 0)
    <2>1. fired["done"] = 0
      BY <1>0, <1>5, Announced
    <2>2. Ended(c) /\ fired'["done"] = 1
      BY <1>0, <2>1, Announced, FiresCases
    <2>3. ~Active(r)
      BY <1>2, <2>2, PhasesDisjoint DEF Ended, EndsCook, Active
    <2> QED BY <1>3, <2>2, <2>3
  <1> QED BY <1>4, <1>5

LEMMA FoodShown ==
    ASSUME TypeOK, TypeOK', Ordered, ~local, FoodInv, NEW r \in Readings, Shows(r)
    PROVE  FoodInv'
  <1> DEFINE c == Cloud(r)
  <1> SUFFICES ASSUME fired'["addfood"] > 0 PROVE FoodInv'
    BY DEF FoodInv
  <1>0. "addfood" \in Events /\ (fired["addfood"] > 0 => OfNow)
    BY DEF Events, FoodInv
  <1>1. /\ OfNow' /\ (~Preheating(r) => PreheatPassed')
        /\ (~Preheating(r) /\ r.step # "insert_food" => FoodPassed')
        /\ prevPrompt' = (r.step = "insert_food")
    BY <1>0, Announced, NewerPassed DEF Shows
  <1>2. c.prompt = (r.step = "insert_food") /\ r \in Newer /\ Fits(r)
    BY CloudReading DEF Shows
  <1>3. CASE fired["addfood"] > 0
    <2>1. ~Preheating(r) /\ fired["addfood"] = 1
          /\ (prev # None /\ ~prevPrompt => r.phase # "preheat")
      BY <1>2, <1>3 DEF FoodInv, PreheatPassed, FoodPassed
    <2>2. prev # None => ~(c.prompt /\ ~prevPrompt)
      BY <1>2, <2>1 DEF Fits
    <2>3. fired'["addfood"] = 1
      BY <1>0, <2>1, <2>2, Announced, FiresCases
    <2> QED BY <1>1, <2>1, <2>3 DEF FoodInv
  <1>4. CASE ~(fired["addfood"] > 0)
    <2>1. fired["addfood"] = 0
      BY <1>0, <1>4, Announced
    <2>2. Fires("addfood", c) /\ fired'["addfood"] = 1
      BY <1>0, <2>1, Announced
    <2>3. r.step = "insert_food"
      BY <1>2, <2>2 DEF Fires
    <2>4. ~Preheating(r)
      BY <2>3 DEF Preheating
    <2> QED BY <1>1, <2>2, <2>3, <2>4 DEF FoodInv
  <1> QED BY <1>3, <1>4

\* The flags after a reading of a cloud.
LEMMA FlagsShown ==
    ASSUME TypeOK, Ordered, ~local, NEW r \in Readings, Shows(r), prev # None
    PROVE  /\ flags'.seenPreheat = Counted(Cloud(r)).seenPreheat
           /\ flags'.preheat = Counted(Cloud(r)).preheat
           /\ flags'.halftime = Counted(Cloud(r)).halftime
           /\ flags'.target = (Counted(Cloud(r)).target \/ Fires("probeTarget", Cloud(r)))
  <1>1. Emit(Cloud(r), {})
    BY DEF Shows, Announce
  <1>2. Counted(Cloud(r)) \in Flags
    BY FlagsType
  <1> QED BY <1>1, <1>2 DEF Emit, Flags

LEMMA PreheatShown ==
    ASSUME TypeOK, TypeOK', Ordered, ~local, PreheatInv, NEW r \in Readings, Shows(r)
    PROVE  PreheatInv'
  <1> DEFINE c == Cloud(r)
  <1> SUFFICES ASSUME fired'["preheatComplete"] > 0 PROVE PreheatInv'
    BY DEF PreheatInv
  <1>0. "preheatComplete" \in Events /\ (fired["preheatComplete"] > 0 => OfNow)
    BY DEF Events, PreheatInv
  <1>1. OfNow' /\ (~Preheating(r) => PreheatPassed')
    BY <1>0, Announced, NewerPassed DEF Shows
  <1>2. (Preheating(c) <=> Preheating(r)) /\ r \in Newer
    BY CloudReading DEF Preheating, Shows
  <1>3. Begun(c) = Reset \/ Begun(c) = flags
    BY DEF Begun
  <1>4. ~Reset.seenPreheat
    BY DEF Reset
  <1>5. CASE fired["preheatComplete"] > 0
    <2>1. ~Preheating(c) /\ fired["preheatComplete"] = 1
          /\ (prev # None /\ flags.seenPreheat => flags.preheat)
      BY <1>2, <1>5 DEF PreheatInv, PreheatPassed
    <2>2. CASE prev = None
      <3>1. fired' = fired /\ flags' = Seeded(c)
        BY <1>0, <2>2, Announced DEF PreheatInv
      <3>2. ~flags'.seenPreheat
        BY <2>1, <3>1, <1>4 DEF Seeded
      <3> QED BY <1>1, <1>2, <2>1, <3>1, <3>2 DEF PreheatInv
    <2>3. CASE prev # None
      <3>1. Begun(c).seenPreheat => Begun(c).preheat
        BY <1>3, <1>4, <2>1, <2>3
      <3>2. ~PreheatOver(c)
        BY <3>1 DEF PreheatOver
      <3>3. fired'["preheatComplete"] = 1
        BY <1>0, <2>1, <2>3, <3>2, Announced, FiresCases DEF PreheatInv
      <3>4. Counted(c).seenPreheat => Counted(c).preheat
        BY <1>4, <2>1, <2>3, <3>1, ShownFlags
      <3>5. flags'.seenPreheat => flags'.preheat
        BY <2>3, <3>4, FlagsShown
      <3> QED BY <1>1, <1>2, <2>1, <3>3, <3>5 DEF PreheatInv
    <2> QED BY <2>2, <2>3
  <1>6. CASE ~(fired["preheatComplete"] > 0)
    <2>1. fired["preheatComplete"] = 0
      BY <1>0, <1>6, Announced
    <2>2. PreheatOver(c) /\ fired'["preheatComplete"] = 1 /\ prev # None
      BY <1>0, <2>1, Announced, FiresCases
    <2>3. ~Preheating(r) /\ Counted(c).preheat
      BY <1>2, <2>2, ShownFlags DEF PreheatOver
    <2>4. flags'.preheat
      BY <2>2, <2>3, FlagsShown
    <2> QED BY <1>1, <2>2, <2>3, <2>4 DEF PreheatInv
  <1> QED BY <1>5, <1>6

LEMMA HalftimeShown ==
    ASSUME TypeOK, TypeOK', Ordered, ~local, HalftimeInv, NEW r \in Readings, Shows(r)
    PROVE  HalftimeInv'
  <1> DEFINE c == Cloud(r)
  <1> SUFFICES ASSUME fired'["halftime"] > 0 PROVE HalftimeInv'
    BY DEF HalftimeInv
  <1>0. "halftime" \in Events /\ (fired["halftime"] > 0 => OfNow)
    BY DEF Events, HalftimeInv
  <1>1. /\ OfNow' /\ prev' = r.step
        /\ (~Active(r) => CookOver') /\ (Active(r) /\ Halftime(r) => HalfPassed')
    BY <1>0, Announced, NewerPassed DEF Shows
  <1>2. (Active(c) <=> Active(r)) /\ (Halftime(c) <=> Halftime(r)) /\ r \in Newer
    BY CloudReading DEF Active, Halftime, Shows
  <1>3. CookOver' => HalfPassed'
    BY DEF CookOver, HalfPassed
  <1>4. CASE fired["halftime"] > 0
    <2>1. /\ Past(r) \/ Halftime(r)
          /\ ~newCook /\ fired["halftime"] = 1
          /\ prev # None /\ (~flags.halftime \/ prev \notin ACTIVE_STATES) => Past(r)
      BY <1>2, <1>4 DEF HalftimeInv, HalfPassed, CookOver
    <2>2. CASE ~Active(r)
      <3>1. ~HalfOver(c)
        BY <1>2, <2>2 DEF HalfOver
      <3>2. fired'["halftime"] = 1 /\ ~newCook'
        BY <1>0, <2>1, <3>1, Announced, FiresCases DEF HalftimeInv
      <3> QED BY <1>1, <1>3, <2>2, <3>2 DEF HalftimeInv
    <2>3. CASE Active(r) /\ prev = None
      <3>1. fired' = fired /\ newCook' = newCook /\ flags' = Seeded(c)
        BY <1>0, <2>3, Announced DEF HalftimeInv
      <3>2. Halftime(r) /\ r.step \in ACTIVE_STATES
        BY <2>1, <2>3, ActivePast DEF Active
      <3>3. flags'.halftime
        BY <1>2, <2>3, <3>1, <3>2 DEF Seeded
      <3> QED BY <1>1, <2>1, <2>3, <3>1, <3>2, <3>3 DEF HalftimeInv
    <2>4. CASE Active(r) /\ prev # None
      <3>1. ~Past(r) /\ Halftime(r) /\ flags.halftime /\ prev \in ACTIVE_STATES
        BY <2>1, <2>4, ActivePast
      <3>2. Begun(c) = flags
        BY <2>1, <3>1 DEF Begun, Began
      <3>3. ~HalfOver(c)
        BY <3>1, <3>2 DEF HalfOver
      <3>4. fired'["halftime"] = 1 /\ ~newCook'
        BY <1>0, <2>1, <2>4, <3>3, Announced, FiresCases DEF HalftimeInv
      <3>5. Counted(c).halftime
        BY <1>2, <2>4, <3>1, <3>2, ShownFlags
      <3>6. flags'.halftime /\ prev' \in ACTIVE_STATES
        BY <1>1, <2>4, <3>5, FlagsShown DEF Active
      <3> QED BY <1>1, <2>4, <3>1, <3>4, <3>6 DEF HalftimeInv
    <2> QED BY <2>2, <2>3, <2>4
  <1>5. CASE ~(fired["halftime"] > 0)
    <2>1. fired["halftime"] = 0
      BY <1>0, <1>5, Announced
    <2>2. HalfOver(c) /\ fired'["halftime"] = 1 /\ prev # None
      BY <1>0, <2>1, Announced, FiresCases
    <2>3. Active(r) /\ Halftime(r) /\ Counted(c).halftime
      BY <1>2, <2>2, ShownFlags DEF HalfOver
    <2>4. ~newCook'
      <3>1. newCook => Began(c)
        BY <1>2, <2>3 DEF Began
      <3> QED BY <1>0, <2>2, <3>1, Announced DEF HalftimeInv
    <2>5. flags'.halftime /\ prev' \in ACTIVE_STATES
      BY <1>1, <2>2, <2>3, FlagsShown DEF Active
    <2> QED BY <1>1, <2>2, <2>3, <2>4, <2>5 DEF HalftimeInv
  <1> QED BY <1>4, <1>5

LEMMA TargetShown ==
    ASSUME TypeOK, TypeOK', Ordered, ~local, TargetInv, NEW r \in Readings, Shows(r)
    PROVE  TargetInv'
  <1> DEFINE c == Cloud(r)
  <1> SUFFICES ASSUME fired'["probeTarget"] > 0 PROVE TargetInv'
    BY DEF TargetInv
  <1>0. "probeTarget" \in Events /\ (fired["probeTarget"] > 0 => OfNow)
    BY DEF Events, TargetInv
  <1>1. /\ OfNow' /\ prev' = r.step
        /\ (~Active(r) => CookOver') /\ (r.temp >= TARGET => TargetPassed')
    BY <1>0, Announced, NewerPassed DEF Shows
  <1>2. (Active(c) <=> Active(r)) /\ (AtTarget(c) <=> r.temp >= TARGET) /\ r \in Newer
    BY CloudReading DEF Active, AtTarget, Shows
  <1>3. CASE fired["probeTarget"] > 0
    <2>1. /\ r.temp >= TARGET
          /\ ~newCook /\ fired["probeTarget"] = 1
          /\ prev # None /\ (~flags.target \/ prev \notin ACTIVE_STATES) => Past(r)
      BY <1>2, <1>3 DEF TargetInv, TargetPassed, CookOver
    <2>2. CASE ~Active(r)
      <3>1. ~Fires("probeTarget", c)
        BY <1>2, <2>2, FiresCases
      <3>2. fired'["probeTarget"] = 1 /\ ~newCook'
        BY <1>0, <2>1, <3>1, Announced DEF TargetInv
      <3> QED BY <1>1, <2>1, <2>2, <3>2 DEF TargetInv
    <2>3. CASE Active(r) /\ prev = None
      <3>1. fired' = fired /\ newCook' = newCook /\ flags' = Seeded(c)
        BY <1>0, <2>3, Announced DEF TargetInv
      <3>2. flags'.target /\ r.step \in ACTIVE_STATES
        BY <1>2, <2>1, <2>3, <3>1 DEF Seeded, Active
      <3> QED BY <1>1, <2>1, <3>1, <3>2 DEF TargetInv
    <2>4. CASE Active(r) /\ prev # None
      <3>1. flags.target /\ prev \in ACTIVE_STATES
        BY <2>1, <2>4, ActivePast
      <3>2. Begun(c) = flags
        BY <2>1, <3>1 DEF Begun, Began
      <3>3. Counted(c).target
        BY <1>2, <2>4, <3>1, <3>2, ShownFlags
      <3>4. ~Fires("probeTarget", c)
        BY <3>3, FiresCases
      <3>5. fired'["probeTarget"] = 1 /\ ~newCook'
        BY <1>0, <2>1, <2>4, <3>4, Announced DEF TargetInv
      <3>6. flags'.target /\ prev' \in ACTIVE_STATES
        BY <1>1, <2>4, <3>3, FlagsShown DEF Active
      <3> QED BY <1>1, <2>1, <3>5, <3>6 DEF TargetInv
    <2> QED BY <2>2, <2>3, <2>4
  <1>4. CASE ~(fired["probeTarget"] > 0)
    <2>1. fired["probeTarget"] = 0
      BY <1>0, <1>4, Announced
    <2>2. Fires("probeTarget", c) /\ fired'["probeTarget"] = 1 /\ prev # None
      BY <1>0, <2>1, Announced
    <2>3. Active(r) /\ r.temp >= TARGET
      BY <1>2, <2>2, FiresCases
    <2>4. ~newCook'
      <3>1. newCook => Began(c)
        BY <1>2, <2>3 DEF Began
      <3> QED BY <1>0, <2>2, <3>1, Announced DEF TargetInv
    <2>5. flags'.target /\ prev' \in ACTIVE_STATES
      BY <1>1, <2>2, <2>3, FlagsShown DEF Active
    <2> QED BY <1>1, <2>2, <2>3, <2>4, <2>5 DEF TargetInv
  <1> QED BY <1>3, <1>4
-----------------------------------------------------------------------------
(* The theorems.                                                           *)

\* The inductive invariant holds throughout: readings are taken in an order, and an event that
\* was fired is one that the cook has passed in everything still to be shown
\* (coordinator.py:594-598, 632-709).
THEOREM Invariance == Spec => []IInv
  <1>1. ASSUME IInv, [Next]_vars PROVE IInv'
    <2>1. TypeOK'
      BY <1>1, TypeStep DEF IInv
    <2>2. Ordered'
      BY <1>1, OrderedStep DEF IInv
    <2>3. ASSUME ~local PROVE CloudInv'
      <3>1. TypeOK /\ Ordered /\ CloudInv
        BY <1>1, <2>3 DEF IInv
      <3>2. ASSUME NEW r \in Readings, Shows(r) PROVE CloudInv'
        BY <2>1, <2>3, <3>1, <3>2, HalftimeShown, TargetShown, PreheatShown, FoodShown, DoneShown,
           StartedShown DEF CloudInv
      <3> QED BY <1>1, <2>1, <2>3, <3>1, <3>2, StepKinds, Quiet
    <2>4. local' = local
      BY <1>1 DEF Next, vars, GrillMoves, CookGoesOn, TimerRuns, StartActs, StartReturns, StartFails,
         PollReads, PollShows, PollOffline, BeaconComes, BeaconAges, PollFrameless,
         PollUnconnected, Show, Restart
    <2> QED BY <2>1, <2>2, <2>3, <2>4 DEF IInv
  <1> QED BY InitIInv, <1>1, PTL DEF Spec

\* Every variable keeps its type, over a cloud and over Bluetooth, for any cook time, target,
\* number of cooks and number of polls under way.
THEOREM TypeCorrect == Spec => []TypeOK
  <1>1. IInv => TypeOK
    BY DEF IInv
  <1> QED BY <1>1, Invariance, PTL

\* Over a cloud the end of the preheat, half time, the probe at its target and the call to add
\* food are announced at most once for a cook, but for what `fired` counts anew at: a reading
\* older than one shown, and a start that is answered late (coordinator.py:594-598, 654-709).
THEOREM AnnouncedOnce == Spec => [](local \/ MilestonesOnce)
  <1>1. IInv => local \/ MilestonesOnce
    BY DEF IInv, CloudInv, MilestonesOnce, HalftimeInv, TargetInv, PreheatInv, FoodInv, TypeOK, Events
  <1> QED BY <1>1, Invariance, PTL

\* And so is its end (coordinator.py:681-690).
THEOREM EndedOnce == Spec => [](local \/ DoneOnce)
  <1>1. IInv => local \/ DoneOnce
    BY DEF IInv, CloudInv, DoneOnce, DoneInv, TypeOK, Events
  <1> QED BY <1>1, Invariance, PTL

\* And its start: a start that is pending spends itself on one cook (coordinator.py:649-652,
\* 1125).
THEOREM BegunOnce == Spec => [](local \/ StartedOnce)
  <1>1. IInv => local \/ StartedOnce
    BY DEF IInv, CloudInv, StartedOnce, StartedInv, TypeOK, Events
  <1> QED BY <1>1, Invariance, PTL
=============================================================================
