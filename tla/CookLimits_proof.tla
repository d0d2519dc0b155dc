-------------------------- MODULE CookLimits_proof ---------------------------
(***************************************************************************)
(* TLAPS proofs about CookLimits, for every table of capabilities, every   *)
(* set of reports, callers and changes: what is sent keeps to the limits,  *)
(* is what was accepted, and required smoke is staged.                     *)
(***************************************************************************)
EXTENDS CookLimits, TLAPS

\* What _validate establishes about a change that is checked for a mode.
KeepsLimits(ask, m) ==
    m \in Modes => /\ ask.temp = NoChange \/ InLimits(ask.temp, m)
                   /\ ask.on \cup ask.off \subseteq Fitted
                   /\ Limits[m].probe \/ ask.on = {}

\* A change waits with what it was checked for, however long that takes.
Checked ==
    \A c \in Callers : waiting[c] # NoChange => KeepsLimits(waiting[c].ask, waiting[c].checked)

IInv == TypeOK /\ Checked /\ SentWithinLimits /\ AcceptedSent /\ SmokeStaged
-----------------------------------------------------------------------------
(* What the table of capabilities and the sets of inputs contain.          *)

\* Lemma: the fields of a mode's limits, and its default between them.
LEMMA ModeLimits ==
  ASSUME NEW m \in Modes
  PROVE  /\ Limits[m].low \in Nat /\ Limits[m].high \in Nat /\ Limits[m].default \in Nat
         /\ Limits[m].smoke \in BOOLEAN /\ Limits[m].always \in BOOLEAN
         /\ Limits[m].probe \in BOOLEAN /\ Limits[m].withSmoke \in BOOLEAN
         /\ Limits[m].always => Limits[m].withSmoke
         /\ InLimits(Limits[m].default, m) /\ Limits[m].low <= Limits[m].high
  <1>1. Limits[m] \in [low : Nat, high : Nat, default : Nat, smoke : BOOLEAN,
                       withSmoke : BOOLEAN, always : BOOLEAN, probe : BOOLEAN]
    BY LimitsAssumption
  <1>2. /\ Limits[m].default \in Limits[m].low..Limits[m].high
        /\ Limits[m].always => Limits[m].withSmoke
    BY LimitsAssumption
  <1> QED BY <1>1, <1>2 DEF InLimits

\* Lemma: the temperatures of the card are numbers.
LEMMA TempsAreNumbers == Temps \subseteq Nat
  <1>1. \A m \in Modes : Limits[m].low \in Nat /\ Limits[m].high \in Nat
    BY ModeLimits
  <1> QED BY <1>1 DEF Temps

\* Lemma: a change that names nothing, as the card's changes begin.
LEMMA ChangeType == Change \in Changes
  BY DEF Change, Changes

\* Lemma: the cook that a start sends is one, and keeps to its mode's limits.
LEMMA StartWithin ==
  ASSUME NEW s \in Cooks, s.mode \in Modes
  PROVE  StartOf(s) \in Cooks /\ Within(StartOf(s))
  <1> DEFINE l == Limits[s.mode]
  <1>1. /\ l.low \in Nat /\ l.high \in Nat /\ l.low <= l.high
        /\ l.smoke \in BOOLEAN /\ l.always \in BOOLEAN /\ l.probe \in BOOLEAN
    BY ModeLimits
  <1>2. s.temp \in Nat /\ s.smoke \in BOOLEAN /\ s.probes \subseteq {0, 1} /\ s.mode \in Names
    BY DEF Cooks
  <1>3. Clamp(s.temp, l) \in Nat /\ InLimits(Clamp(s.temp, l), s.mode)
    BY <1>1, <1>2 DEF Clamp, InLimits
  <1>4. /\ Smoke(s.smoke, l) \in BOOLEAN
        /\ Smoke(s.smoke, l) = Smoke(Smoke(s.smoke, l), l)
    BY <1>1, <1>2 DEF Smoke
  <1>5. /\ StartOf(s).mode = s.mode /\ StartOf(s).temp = Clamp(s.temp, l)
        /\ StartOf(s).smoke = Smoke(s.smoke, l)
        /\ StartOf(s).probes = IF l.probe THEN s.probes \cap Fitted ELSE {}
    BY DEF StartOf
  <1>6. StartOf(s) \in Cooks
    BY <1>2, <1>3, <1>4 DEF StartOf, Cooks
  <1>7. Within(StartOf(s))
    BY <1>3, <1>4, <1>5 DEF Within
  <1> QED BY <1>6, <1>7

\* Lemma: what a re-issue builds on is a cook.
LEMMA BaseType ==
  ASSUME TypeOK, NEW s \in Cooks
  PROVE  Base(s) \in Cooks
  <1>1. CASE pending # NoCook
    BY <1>1 DEF TypeOK, Base
  <1>2. CASE pending = NoCook
    <2>1. /\ data.mode \in Names /\ data.temp \in Nat /\ data.smoke \in BOOLEAN
          /\ data.probes \in SUBSET {0, 1}
      BY DEF TypeOK, Views
    <2>2. s.temp \in Nat
      BY DEF Cooks
    <2> QED BY <1>2, <2>1, <2>2 DEF Base, Cooks
  <1> QED BY <1>1, <1>2

\* Lemma: the cook that a re-issue sends is one, and keeps to its mode's limits if it
\* has any.
LEMMA ReissueWithin ==
  ASSUME TypeOK, NEW s \in Cooks, NEW ask \in Changes
  PROVE  ReissueOf(ask, s) \in Cooks /\ Within(ReissueOf(ask, s))
  <1> DEFINE base == Base(s)
             cook == Overridden(ask, base)
             m == cook.mode
  <1>1. base \in Cooks
    BY BaseType
  <1>2. /\ ask.mode \in Names \cup {NoChange} /\ ask.temp \in Nat \cup {NoChange}
        /\ ask.smoke \in BOOLEAN \cup {NoChange} /\ ask.on \subseteq {0, 1}
    BY DEF Changes
  <1>3. /\ base.mode \in Names /\ base.temp \in Nat /\ base.smoke \in BOOLEAN
        /\ base.probes \subseteq {0, 1}
    BY <1>1 DEF Cooks
  <1> HIDE DEF base
  <1>4. cook \in Cooks
    BY <1>2, <1>3 DEF Overridden, Cooks
  <1>5. CASE m \notin Modes
    <2>1. ReissueOf(ask, s) = cook
      BY <1>5 DEF ReissueOf, base
    <2> QED BY <1>4, <1>5, <2>1 DEF Within
  <1>6. CASE m \in Modes
    <2> DEFINE l == Limits[m]
               temp == IF InLimits(cook.temp, m) THEN cook.temp ELSE l.default
               smoke == Smoke(cook.smoke, l)
               probes == IF l.probe THEN cook.probes ELSE {}
    <2>1. ReissueOf(ask, s) = [cook EXCEPT !.temp = temp, !.smoke = smoke, !.probes = probes]
      BY <1>6 DEF ReissueOf, base
    <2>2. /\ cook.temp \in Nat /\ cook.smoke \in BOOLEAN /\ cook.probes \in SUBSET {0, 1}
          /\ m \in Names
      BY <1>4 DEF Cooks
    <2>3. /\ l.default \in Nat /\ InLimits(l.default, m)
          /\ l.smoke \in BOOLEAN /\ l.always \in BOOLEAN /\ l.probe \in BOOLEAN
      BY <1>6, ModeLimits
    <2> HIDE DEF cook, l
    <2>4. temp \in Nat /\ InLimits(temp, m)
      BY <2>2, <2>3
    <2>5. smoke \in BOOLEAN /\ smoke = Smoke(smoke, l)
      BY <2>2, <2>3 DEF Smoke
    <2>6. probes \in SUBSET {0, 1} /\ (probes # {} => l.probe)
      BY <2>2
    <2> HIDE DEF temp, smoke, probes
    <2>7. ReissueOf(ask, s) = [mode |-> m, temp |-> temp, smoke |-> smoke, probes |-> probes]
      BY <2>1, <1>4 DEF Cooks
    <2>8. ReissueOf(ask, s) \in Cooks
      BY <2>2, <2>4, <2>5, <2>6, <2>7 DEF Cooks
    <2>9. Within(ReissueOf(ask, s))
      BY <2>4, <2>5, <2>6, <2>7 DEF Within, l
    <2> QED BY <2>8, <2>9
  <1> QED BY <1>5, <1>6

\* Lemma: what is staged is a cook, with smoke where its mode requires it.
LEMMA StagedType ==
  ASSUME TypeOK, NEW ask \in Changes
  PROVE  /\ Staged(ask) \in Cooks
         /\ Staged(ask).mode \in Modes /\ Limits[Staged(ask).mode].always => Staged(ask).smoke
  <1>1. /\ ask.mode \in Names \cup {NoChange} /\ ask.temp \in Nat \cup {NoChange}
        /\ ask.smoke \in BOOLEAN \cup {NoChange} /\ ask.on \subseteq {0, 1}
    BY DEF Changes
  <1>2. /\ staged.mode \in Names /\ staged.temp \in Nat /\ staged.smoke \in BOOLEAN
        /\ staged.probes \subseteq {0, 1}
    BY DEF TypeOK, Cooks
  <1> DEFINE mode == IF ask.mode = NoChange THEN staged.mode ELSE ask.mode
             smoke == IF ask.smoke = NoChange THEN staged.smoke ELSE ask.smoke
             kept == smoke \/ (mode \in Modes /\ Limits[mode].always)
  <1>3. mode \in Names /\ smoke \in BOOLEAN
    BY <1>1, <1>2
  <1>4. mode \in Modes => Limits[mode].always \in BOOLEAN
    BY ModeLimits
  <1>5. kept \in BOOLEAN
    BY <1>3, <1>4
  <1>6. Staged(ask) = [mode |-> mode,
                       temp |-> IF ask.temp = NoChange THEN staged.temp ELSE ask.temp,
                       smoke |-> kept, probes |-> (staged.probes \cup ask.on) \ ask.off]
    BY DEF Staged
  <1>7. mode \in Modes /\ Limits[mode].always => kept
    OBVIOUS
  <1> HIDE DEF mode, kept
  <1>8. Staged(ask) \in Cooks
    BY <1>1, <1>2, <1>3, <1>5, <1>6 DEF Cooks
  <1> QED BY <1>6, <1>7, <1>8
-----------------------------------------------------------------------------
(* The start, and a step that lets a change wait.                          *)

\* Lemma: the invariant holds at first: the default mode is staged with its defaults.
LEMMA InitInv == Init => IInv
  <1> SUFFICES ASSUME Init PROVE IInv
    OBVIOUS
  <1>1. /\ DefaultMode \in Modes /\ Limits[DefaultMode].default \in Nat
        /\ Limits[DefaultMode].withSmoke \in BOOLEAN
        /\ Limits[DefaultMode].always => Limits[DefaultMode].withSmoke
    BY ModesAssumption, ModeLimits
  <1>2. data \in Views
    BY <1>1 DEF Init, Views, Phases, Names
  <1>3. staged \in Cooks
    BY <1>1 DEF Init, Cooks, Names
  <1>4. TypeOK
    BY <1>2, <1>3 DEF Init, TypeOK
  <1>5. Checked /\ SentWithinLimits /\ AcceptedSent
    BY DEF Init, Checked, SentWithinLimits, AcceptedSent
  <1>6. SmokeStaged
    BY <1>1 DEF Init, SmokeStaged
  <1> QED BY <1>4, <1>5, <1>6 DEF IInv

\* Lemma: a change that was checked may wait, with any settings staged meanwhile.
LEMMA AskedInv ==
  ASSUME IInv, NEW c \in Callers, NEW ask \in Changes, NEW m \in Names,
         Asked(c, ask, m), KeepsLimits(ask, m), staged' \in Cooks
  PROVE  IInv'
  <1> DEFINE w == [ask |-> ask, checked |-> m]
  <1>1. /\ w \in Waits /\ w # NoChange
    BY AsksAssumption DEF Waits
  <1>2. /\ waiting' = [waiting EXCEPT ![c] = w]
        /\ data' = data /\ pending' = pending /\ command' = command
    BY DEF Asked
  <1>3. waiting \in [Callers -> Waits \cup {NoChange}]
    BY DEF IInv, TypeOK
  <1>4. waiting'[c] = w /\ \A d \in Callers : d # c => waiting'[d] = waiting[d]
    BY <1>2, <1>3
  <1>5. TypeOK'
    BY <1>1, <1>2, <1>3 DEF IInv, TypeOK
  <1>6. Checked'
    <2>1. Checked
      BY DEF IInv
    <2>2. KeepsLimits(w.ask, w.checked)
      OBVIOUS
    <2> HIDE DEF w
    <2> QED BY <1>4, <2>1, <2>2 DEF Checked, KeepsLimits, InLimits
  <1>7. SentWithinLimits' /\ AcceptedSent'
    BY <1>2 DEF IInv, SentWithinLimits, AcceptedSent, SmokeChosen, Within, InLimits
  <1>8. SmokeStaged'
    BY <1>1, <1>4 DEF SmokeStaged
  <1> QED BY <1>5, <1>6, <1>7, <1>8 DEF IInv
-----------------------------------------------------------------------------
(* The changes that are asked for.                                         *)

\* Lemma: the mode that is shown is a mode, and so are the parts of what is shown.
LEMMA ShownTypes ==
  ASSUME TypeOK
  PROVE  ShownMode \in Names /\ ShownTemp \in Nat /\ ShownSmoke \in BOOLEAN
  <1>1. /\ data.mode \in Names /\ data.temp \in Nat /\ data.smoke \in BOOLEAN
        /\ staged.mode \in Names /\ staged.temp \in Nat /\ staged.smoke \in BOOLEAN
    BY DEF TypeOK, Views, Cooks
  <1>2. pending # NoCook => pending.temp \in Nat /\ pending.smoke \in BOOLEAN
    BY DEF TypeOK, Cooks
  <1> QED BY <1>1, <1>2 DEF ShownMode, ShownTemp, ShownSmoke, LiveTemp, LiveSmoke

\* Lemma: the service's changes and the Start button keep the invariant.
LEMMA ServicesAsk ==
  ASSUME IInv, NEW c \in Services, PressStart(c) \/ \E ask \in Asks : Configure(c, ask)
  PROVE  IInv'
  <1>1. c \in Callers /\ staged \in Cooks /\ ShownMode \in Names
    BY ShownTypes DEF IInv, TypeOK, Callers
  <1>2. CASE PressStart(c)
    <2> DEFINE ask == [Change EXCEPT !.start = TRUE]
    <2>1. ask \in Changes /\ ask.temp = NoChange /\ ask.on = {} /\ ask.off = {}
      BY ChangeType DEF Changes, Change
    <2>2. KeepsLimits(ask, ShownMode)
      BY <2>1 DEF KeepsLimits
    <2>3. Asked(c, ask, ShownMode) /\ staged' \in Cooks
      BY <1>1, <1>2 DEF PressStart
    <2> QED BY <1>1, <2>1, <2>2, <2>3, AskedInv
  <1>3. CASE \E ask \in Asks : Configure(c, ask)
    <2>1. PICK ask \in Asks : Configure(c, ask)
      BY <1>3
    <2> DEFINE m == IF ask.mode = NoChange THEN ShownMode ELSE ask.mode
    <2>2. ask \in Changes
      BY AsksAssumption
    <2>3. Valid(ask, m) /\ Asked(c, ask, m) /\ staged' = staged
      BY <2>1 DEF Configure
    <2>4. m \in Names
      BY <1>1, <2>2 DEF Changes
    <2>5. KeepsLimits(ask, m)
      BY <2>3 DEF Valid, KeepsLimits
    <2> HIDE DEF m
    <2> QED BY <1>1, <2>2, <2>3, <2>4, <2>5, AskedInv
  <1> QED BY <1>2, <1>3

\* Lemma: so do the card's number and select.
LEMMA CardSets ==
  ASSUME IInv, NEW c \in Cards,
         (\E t \in Temps : SetTemp(c, t)) \/ (\E m \in Modes : SelectMode(c, m))
  PROVE  IInv'
  <1>1. /\ c \in Callers /\ staged \in Cooks /\ ShownMode \in Names
        /\ ShownTemp \in Nat /\ ShownSmoke \in BOOLEAN
    BY ShownTypes DEF IInv, TypeOK, Callers
  <1>2. CASE \E t \in Temps : SetTemp(c, t)
    <2>1. PICK t \in Temps : SetTemp(c, t)
      BY <1>2
    <2> DEFINE ask == [Change EXCEPT !.temp = t]
    <2>2. /\ ask \in Changes /\ ask.temp = t /\ ask.on = {} /\ ask.off = {}
      BY TempsAreNumbers DEF Changes, Change
    <2>3. /\ Asked(c, ask, ShownMode) /\ staged' = staged
          /\ ShownMode \in Modes => InLimits(t, ShownMode)
      BY <2>1 DEF SetTemp
    <2>4. KeepsLimits(ask, ShownMode)
      BY <2>2, <2>3 DEF KeepsLimits
    <2> HIDE DEF ask
    <2> QED BY <1>1, <2>2, <2>3, <2>4, AskedInv
  <1>3. CASE \E m \in Modes : SelectMode(c, m)
    <2>1. PICK m \in Modes : SelectMode(c, m)
      BY <1>3
    <2> DEFINE temp == IF InLimits(ShownTemp, m) THEN NoChange ELSE Limits[m].default
               smoke == IF ~Limits[m].smoke /\ ShownSmoke THEN FALSE
                        ELSE IF Limits[m].withSmoke /\ ~ShownSmoke THEN TRUE ELSE NoChange
               ask == [Change EXCEPT !.mode = m, !.temp = temp, !.smoke = smoke]
    <2>2. /\ temp \in Nat \cup {NoChange} /\ (temp = NoChange \/ InLimits(temp, m))
          /\ m \in Names
      BY ModeLimits DEF Names
    <2>3. smoke \in BOOLEAN \cup {NoChange}
      OBVIOUS
    <2>4. /\ Asked(c, ask, m)
          /\ staged' = [staged EXCEPT !.temp = IF temp = NoChange THEN @ ELSE temp,
                                      !.smoke = IF smoke = NoChange THEN @ ELSE smoke]
      BY <2>1 DEF SelectMode
    <2> HIDE DEF temp, smoke
    <2>5. ask \in Changes /\ ask.temp = temp /\ ask.on = {} /\ ask.off = {}
      BY <2>2, <2>3 DEF Changes, Change
    <2>6. staged' \in Cooks
      BY <1>1, <2>2, <2>3, <2>4 DEF Cooks
    <2>7. KeepsLimits(ask, m)
      BY <2>2, <2>5 DEF KeepsLimits
    <2> HIDE DEF ask
    <2> QED BY <1>1, <2>2, <2>4, <2>5, <2>6, <2>7, AskedInv
  <1> QED BY <1>2, <1>3

\* Lemma: and the card's switches.
LEMMA CardSwitches ==
  ASSUME IInv, NEW c \in Cards, NEW on \in BOOLEAN,
         SwitchSmoke(c, on) \/ \E i \in {0, 1} : SwitchProbe(c, i, on)
  PROVE  IInv'
  <1>1. /\ c \in Callers /\ staged \in Cooks /\ ShownMode \in Names
    BY ShownTypes DEF IInv, TypeOK, Callers
  <1>2. CASE SwitchSmoke(c, on)
    <2> DEFINE ask == [Change EXCEPT !.smoke = on]
    <2>1. ask \in Changes /\ ask.temp = NoChange /\ ask.on = {} /\ ask.off = {}
      BY DEF Changes, Change
    <2>2. Asked(c, ask, ShownMode) /\ staged' = [staged EXCEPT !.smoke = on]
      BY <1>2 DEF SwitchSmoke
    <2>3. staged' \in Cooks
      BY <1>1, <2>2 DEF Cooks
    <2>4. KeepsLimits(ask, ShownMode)
      BY <2>1 DEF KeepsLimits
    <2> HIDE DEF ask
    <2> QED BY <1>1, <2>1, <2>2, <2>3, <2>4, AskedInv
  <1>3. CASE \E i \in {0, 1} : SwitchProbe(c, i, on)
    <2>1. PICK i \in {0, 1} : SwitchProbe(c, i, on)
      BY <1>3
    <2> DEFINE ask == IF on THEN [Change EXCEPT !.on = {i}] ELSE [Change EXCEPT !.off = {i}]
    <2>2. /\ ask \in Changes /\ ask.temp = NoChange
          /\ ask.on \subseteq {i} /\ ask.off \subseteq {i}
      BY DEF Changes, Change
    <2>3. /\ Asked(c, ask, ShownMode) /\ staged' = staged
          /\ Limits[ShownMode].probe /\ i \in Fitted
      BY <2>1 DEF SwitchProbe
    <2>4. KeepsLimits(ask, ShownMode)
      BY <2>2, <2>3 DEF KeepsLimits
    <2> HIDE DEF ask
    <2> QED BY <1>1, <2>2, <2>3, <2>4, AskedInv
  <1> QED BY <1>2, <1>3
-----------------------------------------------------------------------------
(* The changes that are carried out.                                       *)

\* Lemma: a change that is sent in the mode it was checked for is sent as it was accepted.
LEMMA SentAsAccepted ==
  ASSUME TypeOK, NEW ask \in Changes, NEW m \in Names, KeepsLimits(ask, m),
         NEW cook, cook.mode = m,
         \/ ask.start /\ Staged(ask).mode \in Modes /\ cook = StartOf(Staged(ask))
         \/ ~ask.start /\ cook = ReissueOf(ask, Staged(ask))
  PROVE  /\ ask.temp # NoChange => cook.temp = ask.temp
         /\ ask.smoke # NoChange /\ SmokeChosen(cook.mode) => cook.smoke = ask.smoke
         /\ ask.on \ ask.off \subseteq cook.probes /\ ask.off \cap cook.probes = {}
  <1>1. /\ ask.temp \in Nat \cup {NoChange} /\ ask.smoke \in BOOLEAN \cup {NoChange}
        /\ ask.on \subseteq {0, 1} /\ ask.off \subseteq {0, 1}
    BY DEF Changes
  <1>2. m \in Modes => Limits[m].low \in Nat /\ Limits[m].high \in Nat
    BY ModeLimits
  <1>3. CASE ask.start /\ Staged(ask).mode \in Modes /\ cook = StartOf(Staged(ask))
    <2> DEFINE s == Staged(ask)
    <2>1. /\ ask.temp # NoChange => s.temp = ask.temp
          /\ s.probes = (staged.probes \cup ask.on) \ ask.off
          /\ ask.smoke # NoChange /\ SmokeChosen(s.mode) => s.smoke = ask.smoke
      BY <1>1 DEF Staged, SmokeChosen
    <2> HIDE DEF s
    <2>2. s.mode = m /\ m \in Modes
      BY <1>3 DEF StartOf, s
    <2>3. /\ cook.temp = Clamp(s.temp, Limits[m])
          /\ cook.probes = IF Limits[m].probe THEN s.probes \cap Fitted ELSE {}
          /\ cook.smoke = Smoke(s.smoke, Limits[m]) /\ cook.mode = s.mode
      BY <1>3, <2>2 DEF StartOf, s
    <2>4. ask.temp # NoChange => cook.temp = ask.temp
      BY <1>1, <1>2, <2>1, <2>2, <2>3 DEF KeepsLimits, InLimits, Clamp
    <2>5. ask.on \ ask.off \subseteq cook.probes /\ ask.off \cap cook.probes = {}
      BY <2>1, <2>2, <2>3 DEF KeepsLimits
    <2>6. ask.smoke # NoChange /\ SmokeChosen(cook.mode) => cook.smoke = ask.smoke
      <3>1. SUFFICES ASSUME ask.smoke # NoChange, SmokeChosen(cook.mode) PROVE cook.smoke = ask.smoke
        OBVIOUS
      <3>2. s.smoke = ask.smoke /\ ask.smoke \in BOOLEAN /\ Limits[m].smoke /\ ~Limits[m].always
        BY <1>1, <2>1, <2>2, <2>3, <3>1 DEF SmokeChosen
      <3> QED BY <2>3, <3>2 DEF Smoke
    <2> QED BY <2>4, <2>5, <2>6
  <1>4. CASE ~ask.start /\ cook = ReissueOf(ask, Staged(ask))
    <2> DEFINE base == Base(Staged(ask))
               over == Overridden(ask, base)
    <2>1. Staged(ask) \in Cooks
      BY StagedType
    <2>2. base \in Cooks
      BY <2>1, BaseType
    <2>3. /\ ask.temp # NoChange => over.temp = ask.temp
          /\ ask.smoke # NoChange => over.smoke = ask.smoke
          /\ over.probes = (base.probes \cup ask.on) \ ask.off
          /\ over = [mode |-> over.mode, temp |-> over.temp, smoke |-> over.smoke,
                     probes |-> over.probes]
      BY DEF Overridden
    <2>4. cook = IF over.mode \notin Modes THEN over
                 ELSE [over EXCEPT
                         !.temp = IF InLimits(over.temp, over.mode) THEN over.temp
                                  ELSE Limits[over.mode].default,
                         !.smoke = Smoke(over.smoke, Limits[over.mode]),
                         !.probes = IF Limits[over.mode].probe THEN over.probes ELSE {}]
      BY <1>4 DEF ReissueOf
    <2> HIDE DEF over, base
    <2>5. over.mode = m
      BY <2>3, <2>4
    <2>6. CASE m \notin Modes
      BY <2>3, <2>4, <2>5, <2>6
    <2>7. CASE m \in Modes
      <3>1. /\ cook.temp = IF InLimits(over.temp, m) THEN over.temp ELSE Limits[m].default
            /\ cook.probes = IF Limits[m].probe THEN over.probes ELSE {}
            /\ cook.smoke = Smoke(over.smoke, Limits[m]) /\ cook.mode = m
        BY <2>3, <2>4, <2>5, <2>7
      <3>2. ask.temp # NoChange => cook.temp = ask.temp
        BY <2>3, <2>7, <3>1 DEF KeepsLimits
      <3>3. ask.on \ ask.off \subseteq cook.probes /\ ask.off \cap cook.probes = {}
        BY <2>3, <2>7, <3>1 DEF KeepsLimits
      <3>4. ASSUME ask.smoke # NoChange, SmokeChosen(cook.mode) PROVE cook.smoke = ask.smoke
        <4>1. over.smoke = ask.smoke /\ ask.smoke \in BOOLEAN /\ Limits[m].smoke /\ ~Limits[m].always
          BY <1>1, <2>3, <2>7, <3>1, <3>4 DEF SmokeChosen
        <4> QED BY <3>1, <4>1 DEF Smoke
      <3> QED BY <3>2, <3>3, <3>4
    <2> QED BY <2>6, <2>7
  <1> QED BY <1>3, <1>4

\* Lemma: carrying out a change keeps the invariant.
LEMMA RunInv ==
  ASSUME IInv, NEW c \in Callers, Run(c)
  PROVE  IInv'
  <1> DEFINE ask == waiting[c].ask
             s == Staged(ask)
             cook == IF ask.start THEN StartOf(s) ELSE ReissueOf(ask, s)
             sends == Sends(ask, s) /\ (ask.start \/ c \in Services \/ ~Nothing(ask))
  <1>1. /\ TypeOK /\ Checked
    BY DEF IInv
  <1>2. waiting[c] \in Waits
    BY <1>1 DEF Run, TypeOK
  <1>3. /\ ask \in Changes /\ waiting[c].checked \in Names
        /\ waiting[c] = [ask |-> ask, checked |-> waiting[c].checked]
    BY <1>2 DEF Waits
  <1>4. KeepsLimits(ask, waiting[c].checked)
    BY <1>1 DEF Run, Checked
  <1>5. /\ staged' = s
        /\ command' = IF sends THEN [change |-> waiting[c], cook |-> cook] ELSE NoCook
        /\ waiting' = [waiting EXCEPT ![c] = NoChange]
        /\ data' = data /\ pending' = pending
    BY DEF Run
  <1>6. s \in Cooks /\ (s.mode \in Modes /\ Limits[s.mode].always => s.smoke)
    BY <1>1, <1>3, StagedType
  <1>7. sends /\ ask.start => s.mode \in Modes
    BY DEF Sends
  <1>8. sends => cook \in Cooks /\ Within(cook)
    BY <1>1, <1>3, <1>6, <1>7, StartWithin, ReissueWithin
  <1>9. sends /\ cook.mode = waiting[c].checked =>
          /\ ask.temp # NoChange => cook.temp = ask.temp
          /\ ask.smoke # NoChange /\ SmokeChosen(cook.mode) => cook.smoke = ask.smoke
          /\ ask.on \ ask.off \subseteq cook.probes /\ ask.off \cap cook.probes = {}
    <2> SUFFICES ASSUME sends, cook.mode = waiting[c].checked
                 PROVE  /\ ask.temp # NoChange => cook.temp = ask.temp
                        /\ ask.smoke # NoChange /\ SmokeChosen(cook.mode)
                              => cook.smoke = ask.smoke
                        /\ ask.on \ ask.off \subseteq cook.probes
                        /\ ask.off \cap cook.probes = {}
      OBVIOUS
    <2>1. CASE ask.start
      <3>1. cook = StartOf(s) /\ s.mode \in Modes
        BY <1>7, <2>1
      <3> HIDE DEF cook, ask
      <3> QED BY <1>1, <1>3, <1>4, <2>1, <3>1, SentAsAccepted
    <2>2. CASE ~ask.start
      <3>1. cook = ReissueOf(ask, s)
        BY <2>2
      <3> HIDE DEF cook, ask
      <3> QED BY <1>1, <1>3, <1>4, <2>2, <3>1, SentAsAccepted
    <2> QED BY <2>1, <2>2
  <1> HIDE DEF sends, cook, s, ask
  <1>10. TypeOK'
    <2>1. waiting' \in [Callers -> Waits \cup {NoChange}]
      BY <1>1, <1>5 DEF TypeOK
    <2>2. command' \in [change : Waits, cook : Cooks] \cup {NoCook}
      BY <1>2, <1>5, <1>8
    <2> QED BY <1>1, <1>5, <1>6, <2>1, <2>2 DEF TypeOK
  <1>11. Checked'
    <2>1. \A d \in Callers : waiting'[d] # NoChange => waiting'[d] = waiting[d]
      BY <1>1, <1>5 DEF TypeOK
    <2> QED BY <1>1, <2>1 DEF Checked, KeepsLimits, InLimits
  <1>12. SentWithinLimits'
    BY <1>5, <1>8 DEF SentWithinLimits, Within, InLimits
  <1>13. AcceptedSent'
    BY <1>5, <1>9, <1>3 DEF AcceptedSent, SmokeChosen
  <1>14. SmokeStaged'
    BY <1>5, <1>6 DEF SmokeStaged
  <1> QED BY <1>10, <1>11, <1>12, <1>13, <1>14 DEF IInv

\* Lemma: so does its success, which stages what was re-sent.
LEMMA SucceedInv == IInv /\ Succeed => IInv'
  <1> SUFFICES ASSUME IInv, Succeed PROVE IInv'
    OBVIOUS
  <1>1. /\ TypeOK /\ command \in [change : Waits, cook : Cooks] /\ Within(command.cook)
    BY DEF IInv, TypeOK, SentWithinLimits, Succeed
  <1>2. /\ command.cook.mode \in Names /\ command.cook.temp \in Nat
        /\ command.cook.smoke \in BOOLEAN /\ command.cook.probes \in SUBSET {0, 1}
    BY <1>1 DEF Cooks
  <1>3. waiting' = waiting /\ command' = NoCook /\ pending' = command.cook
    BY DEF Succeed
  <1>4. CASE command.change.ask.start
    <2>1. /\ data' = [data EXCEPT !.phase = "cook", !.mode = command.cook.mode,
                        !.temp = IF command.cook.mode = LevelMode THEN command.cook.temp
                                 ELSE @]
          /\ staged' = staged
      BY <1>4 DEF Succeed
    <2>2. data' \in Views
      BY <1>1, <1>2, <2>1 DEF TypeOK, Views, Phases
    <2> QED BY <1>1, <1>3, <2>1, <2>2
            DEF IInv, TypeOK, Checked, KeepsLimits, InLimits, SentWithinLimits, AcceptedSent,
                SmokeStaged
  <1>5. CASE ~command.change.ask.start
    <2>1. staged' = [command.cook EXCEPT !.probes = staged.probes] /\ data' = data
      BY <1>5 DEF Succeed
    <2>2. staged.probes \in SUBSET {0, 1}
      BY <1>1 DEF TypeOK, Cooks
    <2>3. staged' = [mode |-> command.cook.mode, temp |-> command.cook.temp,
                     smoke |-> command.cook.smoke, probes |-> staged.probes]
      BY <1>1, <2>1 DEF Cooks
    <2>4. staged' \in Cooks
      BY <1>2, <2>2, <2>3 DEF Cooks
    <2>5. staged'.mode \in Modes /\ Limits[staged'.mode].always => staged'.smoke
      BY <1>1, <2>3 DEF Within, Smoke
    <2>6. TypeOK'
      BY <1>1, <1>3, <2>1, <2>4 DEF TypeOK
    <2>7. SmokeStaged'
      BY <2>5 DEF SmokeStaged
    <2> QED BY <1>3, <2>6, <2>7
            DEF IInv, Checked, KeepsLimits, InLimits, SentWithinLimits, AcceptedSent
  <1> QED BY <1>4, <1>5

\* Lemma: and a poll, a failure, or nothing.
LEMMA RestInv == IInv /\ (View \/ Fail \/ UNCHANGED vars) => IInv'
  <1>1. IInv /\ View => IInv'
    BY ReportsAssumption
    DEF View, IInv, TypeOK, Checked, KeepsLimits, InLimits, SentWithinLimits, Within,
        AcceptedSent, SmokeStaged
  <1>2. IInv /\ Fail => IInv'
    BY DEF Fail, IInv, TypeOK, Checked, KeepsLimits, InLimits, SentWithinLimits,
           AcceptedSent, SmokeStaged
  <1>3. IInv /\ UNCHANGED vars => IInv'
    BY DEF vars, IInv, TypeOK, Checked, KeepsLimits, InLimits, SentWithinLimits, Within,
           AcceptedSent, SmokeStaged
  <1> QED BY <1>1, <1>2, <1>3
-----------------------------------------------------------------------------
\* Theorem: the invariant holds of every behaviour.
THEOREM Invariance == Spec => []IInv
  <1>1. IInv /\ [Next]_vars => IInv'
    BY ServicesAsk, CardSets, CardSwitches, RunInv, SucceedInv, RestInv DEF Next
  <1> QED BY <1>1, InitInv, PTL DEF Spec

\* Theorem: every variable keeps its type.
THEOREM TypeCorrect == Spec => []TypeOK
  <1>1. IInv => TypeOK
    BY DEF IInv
  <1> QED BY <1>1, Invariance, PTL

\* Theorem: whatever is asked for, staged, pending and reported meanwhile, each cook that
\* is sent keeps to the limits of its mode (`_start_cook`, `_reissue`).
THEOREM LimitsKept == Spec => []SentWithinLimits
  <1>1. IInv => SentWithinLimits
    BY DEF IInv
  <1> QED BY <1>1, Invariance, PTL

\* Theorem: and the temperature, the probes and, where the mode leaves it to the user, the
\* smoke that were accepted are sent as they were asked for, if the mode is the one they
\* were checked for (`_validate`); in the other modes smoke is corrected (949, 1108, 1339).
THEOREM AcceptedIsSent == Spec => []AcceptedSent
  <1>1. IInv => AcceptedSent
    BY DEF IInv
  <1> QED BY <1>1, Invariance, PTL

\* Theorem: required smoke is staged once no change waits (`_stage`).
THEOREM SmokeIsStaged == Spec => []SmokeStaged
  <1>1. IInv => SmokeStaged
    BY DEF IInv
  <1> QED BY <1>1, Invariance, PTL
=============================================================================
