----------------------------- MODULE CookLimits ------------------------------
(***************************************************************************)
(* Which cooks the integration may send: the limits of the grill's modes   *)
(* (capabilities.py) are checked when a change is asked for, which is      *)
(* before it waits for the command lock, and kept again when the command   *)
(* is built, from settings that other changes may have staged meanwhile,   *)
(* from the cook that is pending or from what a poll shows.                *)
(*                                                                         *)
(* A setting that a change leaves alone is NoChange.  The duration and how *)
(* a mode's longest duration shortens it belong to CookSettings, as do the *)
(* probes' targets; that _validate checks them too, and that a start is    *)
(* clamped to the durations of its mode, is left out.  Skipping the        *)
(* preheat has no limits.  Stop, which ends what is pending, is a View.    *)
(***************************************************************************)
EXTENDS Integers

CONSTANTS
    NoChange, NoCook,
    Limits,         \* the modes of this grill and their ModeCapability
    Others,         \* modes that it may run but this grill has no limits for
    LevelMode,      \* the mode whose temperature is a heat level
    DefaultMode,    \* the first of capabilities.modes
    Fitted,         \* the probes it has
    Reports,        \* the cooks that a poll may show
    Services, Cards,    \* where changes come from, one at a time each
    Asks            \* what the service call may carry

Modes == DOMAIN Limits
Names == Modes \cup Others
Temps == UNION {l.low..l.high : l \in {Limits[m] : m \in Modes}}
Callers == Services \cup Cards

ASSUME ModesAssumption == DefaultMode \in Modes /\ Modes \cap Others = {}
ASSUME LimitsAssumption ==
    \A m \in Modes :
        /\ Limits[m] \in [low : Nat, high : Nat, default : Nat, smoke : BOOLEAN,
                          withSmoke : BOOLEAN, always : BOOLEAN, probe : BOOLEAN]
        /\ Limits[m].default \in Limits[m].low..Limits[m].high
        /\ Limits[m].always => Limits[m].withSmoke
ASSUME FittedAssumption == Fitted \in {{0}, {0, 1}}
\* The grill itself keeps to its limits, and reports no probe that it has not.
Phases == {"offline", "idle", "cook", "rest"}
Views == [phase : Phases, mode : Names, temp : Nat, smoke : BOOLEAN, probes : SUBSET {0, 1}]
ASSUME ReportsAssumption == Reports \subseteq {v \in Views : v.probes \subseteq Fitted}

\* A change: the settings it names, the probes it switches on and off, and whether it
\* starts the cook.
Changes == [start : BOOLEAN, mode : Names \cup {NoChange}, temp : Nat \cup {NoChange},
            smoke : BOOLEAN \cup {NoChange}, on : SUBSET {0, 1}, off : SUBSET {0, 1}]
Waits == [ask : Changes, checked : Names]
ASSUME AsksAssumption == Asks \subseteq Changes /\ NoChange \notin Waits

VARIABLES
    data,       \* self.data: phase, mode, temp (0: none reported), smoke, probes
    pending,    \* the cook sent last, within its grace, or NoCook
    staged,     \* cook_setting_*
    waiting,    \* for each caller its change that waits for the lock, or NoChange
    command     \* the cook being sent inside the lock, or NoCook

vars == <<data, pending, staged, waiting, command>>

Init ==
    /\ data = [phase |-> "idle", mode |-> DefaultMode, temp |-> 0, smoke |-> FALSE,
               probes |-> {}]
    /\ pending = NoCook /\ command = NoCook
    /\ staged = [mode |-> DefaultMode, temp |-> Limits[DefaultMode].default,
                 smoke |-> Limits[DefaultMode].withSmoke, probes |-> {}]
    /\ waiting = [c \in Callers |-> NoChange]
-----------------------------------------------------------------------------
(* What is taken to be running.                                            *)

Active == data.phase \in {"cook", "rest"}

\* live_or_staged_mode, _temp, _smoke and the probes that are switched on.
ShownMode == IF Active THEN data.mode ELSE staged.mode
LiveTemp == IF pending # NoCook THEN pending.temp
            ELSE IF data.temp # 0 THEN data.temp ELSE staged.temp
ShownTemp == IF Active THEN LiveTemp ELSE staged.temp
LiveSmoke == IF pending # NoCook THEN pending.smoke ELSE data.smoke
ShownSmoke == IF Active THEN LiveSmoke ELSE staged.smoke
LiveProbes == IF pending # NoCook THEN pending.probes ELSE data.probes

InLimits(t, m) == t \in Limits[m].low..Limits[m].high

\* A poll: the grill (external) may run any cook, started on it or by the app, and what
\* is pending lasts for its grace at most.
View ==
    /\ data' \in Reports
    /\ pending' \in {pending, NoCook}
    /\ UNCHANGED <<staged, waiting, command>>
-----------------------------------------------------------------------------
(* Asking for a change.                                                    *)

Change == [start |-> FALSE, mode |-> NoChange, temp |-> NoChange, smoke |-> NoChange,
           on |-> {}, off |-> {}]

\* The change waits; it has been checked for the mode `m`.
Asked(c, change, m) ==
    /\ waiting[c] = NoChange
    /\ waiting' = [waiting EXCEPT ![c] = [ask |-> change, checked |-> m]]
    /\ UNCHANGED <<data, pending, command>>

\* Mutant: any temperature that the schema lets pass is accepted.
ValidAnyTemp(ask, m) ==
    /\ m \in Modes \/ ask.mode = NoChange
    /\ m \in Modes => /\ ask.on \cup ask.off \subseteq Fitted
                      /\ Limits[m].probe \/ ask.on = {}

\* `_validate`; in a mode without limits nothing is checked, not even the probe's number.
Valid(ask, m) ==
    /\ m \in Modes \/ ask.mode = NoChange
    /\ m \in Modes => /\ ask.temp = NoChange \/ InLimits(ask.temp, m)
                      /\ ask.on \cup ask.off \subseteq Fitted
                      /\ Limits[m].probe \/ ask.on = {}

\* The service, and the button that starts what is staged.
Configure(c, ask) ==
    LET m == IF ask.mode = NoChange THEN ShownMode ELSE ask.mode
    IN  Valid(ask, m) /\ Asked(c, ask, m) /\ UNCHANGED staged

PressStart(c) ==
    Asked(c, [Change EXCEPT !.start = TRUE], ShownMode) /\ UNCHANGED staged

\* The card's number offers the range of the mode shown, if it has one.
SetTemp(c, t) ==
    /\ ShownMode \in Modes => InLimits(t, ShownMode)
    /\ Asked(c, [Change EXCEPT !.temp = t], ShownMode) /\ UNCHANGED staged

\* The card's select snaps temperature and smoke to the new mode, and stages what it
\* snapped before it waits.
SelectMode(c, m) ==
    LET temp == IF InLimits(ShownTemp, m) THEN NoChange ELSE Limits[m].default
        smoke == IF ~Limits[m].smoke /\ ShownSmoke THEN FALSE
                 ELSE IF Limits[m].withSmoke /\ ~ShownSmoke THEN TRUE ELSE NoChange
    IN  /\ Asked(c, [Change EXCEPT !.mode = m, !.temp = temp, !.smoke = smoke], m)
        /\ staged' = [staged EXCEPT !.temp = IF temp = NoChange THEN @ ELSE temp,
                                    !.smoke = IF smoke = NoChange THEN @ ELSE smoke]

\* The card's switches, available where the mode shown supports them.
SwitchSmoke(c, on) ==
    /\ ShownMode \in Modes /\ Limits[ShownMode].smoke
    /\ Asked(c, [Change EXCEPT !.smoke = on], ShownMode)
    /\ staged' = [staged EXCEPT !.smoke = on]

SwitchProbe(c, i, on) ==
    /\ ShownMode \in Modes /\ Limits[ShownMode].probe /\ i \in Fitted
    /\ Asked(c, IF on THEN [Change EXCEPT !.on = {i}] ELSE [Change EXCEPT !.off = {i}],
             ShownMode)
    /\ UNCHANGED staged
-----------------------------------------------------------------------------
(* Carrying it out inside the lock.                                        *)

\* Mutant: smoke is staged as it was asked for, also where the mode requires it.
StagedAsAsked(ask) ==
    [mode |-> IF ask.mode = NoChange THEN staged.mode ELSE ask.mode,
     temp |-> IF ask.temp = NoChange THEN staged.temp ELSE ask.temp,
     smoke |-> IF ask.smoke = NoChange THEN staged.smoke ELSE ask.smoke,
     probes |-> (staged.probes \cup ask.on) \ ask.off]

\* `_stage`: a mode that requires smoke keeps it on.
Staged(ask) ==
    LET mode == IF ask.mode = NoChange THEN staged.mode ELSE ask.mode
    IN  [mode |-> mode,
         temp |-> IF ask.temp = NoChange THEN staged.temp ELSE ask.temp,
         smoke |-> \/ (IF ask.smoke = NoChange THEN staged.smoke ELSE ask.smoke)
                   \/ mode \in Modes /\ Limits[mode].always,
         probes |-> (staged.probes \cup ask.on) \ ask.off]

Clamp(n, l) == IF n < l.low THEN l.low ELSE IF n > l.high THEN l.high ELSE n

Smoke(on, l) == l.always \/ (on /\ l.smoke)

\* `_start_cook`: what is staged, brought into the limits of its mode.
StartOf(s) ==
    LET l == Limits[s.mode]
    IN  [mode |-> s.mode, temp |-> Clamp(s.temp, l), smoke |-> Smoke(s.smoke, l),
         probes |-> IF l.probe THEN s.probes \cap Fitted ELSE {}]

\* `_cook_base`
Base(s) ==
    IF pending # NoCook THEN pending
    ELSE [mode |-> data.mode, temp |-> IF data.temp # 0 THEN data.temp ELSE s.temp,
          smoke |-> data.smoke, probes |-> data.probes]

\* The running cook with what the change names.
Overridden(ask, base) ==
    [mode |-> IF ask.mode = NoChange THEN base.mode ELSE ask.mode,
     temp |-> IF ask.temp = NoChange THEN base.temp ELSE ask.temp,
     smoke |-> IF ask.smoke = NoChange THEN base.smoke ELSE ask.smoke,
     probes |-> (base.probes \cup ask.on) \ ask.off]

\* Mutant: the limits are those of the mode that was running.
ReissueInOldLimits(ask, s) ==
    LET cook == Overridden(ask, Base(s))
        m == Base(s).mode
    IN  IF m \notin Modes THEN cook
        ELSE [cook EXCEPT !.temp = IF InLimits(@, m) THEN @ ELSE Limits[m].default,
                          !.smoke = Smoke(@, Limits[m]),
                          !.probes = IF Limits[m].probe THEN @ ELSE {}]

\* `_reissue`: a temperature outside the limits of its mode becomes the default.
ReissueOf(ask, s) ==
    LET cook == Overridden(ask, Base(s))
        m == cook.mode
    IN  IF m \notin Modes THEN cook
        ELSE [cook EXCEPT !.temp = IF InLimits(@, m) THEN @ ELSE Limits[m].default,
                          !.smoke = Smoke(@, Limits[m]),
                          !.probes = IF Limits[m].probe THEN @ ELSE {}]

\* async_set_probe does not send what the probe is known to be set to.
Nothing(ask) ==
    /\ ask.on \cup ask.off # {}
    /\ ask.on \subseteq LiveProbes /\ ask.off \cap LiveProbes = {}

\* A start needs an online grill and a mode it has; a change of a cook that rests is
\* refused, and without a cook it is only staged.
Sends(ask, s) ==
    IF ask.start THEN data.phase # "offline" /\ s.mode \in Modes
                 ELSE data.phase = "cook"

\* The lock is free: the change is staged and, where there is something to send, sent.
Run(c) ==
    /\ command = NoCook /\ waiting[c] # NoChange
    /\ LET ask == waiting[c].ask
           s == Staged(ask)
       IN  /\ staged' = s
           /\ command' = IF Sends(ask, s) /\ (ask.start \/ c \in Services \/ ~Nothing(ask))
                         THEN [change |-> waiting[c],
                               cook |-> IF ask.start THEN StartOf(s) ELSE ReissueOf(ask, s)]
                         ELSE NoCook
    /\ waiting' = [waiting EXCEPT ![c] = NoChange]
    /\ UNCHANGED <<data, pending>>

\* The cook is remembered.  A start is shown at once, a re-issue is staged.
Succeed ==
    /\ command # NoCook
    /\ pending' = command.cook /\ command' = NoCook
    /\ IF command.change.ask.start
       THEN /\ data' = [data EXCEPT !.phase = "cook", !.mode = command.cook.mode,
                            !.temp = IF command.cook.mode = LevelMode THEN command.cook.temp
                                     ELSE @]
            /\ UNCHANGED staged
       ELSE /\ staged' = [command.cook EXCEPT !.probes = staged.probes]
            /\ UNCHANGED data
    /\ UNCHANGED waiting

\* A Stop cancels it, or the backend fails: nothing is remembered.
Fail ==
    /\ command # NoCook /\ command' = NoCook
    /\ UNCHANGED <<data, pending, staged, waiting>>

Next ==
    \/ View \/ Succeed \/ Fail
    \/ \E c \in Callers : Run(c)
    \/ \E c \in Services : PressStart(c) \/ \E ask \in Asks : Configure(c, ask)
    \/ \E c \in Cards : \/ \E t \in Temps : SetTemp(c, t)
                        \/ \E m \in Modes : SelectMode(c, m)
                        \/ \E on \in BOOLEAN : SwitchSmoke(c, on)
                        \/ \E i \in {0, 1}, on \in BOOLEAN : SwitchProbe(c, i, on)

Spec == Init /\ [][Next]_vars
-----------------------------------------------------------------------------
Cooks == [mode : Names, temp : Nat, smoke : BOOLEAN, probes : SUBSET {0, 1}]

TypeOK ==
    /\ data \in Views
    /\ pending \in Cooks \cup {NoCook} /\ staged \in Cooks
    /\ command \in [change : Waits, cook : Cooks] \cup {NoCook}
    /\ waiting \in [Callers -> Waits \cup {NoChange}]

Within(cook) ==
    cook.mode \in Modes =>
        LET l == Limits[cook.mode]
        IN  /\ InLimits(cook.temp, cook.mode)
            /\ cook.smoke = Smoke(cook.smoke, l)
            /\ cook.probes # {} => l.probe

\* Whatever is staged, pending, shown and asked for meanwhile, a cook that is sent keeps
\* to the limits of its mode (coordinator.py:1089-1108, 1335-1342; "this command drives a
\* heating element", ble_proto.py:139-140).
SentWithinLimits == command # NoCook => Within(command.cook)

\* Whether a mode leaves smoke to the user; a mode without limits does.
SmokeChosen(m) == m \in Modes => Limits[m].smoke /\ ~Limits[m].always

\* The temperature and the probes that a change was accepted with are what is sent, not a
\* correction of them, if the cook is sent in the mode it was checked for
\* (coordinator.py:1023-1028). So is its smoke where the mode leaves it to the user: in
\* every other mode smoke is corrected in silence (942-949, 1108, 1339), against the
\* docstring at 1025-1028, as _validate is not given it.
AcceptedSent ==
    (command # NoCook /\ command.cook.mode = command.change.checked) =>
        LET ask == command.change.ask
        IN  /\ ask.temp # NoChange => command.cook.temp = ask.temp
            /\ ask.smoke # NoChange /\ SmokeChosen(command.cook.mode)
                   => command.cook.smoke = ask.smoke
            /\ ask.on \ ask.off \subseteq command.cook.probes
            /\ ask.off \cap command.cook.probes = {}

\* Once no change waits, a staged mode that requires smoke has it staged, so that the
\* card's switch agrees with what Start would send (coordinator.py:942-946).
SmokeStaged ==
    (\A c \in Callers : waiting[c] = NoChange) =>
        (staged.mode \in Modes /\ Limits[staged.mode].always => staged.smoke)
=============================================================================
