--------------------------- MODULE BackendChoice ----------------------------
(***************************************************************************)
(* Which backend the coordinator reads (coordinator.py): Bluetooth when it *)
(* is configured and answers, otherwise the cloud the grill is connected   *)
(* to, Ayla or AWS.  Polls may overlap: the scheduled refresh holds Home   *)
(* Assistant's refresh lock, async_refresh after a command does not.  An   *)
(* AuthError of any request becomes ConfigEntryAuthFailed, after which no  *)
(* refresh is scheduled: Home Assistant asks the user to sign in again,    *)
(* and until then only refreshes after commands read the grill.            *)
(*                                                                         *)
(* The grill is connected to at most one cloud, its `home`; each cloud     *)
(* knows of that with a delay.  Time passes in ticks of _BLE_RETRY_S.      *)
(***************************************************************************)
EXTENDS Integers

CONSTANTS
    Polls,              \* the refreshes that may be under way at once
    Bluetooth,          \* the entries looked at: a set of BOOLEAN, with Bluetooth or not
    BLE_RETRY, AWS_RETRY, AWS_RECHECK

ASSUME TimerAssumption ==
    /\ {BLE_RETRY, AWS_RETRY, AWS_RECHECK} \subseteq Nat \ {0}
    /\ BLE_RETRY < AWS_RECHECK /\ AWS_RETRY < AWS_RECHECK
ASSUME EntryAssumption == Bluetooth \subseteq BOOLEAN /\ Bluetooth # {}

VARIABLES
    hasBle,     \* self.ble is not None
    home,       \* the cloud the grill is connected to, or "none"
    radio,      \* the grill answers over Bluetooth
    status,     \* what each cloud says of the grill
    transport,  \* self.transport
    scheduled,  \* a refresh is scheduled (Home Assistant's coordinator)
    recheck,    \* ticks until _ble_recheck_at
    check,      \* ticks until _backend_check_at
    awsReached, awsFailed,
    poll,       \* per poll: what it waits for, of which backend, and whether the state it
                \* has is online
    shown       \* the state of the last poll that ended is online

world == <<hasBle, home, radio, status>>
timers == <<recheck, check>>
choice == <<transport, awsReached, awsFailed>>
vars == <<world, timers, choice, poll, shown, scheduled>>

Clouds == {"ayla", "aws"}
Ended == [at |-> "ended", of |-> "ayla", online |-> FALSE]

Init ==
    /\ hasBle \in Bluetooth
    /\ home \in Clouds \cup {"none"} /\ radio \in BOOLEAN
    \* A grill that was never on AWS has no connectivity record there.
    /\ status \in {[ayla |-> a, aws |-> w] :
                       a \in {"online", "offline"}, w \in {"online", "offline", "unknown"}}
    /\ transport = IF hasBle THEN "ble" ELSE "ayla"
    /\ recheck = 0 /\ check = 0
    /\ awsReached = FALSE /\ awsFailed = FALSE
    /\ poll = [p \in Polls |-> Ended]
    /\ shown = FALSE /\ scheduled = TRUE
-----------------------------------------------------------------------------
(* The grill and the clouds (external).                                    *)

Connects ==
    /\ home' \in (Clouds \cup {"none"}) \ {home}
    /\ UNCHANGED <<hasBle, radio, status, timers, choice, poll, shown, scheduled>>

RadioChanges ==
    /\ hasBle /\ radio' = ~radio
    /\ UNCHANGED <<hasBle, home, status, timers, choice, poll, shown, scheduled>>

\* A cloud learns whether the grill is connected to it.
Learns(b) ==
    LET news == IF home = b THEN "online"
                ELSE IF status[b] = "unknown" THEN "unknown" ELSE "offline"
    IN  /\ status[b] # news /\ status' = [status EXCEPT ![b] = news]
        /\ UNCHANGED <<hasBle, home, radio, timers, choice, poll, shown, scheduled>>

\* Mutant: the timers run past zero.
SoonerUnbounded(left) == left - 1

Sooner(left) == IF left = 0 THEN 0 ELSE left - 1

Tick ==
    /\ recheck' = Sooner(recheck) /\ check' = Sooner(check)
    /\ UNCHANGED <<world, choice, poll, shown, scheduled>>
-----------------------------------------------------------------------------
(* A poll.                                                                 *)

\* Whether a record reads as online: a cloud that does not know counts as online.
ReadsOnline(b) == b = "ble" \/ status[b] # "offline"

\* Mutant: once AWS has answered, it is not asked again.
ShouldSwitchOnce(online) == check = 0 /\ transport = "ayla" /\ ~awsReached

\* `_should_switch`, on a poll that Bluetooth does not serve.
ShouldSwitch(online) ==
    /\ check = 0
    /\ ~online \/ (transport = "ayla" /\ ~awsReached)

At(p, steps) == poll[p].at \in steps
Goes(p, to, b, online) ==
    poll' = [poll EXCEPT ![p] = [at |-> to, of |-> b, online |-> online]]
\* A refresh ends, and the next one is scheduled unless it ended with an AuthError.
Ends(p) == poll' = [poll EXCEPT ![p] = Ended] /\ scheduled' = TRUE
Shows(p, online) == Ends(p) /\ shown' = online

\* Mutant: Bluetooth is not tried again.
PollStartWhereItWas(p) ==
    /\ At(p, {"ended"}) /\ Goes(p, "reading", transport, FALSE)
    /\ scheduled' = FALSE
    /\ UNCHANGED <<world, timers, choice, shown>>

\* A refresh, scheduled or after a command, takes the place of the scheduled one.
\* Bluetooth is tried again when its time has come.
PollStart(p) ==
    /\ At(p, {"ended"})
    /\ transport' = IF hasBle /\ recheck = 0 THEN "ble" ELSE transport
    /\ Goes(p, "reading", transport', FALSE)
    /\ scheduled' = FALSE
    /\ UNCHANGED <<world, timers, awsReached, awsFailed, shown>>

\* The backend answers; the poll goes on to the other cloud if it has to look there.
\* What counts is the transport of this moment, which another poll may have changed.
\* `_try_ayla` sets the next check before it asks.
Answered(p) ==
    /\ At(p, {"reading", "fallback"})
    /\ poll[p].of = "ble" => radio
    /\ LET online == ReadsOnline(poll[p].of)
       IN  IF transport # "ble" /\ ShouldSwitch(online)
           THEN /\ IF transport = "aws" THEN Goes(p, "try", "ayla", online)
                                       ELSE Goes(p, "try", "aws", online)
                /\ check' = IF transport = "aws" THEN AWS_RECHECK ELSE check
                /\ UNCHANGED <<shown, scheduled>>
           ELSE Shows(p, online) /\ UNCHANGED check
    /\ UNCHANGED <<world, recheck, choice>>

\* The backend fails. If Bluetooth serves, the poll goes on at Ayla and Bluetooth rests.
FallsBack(p) ==
    /\ At(p, {"reading"}) /\ transport = "ble"
    /\ recheck' = BLE_RETRY
    /\ transport' = "ayla"
    /\ Goes(p, "fallback", "ayla", FALSE)
    /\ UNCHANGED <<world, check, awsReached, awsFailed, shown, scheduled>>

\* Otherwise, or if Ayla fails as well, the poll fails and shows nothing new.
Fails(p) ==
    /\ At(p, {"fallback"}) \/ (At(p, {"reading"}) /\ transport # "ble")
    /\ Ends(p)
    /\ UNCHANGED <<world, timers, choice, shown>>

\* A cloud, read or tried, does not accept the session: the poll fails, whatever it has
\* read already, and nothing is scheduled. A look-up on AWS is not put off by it.
Unauthorized(p) ==
    /\ At(p, {"reading", "fallback", "try"}) /\ poll[p].of # "ble"
    /\ poll' = [poll EXCEPT ![p] = Ended]
    /\ UNCHANGED <<world, timers, choice, shown, scheduled>>

Tries(p, b) == At(p, {"try"}) /\ poll[p].of = b

\* Mutant: `_try_aws` switches to any record AWS has of the grill.
AwsAnswersAny(p) ==
    /\ Tries(p, "aws")
    /\ awsReached' = TRUE /\ check' = AWS_RECHECK
    /\ transport' = "aws" /\ Shows(p, ReadsOnline("aws"))
    /\ UNCHANGED <<world, recheck, awsFailed>>

\* `_try_aws`: only a grill that AWS says is connected moves there.
AwsAnswers(p) ==
    /\ Tries(p, "aws")
    /\ awsReached' = TRUE /\ check' = AWS_RECHECK
    /\ IF status.aws = "online" THEN transport' = "aws" /\ Shows(p, TRUE)
                                ELSE Shows(p, poll[p].online) /\ UNCHANGED transport
    /\ UNCHANGED <<world, recheck, awsFailed>>

\* The first failure is retried soon.
AwsFails(p) ==
    /\ Tries(p, "aws")
    /\ check' = IF awsFailed THEN AWS_RECHECK ELSE AWS_RETRY
    /\ awsFailed' = TRUE
    /\ Shows(p, poll[p].online)
    /\ UNCHANGED <<world, recheck, transport, awsReached>>

\* `_try_ayla`: only a grill that Ayla says is online moves back.
AylaAnswers(p) ==
    /\ Tries(p, "ayla")
    /\ IF status.ayla = "online" THEN transport' = "ayla" /\ Shows(p, TRUE)
                                 ELSE Shows(p, poll[p].online) /\ UNCHANGED transport
    /\ UNCHANGED <<world, timers, awsReached, awsFailed>>

AylaFails(p) ==
    /\ Tries(p, "ayla")
    /\ Shows(p, poll[p].online)
    /\ UNCHANGED <<world, timers, choice>>
-----------------------------------------------------------------------------
World == Connects \/ RadioChanges \/ (\E b \in Clouds : Learns(b)) \/ Tick

ReadEnds(p) == Answered(p) \/ FallsBack(p) \/ Fails(p)
TryEnds(p) == AwsAnswers(p) \/ AwsFails(p) \/ AylaAnswers(p) \/ AylaFails(p)
RequestEnds(p) == ReadEnds(p) \/ TryEnds(p) \/ Unauthorized(p)

Next == World \/ \E p \in Polls : PollStart(p) \/ RequestEnds(p)

Spec == Init /\ [][Next]_vars

\* A refresh that is scheduled is made and every request ends; clouds learn of the grill;
\* and of infinitely many requests to a cloud some are answered.
Fairness ==
    /\ WF_vars(Tick) /\ \A b \in Clouds : WF_vars(Learns(b))
    /\ WF_vars(scheduled /\ \E p \in Polls : PollStart(p))
    /\ \A p \in Polls :
          /\ WF_vars(RequestEnds(p))
          /\ SF_vars(Answered(p) /\ poll[p].of # "ble")
          /\ SF_vars(AwsAnswers(p)) /\ SF_vars(AylaAnswers(p))

FairSpec == Spec /\ Fairness
-----------------------------------------------------------------------------
TypeOK ==
    /\ hasBle \in Bluetooth /\ home \in Clouds \cup {"none"} /\ radio \in BOOLEAN
    /\ status \in [Clouds -> {"online", "offline", "unknown"}]
    /\ transport \in Clouds \cup (IF hasBle THEN {"ble"} ELSE {})
    /\ recheck \in 0..BLE_RETRY /\ check \in 0..AWS_RECHECK
    /\ {awsReached, awsFailed, shown, scheduled} \subseteq BOOLEAN
    /\ poll \in [Polls -> [at : {"ended", "reading", "fallback", "try"},
                           of : Clouds \cup {"ble"}, online : BOOLEAN]]

\* The grill goes on being read: Home Assistant has a refresh scheduled again and again.
\* It has, but for an AuthError that no command and no new sign-in comes after.
Refreshed == []<>scheduled

\* Having fallen back to a cloud, the coordinator returns to Bluetooth however the
\* cloud polls end and the backends change, as long as an AuthError of the cloud does
\* not end the polls themselves (coordinator.py:236-240, 274-275).
BluetoothRetried == hasBle /\ Refreshed => []<>(transport = "ble")

\* Without Bluetooth the transport comes to rest on the cloud the grill stays
\* connected to, whichever it was on and whatever failed or lagged on the way: the two
\* lookups never send it back and forth (coordinator.py:136-137, 509-545).
Settles ==
    ~hasBle /\ Refreshed => \A b \in Clouds : <>[](home = b) => <>[](transport = b)

\* A grill that stays connected to one cloud is shown online again and again, also when
\* Bluetooth is configured and dead; there, as long as polls do not overlap: the retry of
\* one poll and the fallback of another could starve each other.
Alone == \A p, q \in Polls : p # q => "ended" \in {poll[p].at, poll[q].at}
NeverLost ==
    Refreshed => \A b \in Clouds : <>[](home = b /\ (hasBle => Alone)) => []<>shown
=============================================================================
