# Specifications of the Ninja Woodfire integration

TLA+ modules that model the stateful parts of the Home Assistant integration in
`src/custom_components/ninja_woodfire/`, the TLC configurations that check them on small
instances, and proofs that TLAPS checks for every value of the constants. Line numbers are
those of the repository's files; `coordinator.py`, `aws.py`, `ble.py` and so on are
`custom_components/ninja_woodfire/coordinator.py` and the files of its `_lib/api/`.

## The system

One grill is one config entry: a coordinator, the transports that were configured (Bluetooth,
the Ayla cloud, the AWS cloud) and the entities that project the coordinator's view. All of it
runs on one event loop: code is atomic between two awaits, and every await is a point where
another task may run. The concurrency is between service calls, the poll, the Bluetooth
callback that delivers beacons, and the tasks that the coordinator starts itself.

| Component | State it keeps | Operations | What makes it correct |
|---|---|---|---|
| Command layer (`coordinator.py:896-917`) | `_cmd_lock` and its waiters, `_cmd_task` | `_exclusive`, `_command` | one command at a time, in the order of the calls; a Stop wins over every command made before it; a Stop is served |
| Command bodies (`coordinator.py:919-1410`) | `_pending`, `_issued_at`, `_stop_issued_at`, `_new_cook`, `_auto_skip_pending`, `_start_verify_task`, `_likely_asleep` | start, stop, wake, modify, set probe, skip, configure | guards are looked at inside the lock; Wake never ends a fresh cook; no skip gets past a fresh Stop |
| Settings of a running cook (`coordinator.py:464-482, 547-592, 739-895, 1299-1356`) | `_pending`, `_issued_at`, `_seconds_override`, `_local_cook_end` | `_cook_base`, `_reissue`, `_remember_issue`, `_normalize`, `_reconcile_pending` | a change does not revert another; the total duration survives |
| Limits and staged settings (`coordinator.py:919-1130`, `capabilities.py`, `number.py`, `select.py`, `switch.py`, `button.py`) | `cook_setting_*` | `_validate`, `_stage`, `_start_cook`, `_reissue`, the card's writes | every cook sent is within the limits of its mode, and is what was accepted where the code does not correct it |
| Poll (`coordinator.py:235-330`) | `data`, `transport`, `_ble_recheck_at`, `_last_contact_m` | read, fall back, switch backend, apply | the local link is retried; the view follows the grill; a glitch does not flap it |
| Beacon (`coordinator.py:334-495`, `ble_beacon.py`) | `beacon_*`, `_beacon_at`, `_cook_seen` | `update_beacon`, `_merge_beacon` | stale beacons do not undo a Stop; prompts reach the view |
| Lifecycle events (`coordinator.py:602-709`) | `_prev_grill_state`, `_prev_prompt`, milestone flags | `_emit_lifecycle_events`, `_seed_cook_flags` | each milestone once per cook, also across restarts, gaps and overlapping polls |
| Backend choice (`coordinator.py:504-545`) | `_backend_check_at`, `transport` | `_should_switch`, `_try_aws`, `_try_ayla` | ends up on the backend that reports the grill |
| AWS client (`aws.py`) | ids, the shadow (in the cloud) | `_start` with acknowledgement and withdrawal, `stop_cook` | no start is left to fire later; an acknowledgement is not somebody else's |
| BLE transport (`ble.py`, `ble_link.py`) | `_lock`, session token, frame queue, client | handshake, read, send, close | one user of the link; it is released; no frames or token of another session |
| Ayla client, Auth0 session (`ayla.py`, `auth0.py`) | tokens, two locks, device cache | login, refresh, requests | one renewal serves all; a fresh token is not thrown away; a revoked one costs no answer |
| Codecs (`ble_proto.py`, `ble_beacon.py`, `commands.py`), models | none | pure | what is encoded is what is decoded |
| Sensors, setup, config flow | none of their own | projections, forms | |
| Extraction scripts, blueprints | none | offline | |

How they interact. A service call or a card's entity runs a command body inside the command
lock; the body calls the transport and waits for it. A Stop cancels the task inside the lock,
which over Bluetooth drops the link and over AWS waits for the withdrawal of the start. The poll
shares `transport`, `data` and, over Bluetooth, the radio lock with the commands, but not the
command lock. A beacon is merged by a callback into `data` itself, so that a poll that could not
reach the grill, which returns `data`, is merged into the same object again. The lifecycle looks
at every state that is shown and clears `_cook_seen`, which the beacon merge and the start check
read. Both clouds use one Auth0 session; the Ayla client holds its own lock while it waits for
that session's lock.

What is hard here. Orders of tasks nobody wrote a test for (a Stop among queued commands, a
Wake behind a Start, an auto-skip behind a Stop); values read before an await and used after it
(`transport`, `backend`, `data`, a mode that a change was validated for); three clocks that
overlap (25 s start check, 30 s graces, 60 s beacon and contact); requests that fail after the
server carried them out; cancellation that arrives while a cancellation is being handled; a view
that is partly guessed and is then used as evidence, also for what is announced; refreshes that
overlap, so that an older reading is shown after a newer one; tokens that expire under several
requests.
`PROJECT.json` lists the hazards one by one, each at its line.

## Modules

| Module | Models | Lines of the code |
|---|---|---|
| `GrillControl` | the abstract promise of the command layer: once a Stop has returned, nothing older than it is cooked | `coordinator.py:896-902, 1168-1175` |
| `ExclusiveLock` | the lock's part of an action: `asyncio.Lock` with its FIFO of waiters, `_cmd_task`, the pending cancellation | `coordinator.py:177-179, 896-910` |
| `CommandLock` | calls that start, stop and wake over that lock; implements `GrillControl` | `coordinator.py:896-917, 1168-1207` |
| `AwsStart` | `_start`, `_acknowledged`, `_withdraw`, `_withdraw_cancelled`, `stop_cook` over a device shadow and a grill that may be offline | `aws.py:94-200, 278-444` |
| `WoodfireStates` | the classes of cook phases | `_lib/const.py:122-135`, `coordinator.py:63-90` |
| `Coordinator` | command bodies, polls with fallback, beacon merge, start check, auto-skip and the view they share; the commands go through `ExclusiveLock` | `coordinator.py:160-366, 374-453, 896-1232, 1299-1366`, `ble_beacon.py:50-53, 138-154`, `ble.py:243-282` |
| `CoordinatorHistory` | for whom the grill cooks, followed as history over every step of `Coordinator`, which is thereby shown to implement `GrillControl` too | `coordinator.py:896-902` |
| `CookSettings` | changes of a running cook while the view lags or is estimated: what a re-issue is built on, the elapsed time, what is staged, what entities show | `coordinator.py:97-108, 464-498, 560-592, 749-814, 840-894, 919-949, 1241-1358` |
| `CookLimits` | what is staged by a service and a card, checked before the lock and sent inside it | `coordinator.py:153-162, 717-822, 912-1119, 1317-1366`, `capabilities.py`, `number.py`, `select.py`, `switch.py`, `button.py`, `__init__.py:206-235` |
| `Lifecycle` | the events of a cook that is only seen through polls, which overlap, or over Bluetooth through beacons and their absence, with restarts, gaps and the estimate of the timer | `coordinator.py:180-184, 278-366, 376-498, 594-709, 1109-1145`, `_lib/models.py:296-310` |
| `BackendChoice` | which backend overlapping polls read, and when polls are scheduled no more | `coordinator.py:136-148, 235-303, 509-545`, `ayla.py:194-215` |
| `Sessions` | the Auth0 and Ayla tokens under concurrent requests, their two locks and second attempts | `auth0.py:81-249`, `ayla.py:56-146`, `aws.py:215-227`, `http.py:13-23` |
| `BleSession` | polls and commands on one Bluetooth link, with drops, retries, cancellation and unload | `ble.py:46-219`, `ble_link.py:34-84`, `__init__.py:320-332` |
| `*_proof` | the proofs about `CommandLock`, `AwsStart`, `CookLimits`, `Lifecycle`, `CookSettings`, `Sessions`, `BleSession` and `Coordinator` with `CoordinatorHistory` | |
| `MC*` | sets, bounds and symmetry for TLC | |

`ExclusiveLock` is extended by both `CommandLock` (all calls, no data) and `Coordinator` (few
calls, all data), so the lock that is proved correct is the lock that the coordinator uses; both
are shown to implement `GrillControl`, the second with its skips, polls and beacons.
`WoodfireStates` is extended by `Coordinator` and `Lifecycle`. The others meet at stated
interfaces: `CommandLock` assumes that a transport does not act on a command once its caller has
left, which `AwsStart` (`StopIsFinal`, `WithdrawalKeepsLock`) and `BleSession` (`WhileInside`)
show of the two transports; `CookSettings` and `CookLimits` assume one command at a time, which
is `CommandLock`'s; a request in `AwsStart` is a call of `Sessions`.

### How state and actions correspond

*Command lock.* `owner` is the holder of `_cmd_lock`, `waiters` the futures of `asyncio.Lock`,
`cmdTask` is `_cmd_task`, `doomed` a `Task.cancel()` that has not been delivered. `asyncio.Lock`
is external: acquiring does not wait if the lock is free and nobody waits, the first waiter is
woken on release, and a newcomer cannot overtake it. A call is atomic up to its await on the
transport: `Call` or `Resume` takes it to "sent", `Act` is the grill acting on the command (or
taking it), `Succeed`, `Fail` and `Cancelled` resume the caller.

*AWS.* `desired` and `fresh` are the shadow's command and whether the grill has yet to take it;
`reported` is what the grill echoes. `pc` is the await `_start` is suspended in and `reply` the
PATCH it waits for: a request may fail before or after the server carried it out, so each has
the steps "going", "applied" and the caller's own reaction. A request that has failed at the
caller is not carried out later. Telemetry is abstracted to whether a cook runs and its phase,
with all modelled cooks equal in mode, temperature and time: the hardest case for
`_telemetry_confirms`. Resolving ids and renewing tokens inside one request are not told apart
from that request.

*Coordinator.* `grill` is the step the grill is in, `adv` what it advertises (at most one tick
behind) and `reported` what the cloud knows of it (any time behind). `data` keeps the two fields
the guards read, `grill.state` and `online`. Timers are ages or times left, in ticks; `Tick` is
the only action that moves them. It does not pass over what the event loop has ready: a start
check that is due, or the waiter that a release has woken. `Show` is what happens to every state
before it is shown: beacon merge, then lifecycle; `Apply` is the rest of a poll around it, and
`ReceiveBeacon` uses the same `Show` on the current view. `AutoSkip` makes a call that nobody
else uses (`AutoCall`); if that call is still under way the poll waits. The guards of the bodies
are gathered in `Declines`: all of them are evaluated inside the lock, on the view of that
moment. `via` is the transport a command went out through, read when it is sent; `RadioFree`
keeps a poll off the link while a command that used it has yet to leave (`BleSession` models that
link). `Fail` covers a refused, lost or cancelled command, with or without the grill having
acted, except for a cancelled one whose grill acts after the caller left, which `CommandLock`
excludes and the transports have to earn.

*Settings.* `data` is the cook as the last fresh poll saw it and `dataAge` its age: a poll brings
the grill as it is or repeats what was shown. `command` is the re-issue inside the lock, with the
seconds the timer is set to and the total that is meant; `Succeed` is `_remember_issue` and
`Normalized` is `_normalize` with `_reconcile_pending`. `override` is `_seconds_override`. The
temperature stands for what `async_modify_cook` changes, the target for `async_set_probe`, the
total for the duration; of the mode, which may come with either, only its longest duration is
kept, since `Clamped` may cut the rest of the cook to it (1340). `staged` is `cook_setting_*` and
`timer` the time up to `_local_cook_end`. Over Bluetooth (`local`) a poll may bring no frame of
the timer: `PollFrameless` is such a poll and the merge after it, `Beacon` a push into the view,
and both show what is staged as the whole and the estimate as the rest (`Estimated`), which
`Base`, `LiveRemaining` and `SecondsSet` then build on. Every change is staged before it is looked
at (`Stage`), also a duration that is then refused. Over a cloud what is staged is read by nothing
here and keeps its first value. `forgot` notes that a poll without a frame has dropped an
override.

*Limits.* `Limits` is the table of `capabilities.py`, `Others` the modes a grill may run that it
does not list. A change waits with the mode it was `checked` for; `Run` stages it and builds the
cook inside the lock (`StartOf`, `ReissueOf`), from settings that other changes may have staged
meanwhile. `View` is a poll that shows any cook, and the end of what is pending.

*Lifecycle.* `grill` numbers the cooks, so that `fired` can count the events of the present one.
Over a cloud `polls` are the readings under way, each taken at one moment (`PollReads`) and shown
at a later one (`PollShows`), in any order; `behind` notes how many of them are older than one
that was shown. Over Bluetooth a reading is made up by `_merge_beacon`: `Merged` of what is shown
and the last beacon, which may be missing (`NoReading`). `PollFrameless` is a poll whose state is
unknown to start with and which therefore reads as idle without a cook in the beacon (449-453),
`PollUnconnected` is `_ble_offline_or_last`, `BeaconComes` the push with its own call of the
events (364-365); `timer` is the time up to `_local_cook_end`, which half time is read off.
`StartActs` and `StartReturns` are a start from here, seen by polls and beacons in between;
`First` is `_seed_cook_flags`, `Emit` the body of `_emit_lifecycle_events` in its order, `Restart`
a new coordinator with none of this state.

*Backend choice.* `poll[p]` is the await of one refresh: "reading" the transport it began with,
the "fallback" read at Ayla, or the "try" of the other cloud. `status` is what each cloud says,
with a lag of any length; `awsReached`, `awsFailed`, `check` and `recheck` are the fields of that
name. `Answered` looks at the transport of that moment, which another poll may have changed.
`scheduled` is the next refresh of Home Assistant's coordinator: `PollStart` takes its place and
`Ends` sets it again, but a poll that ends with an AuthError (`Unauthorized`) does not.

*Sessions.* A token is only told apart from others; `valid` are those the servers accept and
`Issues` makes a new one. `queue[l]` is an `asyncio.Lock` with its holder first. `pc` names the
await; `retried` is the second attempt of `_api`, `resigned` that of `_login`. `GivesUp` is a
failure or a cancellation anywhere; `Ends` leaves both locks as `async with` does.

*Bluetooth.* `queue` is `_lock`; `up` the connection there really is, `client` the one that
`HaBleLink` holds, `frames` the queue of notifications by the connection they came over. `Fails`
is an error of any step; `Left` is `_safe_disconnect` and what follows; `Close` and `Closed` are
`close()` at unload, which does not take the lock. `Notifies` is any connection there is, also one
whose disconnect failed: `_on_notify` knows none.

`ours`, `halted` (and in other modules `older`, `revoked`, `took`, `ran`, `stopped`, `asked`,
`forgot`, `behind`, `fired`, `owed`, `written`, `orphaned`, `haunted`) are history: they record
what happened and no action of the code reads them.

## Runs

| Run | Question | Bounds |
|---|---|---|
| `command_lock` | Does a Stop win over everything made before it, and is it served? Does no command undo one that was made after it? Does the lock implement `GrillControl`? | 3 calls, reused without end |
| `aws_start` | Is nothing left in the shadow after a refusal, a withdrawal or a Stop? Is an acknowledgement worth something? Does a withdrawal stay inside the lock? Do start and Stop end, with fewer steps to come after each one of theirs? | 2 cooks, one with a probe target; 2 acknowledgement polls; 2 Stops |
| `coordinator` | Does Wake spare a fresh start, and are "asleep" and "confirmed" exclusive, whatever races? | 2 calls of start, stop, wake; Bluetooth; asleep, idle, preheat |
| `coordinator_skip` | Does a skip reach the grill while a Stop is fresh, or does the coordinator make one of its own after it? Does the idle of a Stop hold through its grace? | 1 call of start, stop, modify and the coordinator's own skip; Bluetooth; a cook from preheat over add food to an open lid |
| `coordinator_view` | Does the view follow the grill, also across the grace of a Stop? | 1 call of stop; Bluetooth and a cloud; cooks started at the grill |
| `backend` | Is Bluetooth tried again? Does the transport come to rest on the cloud that has the grill, and is the grill shown online? | 2 overlapping polls, with an AuthError at any of them; with and without Bluetooth |
| `lifecycle` | Is every milestone, the end and the start announced once? | 2 cooks, 2 polls at a time; a cloud or Bluetooth; 1 unit of time and of temperature |
| `cook_settings` | Does a change revert another, or flicker, or lose the total duration? | 2 probe targets, 1 temperature, cooks of 2 to 3 units of time, 2 of them the least to send, modes of at most 2 and 3; a cloud or Bluetooth |
| `cook_limits` | Is every cook that is sent within its mode's limits, and what was accepted, smoke included where it may be chosen? | 3 modes and one without limits; a service and a card; 5 reports |
| `sessions` | Does every request that should get an answer get it, does one renewal serve all, are the two locks taken in one order, do all requests end after a bounded number of attempts? | 2 requests to either cloud |
| `ble_session` | Is a session used by its owner alone, is the link released, does a command act only while its caller is inside, does a user inside the lock only ever move on? | 2 polls, 2 commands, 1 unload |

`TypeOK` is checked by the runs of `BackendChoice`, `Lifecycle` and `CookSettings`. Of the other
modules it is proved (`TypeCorrect` below), and their runs look at what is harder instead.

One run refutes what the repository says of itself (see `findings`): `stuck_cooking`.
`coordinator.py:450` says that a fresh beacon without a phase means idle; with beacons but no
GATT connection, a cook that is over is shown for ever, because the state that is merged is the
one that was shown before (320-321) and an active one is kept (449).

### Divergences without a run

Seen while modelling, each from the lines given; kept out of the runs because a run would show
one step of the code, or because no text says what should happen instead.

Stops, starts and Wake:
- A failed withdrawal is reported as such (`tests/test_aws.py:443-447`), but after a missing
  acknowledgement only a TransportError is turned into that message; an AuthError is raised as it
  is, with the start still queued (`aws.py:405-410`). `AwsStart` has it as the outcome "failed".
- Clearing the delivered command swallows a TransportError only (`aws.py:414`); an AuthError
  there fails a start that the grill runs.
- Wake is only sent on a positively confirmed standby (`coordinator.py:1193-1195`), but an
  unmapped step is shown as idle (449-453), and Wake stops it (1210). `WakeSparesFreshStart` is
  therefore about cooks this integration has just started.
- A stale beacon must not bring a stopped cook back (173-175), but the last beacon lives 60 s (73)
  and the grace of a Stop 30 s (397): a grill that stops advertising is shown cooking once more.
  An auto-skip that was queued behind the Stop and then behind a start that fails only after the
  grace finds that preheat when it gets the lock at last, and cooks again (1229-1232): it takes
  three calls. `SkipSparesStopped` is therefore about skips made while the Stop is fresh, and
  about none being made after it.
- The get-food prompt works locally (repository `README.md:78-79`), but done ends the cook
  (680-683) and prompts are not trusted without one (415).
- A start queued ahead of a Stop arms its start check after that Stop dropped the old one
  (1171-1174 against 222-224). A second Stop cancels the release of the first.
- Wake reads the backend before it waits for the lock (1204); its stop may go out over the cloud
  that a poll has fallen back to. The auto-skip flag is spent before the skip is sent (301), and a
  skip that fails is not tried again.

Settings:
- A service call is checked against the mode shown at that moment (1031), but a start uses the
  staged mode and other changes may come first: the value is then clamped silently, which the
  docstring says it is not (1025-1028). `AcceptedSent` has the condition. In a mode without
  limits not even the number of the probe is checked (1033-1041).
- The same docstring is wrong of smoke whatever comes first: `_validate` is not given it, smoke
  that is asked for in a mode without any is sent off (1108, 1339), and smoke that is turned off
  in a mode that requires it is staged and sent on (942-949). `AcceptedSent` claims smoke for the
  modes that leave it to the user (`SmokeChosen`).
- The select and the switch of the card write the staged settings outside the lock.
- A re-issue that fails after the grill took it leaves the remaining time as the whole duration:
  the elapsed part is lost (`TotalKept` is claimed up to such a failure). A change in
  the last minute of a cook is sent with a full minute (1343), so that the cook is prolonged and
  its total grows; `TotalKept` says by how much at most. A poll that
  happens to report the seconds of the pending command is taken for it (587). A change of the mode
  cuts the rest of the cook to the longest duration of the new one (1340).
- Over Bluetooth what is staged is shown as the running cook's. A duration that is refused
  (1325-1328), or whose command fails, has been staged by then (1256): the next beacon shows it as
  the whole (470), and the next change of another setting is sent with it. A cook started at the
  grill is shown, and re-sent, with the settings staged here. A poll without a frame of the timer
  counts as idle and drops the elapsed time once the grace is over (561-567); a frame then shows
  the rest as the whole. The estimate of one duration, shown under another, may be taken over as
  the timer of the pending command (587-592). `TotalKept` names these as the ends of its claim.
- Started and followed by a stale idle poll, a change is only staged; stopped and followed by a
  stale active poll, it starts the grill anew.

Events:
- A cook shown by a poll before its start returned is announced twice (1125 and 649;
  `tests/test_coordinator.py:169` has one order of the two). `_new_cook` that met no poll is spent
  on a later cook.
- The probe's half way is counted afresh after a restart or a gap (612 against 629) and may be
  announced again. The end of a cook is missed when the grill goes offline with it.
- Milestones are seeded so that they do not fire again (611-618), but refreshes overlap (594-598): a
  reading from before the cook, or from before its present step, that is shown after a newer one
  ends the cook (680), announces it anew (649) and gives every milestone a second time.
- Over Bluetooth a cook whose beacons stop coming for 60 s is idle to a poll that gets no frame
  (376-390, 449-453): done is announced in its middle, the next beacon announces the start again,
  and the end is announced a second time when it comes. The prompt is cleared without a beacon
  (387), so that add food is called again. So it is, for a moment, when a start is shown at once
  and the last beacon is still that of the cook before.
- Over Bluetooth half time is read off the estimate of the timer, which begins anew at its full
  duration with a restart of Home Assistant (464-476): half time may be announced again.
- The answer to a start that comes after its cook was seen repeats what that cook has announced:
  its start, half time, a target that the probe has already reached (1125, 649, 602-609), and over
  Bluetooth, where the answer shows a step of its own choice whatever the grill is in (1127-1144),
  the preheat and the end as well.
- A wait for the lid is a cook of its own in `Lifecycle`: what is announced before it does not
  count for the cook that follows.
  `fired` begins its count anew at each of these (`Recount`, `Blurred`, `Restarted`), and counts
  on through everything else.

Backends, sessions, link:
- A hybrid entry leaves AWS with every Bluetooth retry (60 s) and comes back after the recheck
  (600 s); in between it reads Ayla. `Settles` is claimed without Bluetooth only. Refreshes after
  a command do not wait for the scheduled one (594-598); `BackendChoice` has both.
- An AuthError of either cloud, also of the one that is only looked up (519 and 539 catch a
  TransportError only), fails the whole poll (274-275), a reading in hand included, and Home
  Assistant schedules no further refresh: in a hybrid entry a session that is refused while
  Bluetooth is away ends the retries of Bluetooth, against 236-240, until somebody sends a command
  or signs in. The liveness of `BackendChoice` is claimed as long as refreshes are scheduled
  (`Refreshed`).
- `/co/authenticate` answers a 5xx with an AuthError (`auth0.py:167-169`), which `errors.py:12-13`
  reserves for credentials.
- Household and device ids are cleared by a 404 of one request while another uses them
  (`aws.py:264-266, 305-311`). A device record is served for 30 s, after failures for 300 s.
- Frames of an earlier connection are not answers (`ble_link.py:45-46`), but a link whose disconnect
  failed is forgotten with its notifications on (83-84, 34-35): what it queues between the clear
  (47) and the new connection (49), its token included, is taken for the new one's. `OwnSession`
  is claimed unless such a link was still up then (`haunted`).
- Frames behind the token in the same batch are dropped (`ble.py:90-98` against 81-82).
- `close()` disconnects without the lock (`ble_link.py:79-84`, `ble.py:215`) and forgets a link
  that a user has made meanwhile: `Released` and `WhileInside` are claimed while the entry is
  loaded. A reload makes new locks while a command of the old entry may be under way; the start
  check is not cancelled at unload, a setup that fails keeps its beacon callback, and a service
  call may reach an entry that was unloaded while it waited.

### Bounds, and why they are enough

- *Calls.* Every race of the command layer needs at most a command in flight, one queued and a
  Stop behind both: three calls. A call may be made again after it returned, so histories are
  not bounded. In `Coordinator` two calls give every overlap of two bodies; that no number of
  them changes the answers is what `Coordinator_proof` adds.
- *Ticks.* The limits only matter by their order: 25 s < 30 s < 60 s is 1 < 2 < 3, and ages
  saturate one past their limit. `coordinator_skip` and `coordinator_view` use 0 < 1 < 2, and an
  OFFLINE_AFTER of 0: their questions are about the two graces, and a local link that is given up
  sooner only adds behaviour. `_BLE_RETRY_S` is one tick and so shorter than a grace; its length
  matters to no property.
- *Steps.* A run has the steps that its question tells apart. `coordinator_skip` has the prompt
  and the lid, which a merge can turn into an active state; done and get food end a cook, and
  are left to `lifecycle`.
- *Polls.* `Coordinator` has one poll: overlapping refreshes matter to the transport, which
  `BackendChoice` looks at with two, and to the order of the readings behind the events, which
  `Lifecycle` looks at with two; `Lifecycle_proof` has any number of them. What a reading that
  comes late shows is, to the commands, a cloud that lags, which `Coordinator` has.
- *MaxPolls, MaxStops.* Two acknowledgement polls: one that misses and one that hits or is the
  last. Two Stops: one that cancels and one that cancels again while the first is waited for.
- *Backend timers.* 1, 1 and 2: a retry is shorter than a recheck, as 60 s and 600 s are.
- *Cooks and units.* Two cooks: one whose readings, beacons and flags are met by the next. One unit
  of time and of temperature: before the half and past it, below the target and at it. The proof
  has any. `MCLifecycle` gives TLC a view of the states (`Distinct`) that leaves out what no step
  reads any more, such as the flags while no cook is shown.
- *Settings.* Two targets to revert one to the other; the temperature is re-sent in the same way
  and keeps one value, so that its changes are the other setting's re-issues; the proof has any.
  LAG and the grace are one tick: a view as old as the grace allows. Cooks of 2 and 3 units of
  time make elapsed, remaining and total differ, and modes of at most 2 and 3 cut one and leave
  the other; MIN_REMAINING is two of them, so that a cook has a last minute in
  which a change prolongs it. MaxTotal bounds how far: a change that would exceed it is not made.
  `Init` is a cook that was started with what is staged; what a foreign cook is shown as over
  Bluetooth is listed above.
- *Limits.* A mode with heat levels, one that requires smoke and one with neither, with ranges
  that do not overlap; the proof covers any table. Reports and service calls are those that
  differ in a guard.
- *Tokens, links.* Four of each kind: one in the session, one per request and a new one. Those
  that nobody holds are used again. Four connections: two that frames and a close still know of,
  the present one and a new one.

### Fairness

The event loop runs what is ready (`Resume`, `Succeed`/`Fail`, `VerifyFires`, `PollStart`), time
passes, and every request ends: HTTP has a total timeout of 20 s, the Bluetooth handshake has a
fixed number of attempts, the acknowledgement a fixed number of polls. Hence weak fairness of
the answers taken together, never of the good answer alone: a poll may fail every time. The grill
itself and users have none; `ReceiveBeacon` has, since a grill that is on advertises. `FairSpec`
of `Coordinator` adds strong fairness of `BleReports`: of infinitely many polls some get the
state frame. `DeafSpec` leaves that out and is what `stuck_cooking` runs under. In `AwsStart`
some step of the caller and some step of the Stop is taken while one is possible; nothing is
assumed of the grill or of connectivity. `BackendChoice` has weak fairness of the ends of every
request and of clouds learning where the grill is, and strong fairness of the answers of a cloud
that is asked infinitely often; none of Bluetooth. A poll is fair only while one is `scheduled`:
its properties say what follows from `Refreshed`, that polls go on being scheduled, and `Alone`.
In `Sessions` and `BleSession` a call has weak
fairness of its own next step (`Proceeds`), which is the time limit of every await; nothing is
assumed of the servers, the grill or the link.

## Proofs

`CommandLock_proof` proves of `CommandLock`, for any set of calls (`NoCall` outside it):

- `TypeCorrect`: `Spec => []TypeOK`;
- `StopWinsAlways`: `Spec => []StopWins`;
- `OlderNeverUndoes`: the action property `LastWishCounts`;
- `Refinement`: `Spec => ImplementsControl`, that is, the lock implements `GrillControl`.

`StopWins` (the grill cooks for nobody a returned Stop was made after) is not inductive: it needs
to know that a Stop inside the lock has nothing older than itself left to act. `IInv` adds three
parts. `LockInv`: one call is inside, it is the owner and the remembered task, a cancellation can
only be pending for it, and the queue holds exactly the waiting calls, once each. `FifoInv`:
whatever is older than a waiting call has returned, is inside, or waits ahead of it; so whatever
is older than the call inside has returned. `StopInv`: while a stop that the grill has acted on
waits for its answer nothing is cooked, and revoked calls have returned. `InvStep` proves one
step per action; the three ways of leaving the lock share `LeaveInv` and `LeaveEmpty`. The
refinement maps a call to open until it has returned, and the invariant gives what the abstract
`StopReturns` and `StartActs` ask. That no command undoes a later one needs the queue again, of
calls that have returned by then: `CookInv` says that whatever the call that is cooked was made
after has returned.

`AwsStart_proof` proves the five safety invariants of `AwsStart`, for any cooks (neither
`Nothing` nor "stop" among them) and any bounds: `TypeCorrect`, `NothingLeftBehind`, `StopFinal`,
`AcknowledgementWorth` and `WithdrawalInLock`. `LockInv` says who can be where: a Stop is inside
the lock only while no start is, a start that has not written yet has nothing in the shadow, and
a Stop's success is forgotten when the next start begins. `ShadowInv` follows a stop that was
written over the shadow until its writer returns: nobody else can have written meanwhile.
`EvidenceInv` says where evidence can come from: no cook runs or shows, beside the baseline,
without having run since the start began, and no new echo shows without the grill having taken
the command. Each of the four parts is kept by every action (`TypeStep`, `LockStep`,
`ShadowStep`, `EvidenceStep`). `NothingStartsOver` (`NothingRepeated`) is about what `start_cook`
has to come: a number that each of its own steps makes smaller, whatever the server, the grill
and its cancellations do.

`CookLimits_proof` proves of `CookLimits`, for any table of modes, reports, callers and changes:
`TypeCorrect`, `LimitsKept` (`SentWithinLimits`), `AcceptedIsSent` (`AcceptedSent`, with smoke for
the modes that leave it to the user) and `SmokeIsStaged`. What
makes them inductive is `Checked`: a change that waits keeps the limits of the mode it was checked
for. That the cook built from it is within the limits of *its* mode, whichever that is by then,
is what the lemmas about `StartOf` and `ReissueOf` say. Assumed: the table's defaults are in
their ranges and a mode that always smokes has smoke on by default (`LimitsAssumption`, what
`capabilities.py:12-55` lists), and the grill reports no probe it has not.

`Lifecycle_proof` proves of `Lifecycle`, for any cook time, target, number of cooks and number of
polls under way: `TypeCorrect`, over a cloud and over Bluetooth, and over a cloud `AnnouncedOnce`
(`MilestonesOnce`), `EndedOnce` (`DoneOnce`) and `BegunOnce` (`StartedOnce`). Each holds up to
what `fired` begins its count anew at: a reading older than one that was shown, and for some
events the answer to a start. "Fired at most once" is not inductive: it needs that the flags and
the previous state, which restarts and gaps forget, cannot lead to it again. `Ordered` says that
readings follow each other as they were taken, and that what a cook has passed in one it has
passed in every later one (`Older`). `Newer` is what is still to be shown and is not older than
what was: the polls beyond `behind`, and the grill. Each of `HalftimeInv` ... `StartedInv` then
says what an announced event means: everything `Newer` is of this cook and has passed it, and as
long as the flag or the previous state would let it be announced anew, the cook is past the point
where a reading could show it. A reading that is older begins the count anew, and leaves `Newer`
as it is (`PollShowsOlder`); every other one shrinks it (`PollShowsNewer`). `StepKinds` sorts the
steps of a cloud into a new cook, those that keep the cook's past (`PassedKept`), a poll that is
shown, one that is offline, the answer to a start and a restart; each event has a lemma for a
reading that is shown (`StartedShown` ... `TargetShown`). Bluetooth, where the readings are made
up from beacons and from what was shown, is left to the run. The half way of a probe is counted
afresh after a gap and is not among the events.

`CookSettings_proof` proves the invariants of `CookSettings` for any settings, durations, grace
and lag: `TypeCorrect`, `ChangesKept` (`NoRevert`), `CardKept` (`NoFlicker`) and `DurationKept`
(`TotalKept`). That a change does not revert another needs to know that whatever it is built on
is `Wanted`: `ValuesInv` says so of the command that is pending within its grace and of a view
that is newer than the last command (`Fresh`). The assumption that carries it is `LAG <=
ISSUE_GRACE`: a view outlives no command's grace (`coordinator.py:56`). The duration needs
`TotalInv`: with the elapsed time put back (`SecondsSet`) the grill and a fresh view show a total
that was asked for, over Bluetooth what is staged is such a total too, and a fresh view of an
idle grill is the last word about it, so that a stale poll cannot drop the override of a cook
that runs; and `TimersInv`, that no timer and no estimate has more left than it was set to. Both
are claimed as long as the total is not lost (`Lost`, at the exceptions that `TotalKept` names);
`Sound` is that, and that no other duration is staged yet. `BaseIs` concludes what a change is
built on, `ReissueStep` that the change is wanted and as long as it was asked to be, or cut by
its mode.

`Sessions_proof` proves of `Sessions`, for any calls and tokens and either grant: `TypeCorrect`,
`RequestsRecover` (`Recovers`), `LocksInOrder` (`LocksOrdered`) and the action properties
`GoodTokensKept` (`FreshKept`) and `AttemptsEnd` (`AttemptsBounded`). `LockInv`
says who is in which of the two queues, once, and that a call that renews is first in the queue
of what it renews. Per call, `HandOf` says what it has in hand where it is (a call that renews
has a token that is not accepted), `ReplacedOf` that what it is about to replace is missing, at
its end or not accepted, and `OwedOf` what a second attempt rests on: as long as nothing was
revoked, whatever came in the place of a token that a call has is good. The four lemmas about
queues (`Appended`, `Tailed`, `TakenOut`, `Requeued`) say what one step of one call does to
everybody else's place. A step then has a lemma for its own call and one (`OthersStep`) for all
the others, which needs only `SessionsKept`: a token is replaced by a good one, by the holder of
its lock, and no other token becomes good or bad. `LocksOrdered` follows from `LockInv`: the
place of a call says which locks it has and for which it waits, and no place has that of Auth0
and waits. In `AttemptsEnd` a call
has a second attempt once, and signs in again once in each: `HandOf` says where it
can have either still before it.

`BleSession_proof` proves of `BleSession`, for any users, connections and attempts:
`TypeCorrect`, `OwnSessionKept` (`OwnSession`), `LinkReleased` (`Released`) and the action
properties `CarriedOutInside` (`WhileInside`) and `AttemptsRunOut` (`NobodyStays`). `QueueInv` is
the lock: everyone who has begun waits once, and whoever is busy is first. `LinkInv` is the link:
a client is somebody's who is busy,
its frames came over it unless the user is `haunted` by a link that was up when it dropped the
earlier ones, and a link that is up and nobody's is one whose disconnect failed.
`AirInv` follows a command on its way: its caller waits for it, or the link was lost sight of.
`QueueStep`, `TypeStep`, `LinkStep` and `AirStep` keep each part through every action.

`Coordinator_proof` proves all safety properties of `Coordinator`, for any calls, transports,
steps of the cook and graces in the code's order: `TypeCorrect`, `ConfirmedIsAwake`
(`AsleepUnconfirmed`) and the action properties `FreshStartSpared` (`WakeSparesFreshStart`),
`StopKeepsIdle` (`IdleHeldInGrace`), `FlagDropped` and, with Bluetooth alone,
`StoppedCookSpared` (`SkipSparesStopped`). `LockInv` and `QueueInv` are the lock: only its owner,
which is the remembered task, has a command under way, and the waiters are the queued calls, once
each. `FreshInv` is why Wake spares a start: a start that is fresh is still pending for at least
as long, and no start can become fresh while a Wake is inside the lock. `SkipInv` ties the
auto-skip to the Stop that drops it. `Parts` regroups the invariant by the variables it is about,
so that an action leaves most parts unchanged; the lemmas `EnterKeeps`, `CallKeeps` and
`LeaveKeeps` are shared by every call, `ShowView` by every beacon and poll. `StopBarsSkips` needs
`LocalInv`: while a Stop is fresh no view shows a preheat, and a skip inside the lock met no fresh
Stop. That is false with a cloud, whose answer is shown as it is (a late one shows the preheat
of the cook that was stopped, and a skip that the user asks for on that view is sent); hence the
assumption. The assumptions on the graces are the order of `const.py:54` and
`coordinator.py:60-76`.

`PromiseKept` says what all of that is for: `HSpec => ImplementsControl`, the coordinator with its
bodies, polls, beacons, start checks and skips keeps the promise of `GrillControl` to every call.
`Coordinator` does not say for whom the grill cooks; `CoordinatorHistory` adds it, together with
what each call was made after, to every step of `Next`. It takes no step away: each of its
variables has a next value whatever happens (`HistoryFollows` for the one that is chosen from a
set). A call is made again after it returned, possibly while the grill still cooks for it; so it
goes by two names in turn, and the new one is never revoked or cooked when it is taken. `HInv`
has the same argument as `IInv` of the lock: `FifoInv`, nothing older than the call inside is
still open; `StopInv`, while a Stop is acted upon and not returned nothing is cooked, and what is
revoked is neither open nor cooked. It rests on `IInv` of `Coordinator` for the lock. No run
checks it: the history multiplies the states of `coordinator` beyond what TLC finishes, and
`command_lock` checks the same promise of the lock alone.

The three theorems about steps to come (`AttemptsEnd`, `NothingStartsOver`, `AttemptsRunOut`) are
the safe half of the liveness properties of their modules: no step is a step back. That each
step is taken is fairness, and stays with TLC.

Only model-checked: the events over Bluetooth, `TypeOK` of `BackendChoice`, whose other properties
are about what happens in
the end, and all liveness (`StopReturns`, `EverythingEnds`, `EveryCallEnds`, `ViewFollows` and
their like): fairness and ENABLED are out of the prover's reach.

## Not modelled, and why

- The diagnostic counters: they are shown and decide nothing.
- Of the events: Bluetooth frames with a state and a timer of their own between polls without one
  (`CookSettings` has them), a Stop from here with its grace, a change of the backend under a cook,
  cloud readings without a state, which are skipped (634-636), the kept name and times of the
  previous cook.
- The clamp of a start to the durations of its mode (1106-1119) and the check of a duration by
  `_validate`; how a mode cuts a running cook is in `CookSettings`.
- Renaming the grill and raw property writes: one request without a guard.
- What a withdrawal does to a cook that was already running: the code writes a stop over it, and
  no text of the repository says whether that is wanted.
- The cache of device records and the resolution of ids: `BackendChoice` lets a cloud's status lag
  without bound, which covers a cached one.
- Two entries for one grill, and other apps that use the same account: nothing in the code looks
  at them, except for cooks that were not started here, which every module has.
- Codecs and ciphers: conversions without a state. What the phases, prompts and limits they carry
  mean is in `Coordinator` and `CookLimits`.
- Sensors and binary sensors: projections of the view. Setup: which transports an entry has is a
  constant. Config flow: forms that run once, in one order. Scripts and blueprints: not part of
  the running integration.

## What is left

The events of a cook over Bluetooth proved, as they are over a cloud; one cook followed through
`CookLimits` and `CookSettings` together; the device cache of the Ayla client with its two ages;
reload as a crash of the coordinator with a command of the old entry still under way.
