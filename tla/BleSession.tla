----------------------------- MODULE BleSession ------------------------------
(***************************************************************************)
(* One Bluetooth link, many users (ble.py, ble_link.py): polls and         *)
(* commands connect, get a session token, listen or write, and release the *)
(* link, one at a time, while the link drops, requests fail, callers are   *)
(* cancelled (once, or again while they leave), and the entry is unloaded. *)
(*                                                                         *)
(* Connections are only told apart.  A frame carries the connection that   *)
(* it came over, and a token is known by its connection.  The queue is an  *)
(* asyncio.Lock: its first user holds the lock, the others wait in order.  *)
(***************************************************************************)
EXTENDS Integers, Sequences, SequencesExt

CONSTANTS
    Polls, Commands,    \* the reads and the writes that may be under way at once
    Links,              \* connections
    NoLink,
    READ_ATTEMPTS, CONNECT_ATTEMPTS

Users == Polls \cup Commands

ASSUME UsersAssumption == Polls \cap Commands = {} /\ "none" \notin Users
ASSUME LinksAssumption == Links \cap {NoLink, "no", "done"} = {}
ASSUME AttemptsAssumption == {READ_ATTEMPTS, CONNECT_ATTEMPTS} \subseteq Nat \ {0}

VARIABLES
    queue,      \* _lock
    pc,         \* per user: what it does
    reads,      \* the reads that the poll inside the lock may still try
    greets,     \* the CONNECTs that the user inside the lock may still write
    token,      \* the token it was given, by its connection
    client,     \* HaBleLink._client, connected or not
    frames,     \* HaBleLink._frames: the connections its frames came over
    up,         \* the connection that there really is
    air,        \* the user whose command is on its way to the grill, or "none"
    written,    \* history, per user: how often its command was carried out
    closing,    \* close() at unload: the connection it disconnects, "no" or "done"
    orphaned,   \* history: a disconnect failed or was interrupted, and its link is up
    haunted     \* history: the user inside the lock dropped the frames of the sessions
                \* before it while a connection lost sight of was still up

turn == <<reads, greets, token>>
link == <<client, frames, up, air, orphaned>>
vars == <<queue, pc, turn, link, written, closing, haunted>>

Init ==
    /\ queue = <<>> /\ pc = [u \in Users |-> "ended"]
    /\ reads = 0 /\ greets = 0 /\ token = NoLink
    /\ client = NoLink /\ frames = {} /\ up = NoLink /\ air = "none"
    /\ written = [u \in Users |-> 0]
    /\ closing = "no" /\ orphaned = FALSE /\ haunted = FALSE
-----------------------------------------------------------------------------
(* The grill and the radio (external).                                     *)

\* A frame arrives, of the token or of the state, and is queued by _on_notify: over
\* whatever connection there is, also one that HaBleLink has lost sight of.
Notifies ==
    /\ up # NoLink /\ frames' = frames \cup {up}
    /\ UNCHANGED <<queue, pc, turn, client, up, air, orphaned, written, closing, haunted>>

Down == up' = NoLink /\ air' = "none" /\ orphaned' = FALSE

LinkDrops ==
    /\ up # NoLink /\ Down
    /\ UNCHANGED <<queue, pc, turn, client, frames, written, closing, haunted>>

\* What was written reaches the grill, also when the writer no longer waits for it.
CarriesOut ==
    /\ air # "none" /\ air' = "none"
    /\ written' = [written EXCEPT ![air] = IF @ < 2 THEN @ + 1 ELSE @]
    /\ UNCHANGED <<queue, pc, turn, client, frames, up, orphaned, closing, haunted>>
-----------------------------------------------------------------------------
(* A user of the link.                                                     *)

At(u, at) == pc[u] = at
Goes(u, to) == pc' = [pc EXCEPT ![u] = to]
Inside(u) == queue # <<>> /\ Head(queue) = u
Connected == client # NoLink /\ client = up

\* A user stands for one call at a time, also while its last command is on its way.
Begin(u) ==
    /\ At(u, "ended") /\ air # u /\ Goes(u, "waiting") /\ queue' = Append(queue, u)
    /\ written' = [written EXCEPT ![u] = 0]
    /\ UNCHANGED <<turn, link, closing, haunted>>

\* Mutant: frames of an earlier connection are kept.
ConnectsUncleared(u, attempts) ==
    /\ reads' = attempts /\ greets' = CONNECT_ATTEMPTS /\ token' = NoLink
    /\ IF Connected THEN Goes(u, "greeting") /\ UNCHANGED haunted
                    ELSE Goes(u, "connecting") /\ haunted' = (up # NoLink)
    /\ UNCHANGED frames

\* `connect`, up to the wait for the connection; frames of an earlier one are dropped.
Connects(u, attempts) ==
    /\ reads' = attempts /\ greets' = CONNECT_ATTEMPTS /\ token' = NoLink
    /\ IF Connected
       THEN Goes(u, "greeting") /\ UNCHANGED <<frames, haunted>>
       ELSE Goes(u, "connecting") /\ frames' = {} /\ haunted' = (up # NoLink)

Enter(u) ==
    /\ At(u, "waiting") /\ Inside(u)
    /\ Connects(u, IF u \in Polls THEN READ_ATTEMPTS ELSE 1)
    /\ UNCHANGED <<queue, client, up, air, orphaned, written, closing>>

\* Mutant: the attempts are not counted.
RetryUncounted(u) ==
    /\ At(u, "backoff") /\ Connects(u, reads)
    /\ UNCHANGED <<queue, client, up, air, orphaned, written, closing>>

\* The next attempt of a read, after its backoff.
Retry(u) ==
    /\ At(u, "backoff") /\ Connects(u, reads - 1)
    /\ UNCHANGED <<queue, client, up, air, orphaned, written, closing>>

\* `establish_connection`: there is one connection to the grill at a time.
Established(u) ==
    /\ At(u, "connecting") /\ up = NoLink
    /\ \E l \in Links \ ({client, closing} \cup frames) : up' = l /\ client' = l
    /\ Goes(u, "greeting")
    /\ UNCHANGED <<queue, turn, frames, air, orphaned, written, closing, haunted>>

\* `_handshake` reads b001 (not told apart), writes CONNECT and collects; what it finds
\* of a token is taken. A command is then written, a poll listens.
Greeted(u) ==
    /\ At(u, "greeting") /\ client # NoLink
    /\ IF frames # {}
       THEN /\ token' \in frames /\ frames' = {}
            /\ Goes(u, IF u \in Polls THEN "listening" ELSE "writing")
            /\ UNCHANGED greets
       ELSE /\ greets > 1 /\ greets' = greets - 1
            /\ UNCHANGED <<pc, token, frames>>
    /\ UNCHANGED <<queue, reads, client, up, air, orphaned, written, closing, haunted>>

\* The command is on its way; its answer is waited for.
Writes(u) ==
    /\ At(u, "writing") /\ Connected
    /\ air' = u /\ Goes(u, "written")
    /\ UNCHANGED <<queue, turn, client, frames, up, orphaned, written, closing, haunted>>

Written(u) ==
    /\ At(u, "written") /\ air = "none"
    /\ Goes(u, "leaving")
    /\ UNCHANGED <<queue, turn, link, written, closing, haunted>>

Listened(u) ==
    /\ At(u, "listening") /\ frames' = {} /\ Goes(u, "leaving")
    /\ UNCHANGED <<queue, turn, client, up, air, orphaned, written, closing, haunted>>

\* Mutant: a command that failed is tried again.
MayRetryAll(u) == IF u \in Polls THEN reads > 1 ELSE reads > 0

\* Every step may fail; another attempt of a read may follow.
MayRetry(u) == u \in Polls /\ reads > 1
Fails(u) ==
    /\ pc[u] \in {"connecting", "greeting", "writing", "written", "listening"}
    /\ Goes(u, IF MayRetry(u) THEN "retreating" ELSE "leaving")
    /\ UNCHANGED <<queue, turn, link, written, closing, haunted>>

\* The queue without a user in it.
Without(u) == RemoveAt(queue, CHOOSE i \in 1..Len(queue) : queue[i] = u)

\* Mutant: a cancelled user does not release the link.
CancelledLeaving(u) ==
    /\ pc[u] \notin {"ended", "leaving"}
    /\ Goes(u, "ended") /\ queue' = Without(u)
    /\ UNCHANGED <<turn, link, written, closing, haunted>>

\* A cancelled user releases the link as well; one that waits has none.
Cancelled(u) ==
    /\ pc[u] \notin {"ended", "leaving"}
    /\ IF At(u, "waiting")
       THEN Goes(u, "ended") /\ queue' = Without(u)
       ELSE Goes(u, "leaving") /\ UNCHANGED queue
    /\ UNCHANGED <<turn, link, written, closing, haunted>>

\* `disconnect` has ended, by itself, with an error or cancelled: only then is it known
\* that the link is down; the client is forgotten in any case.
Disconnects(disconnected) ==
    /\ client' = NoLink
    /\ IF client = NoLink \/ client # up THEN UNCHANGED <<up, air, orphaned>>
       ELSE IF disconnected THEN Down
       ELSE orphaned' = TRUE /\ UNCHANGED <<up, air>>

\* `_safe_disconnect`, and out of the lock or on to the next attempt.
Left(u, disconnected) ==
    /\ pc[u] \in {"leaving", "retreating"}
    /\ Disconnects(disconnected)
    /\ IF At(u, "leaving") THEN Goes(u, "ended") /\ queue' = Tail(queue)
                           ELSE Goes(u, "backoff") /\ UNCHANGED queue
    /\ UNCHANGED <<turn, frames, written, closing, haunted>>
-----------------------------------------------------------------------------
(* `close`, when the entry is unloaded: it does not take the lock.         *)

Close ==
    /\ closing = "no"
    /\ closing' = IF client = NoLink THEN "done" ELSE client
    /\ UNCHANGED <<queue, pc, turn, link, written, haunted>>

\* It disconnects the client it found and forgets the one that is there by then.
Closed(disconnected) ==
    /\ closing \in Links /\ closing' = "done"
    /\ client' = NoLink
    /\ IF up # closing THEN UNCHANGED <<up, air, orphaned>>
       ELSE IF disconnected THEN Down
       ELSE orphaned' = TRUE /\ UNCHANGED <<up, air>>
    /\ UNCHANGED <<queue, pc, turn, frames, written, haunted>>

Proceeds(u) ==
    \/ Enter(u) \/ Retry(u) \/ Established(u) \/ Greeted(u)
    \/ Writes(u) \/ Written(u) \/ Listened(u) \/ Fails(u)
    \/ \E ok \in BOOLEAN : Left(u, ok)

Next ==
    \/ Notifies \/ LinkDrops \/ CarriesOut
    \/ Close \/ \E ok \in BOOLEAN : Closed(ok)
    \/ \E u \in Users : Begin(u) \/ Cancelled(u) \/ Proceeds(u)

Spec == Init /\ [][Next]_vars

\* Every wait of a user has an end: attempts are counted and requests time out.
FairSpec == Spec /\ \A u \in Users : WF_vars(Proceeds(u))
-----------------------------------------------------------------------------
Steps == {"ended", "waiting", "connecting", "greeting", "writing", "written", "listening",
          "leaving", "retreating", "backoff"}

TypeOK ==
    /\ queue \in Seq(Users) /\ pc \in [Users -> Steps]
    /\ reads \in 0..READ_ATTEMPTS /\ greets \in 0..CONNECT_ATTEMPTS
    /\ token \in Links \cup {NoLink} /\ client \in Links \cup {NoLink}
    /\ up \in Links \cup {NoLink} /\ frames \subseteq Links
    /\ air \in Commands \cup {"none"}
    /\ written \in [Users -> 0..2]
    /\ closing \in Links \cup {"no", "done"} /\ orphaned \in BOOLEAN /\ haunted \in BOOLEAN

\* What a user reads and the token that its command carries come over the connection it
\* is using (ble_link.py:45-47, ble.py:107-112), also after sessions that failed or were
\* cancelled at any step. The exception is a connection that was lost sight of and not
\* down yet when this user dropped the earlier frames: _on_notify knows no connection, and
\* what it still queues until the new one is there is taken for the new one's
\* (ble_link.py:34-35, 47-49, 83-84).
OwnSession ==
    ~haunted => \A u \in Users :
        /\ At(u, "listening") /\ client # NoLink => frames \cup {token} \subseteq {client}
        /\ At(u, "writing") /\ client # NoLink => token = client

\* While the entry is loaded the link is released by everyone who used it, whatever
\* failed and whoever was cancelled: only a disconnect that itself failed or was
\* interrupted leaves it up (ble.py:117-120, 148-153).
Released == queue = <<>> /\ closing = "no" => up = NoLink \/ orphaned

\* The grill carries out a command once, and while its caller is inside the lock, so that
\* the next one comes after it (ble.py:101-106): what CommandLock takes for granted of a
\* transport. The exceptions are a disconnect that failed, as above, and an unload.
WhileInside ==
    [][\A u \in Commands : written'[u] > written[u] =>
           written[u] = 0 /\ (Inside(u) \/ orphaned \/ closing # "no")]_vars

\* The steps that a user inside the lock has before it in this attempt.
InAttempt(u) ==
    CASE At(u, "connecting") -> 7 + CONNECT_ATTEMPTS
      [] At(u, "greeting") -> 6 + greets
      [] pc[u] \in {"writing", "listening"} -> 5
      [] At(u, "written") -> 4
      [] At(u, "retreating") -> 3
      [] At(u, "backoff") -> 2
      [] At(u, "leaving") -> 1
      [] OTHER -> 0

\* Whatever the grill, the radio and the other users do, a user inside the lock only ever
\* moves on: towards the end of its attempt, or into the next of the few that it has. So
\* nobody keeps the one link for ever (ble.py:106-120, 132-153).
NobodyStays ==
    [][\A u \in Users :
           pc[u] \notin {"ended", "waiting"} /\ <<pc[u], reads, greets>>' # <<pc[u], reads, greets>> =>
              \/ reads' < reads
              \/ reads' = reads /\ InAttempt(u)' < InAttempt(u)]_vars

\* Every poll and every command ends (ble.py:132-159).
EveryUserEnds == \A u \in Users : []<>At(u, "ended")
=============================================================================
