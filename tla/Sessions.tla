------------------------------ MODULE Sessions -------------------------------
(***************************************************************************)
(* The tokens of the two cloud clients: one Auth0 session that Ayla and    *)
(* AWS share (auth0.py), and the Ayla session got with it (ayla.py).       *)
(* Requests run at the same time, meet tokens that expired or were         *)
(* revoked, renew them under two locks, and may be given up anywhere.      *)
(*                                                                         *)
(* Tokens are only told apart.  A queue is an asyncio.Lock: its first call *)
(* holds the lock, the others wait in order.                               *)
(***************************************************************************)
EXTENDS Integers, Sequences, SequencesExt

CONSTANTS
    Calls,                  \* requests that may be under way at once
    IdTokens, AccessTokens, \* what Auth0 and Ayla may issue
    NoToken,
    FirstGrant              \* how a region signs in: "pkce" (NA) or "password"

Locks == {"ayla", "auth"}

ASSUME TokensAssumption == NoToken \notin IdTokens \cup AccessTokens
ASSUME GrantAssumption == FirstGrant \in {"pkce", "password"}

VARIABLES
    cloud,                  \* per call: the cloud it is made to, "ayla" or "aws"
    idToken, idExpiring,    \* Auth0Session._id_token, and whether expires_at has passed
    session, expiring,      \* the access token of _ayla, and whether it expires
    valid,                  \* the tokens that the servers accept
    queue,                  \* per lock: who holds it and who waits for it
    pc,                     \* per call: what it does
    retried, resigned,      \* per call: the second attempt of _api, and of _login
    using, access,          \* per call: the id token and the access token it uses
    owed                    \* history, per call: it is owed an answer (see Recovers)

auth0 == <<idToken, idExpiring>>
ayla == <<session, expiring>>
attempts == <<retried, resigned>>
vars == <<cloud, auth0, ayla, valid, queue, pc, attempts, using, access, owed>>

Init ==
    /\ cloud \in [Calls -> {"ayla", "aws"}]
    /\ idToken = NoToken /\ idExpiring = FALSE
    /\ session = NoToken /\ expiring = FALSE
    /\ valid = {}
    /\ queue = [l \in Locks |-> <<>>]
    /\ pc = [c \in Calls |-> "ended"]
    /\ retried = [c \in Calls |-> FALSE] /\ resigned = [c \in Calls |-> FALSE]
    /\ using = [c \in Calls |-> NoToken] /\ access = [c \in Calls |-> NoToken]
    /\ owed = [c \in Calls |-> FALSE]
-----------------------------------------------------------------------------
(* The servers (external), and time.                                       *)

\* Everything is revoked: a sign-out, a new password.
Revoke ==
    /\ valid # {} /\ valid' = {}
    /\ owed' = [c \in Calls |-> FALSE]
    /\ UNCHANGED <<cloud, auth0, ayla, queue, pc, attempts, using, access>>

\* A token comes within a minute of its end.
Expire ==
    /\ \/ idToken # NoToken /\ idExpiring' = TRUE /\ UNCHANGED expiring
       \/ session # NoToken /\ expiring' = TRUE /\ UNCHANGED idExpiring
    /\ UNCHANGED <<cloud, idToken, session, valid, queue, pc, attempts, using, access, owed>>

\* A server issues a token that nobody has; those that nobody has any more are forgotten.
Held == {idToken, session} \cup {using[c] : c \in Calls} \cup {access[c] : c \in Calls}
New(tokens) == CHOOSE t \in tokens : t \notin Held
Issues(tokens) ==
    /\ tokens \ Held # {}
    /\ valid' = (valid \cap Held) \cup {New(tokens)}
-----------------------------------------------------------------------------
(* Steps of a call.                                                        *)

Goes(c, to) == pc' = [pc EXCEPT ![c] = to]
At(c, at) == pc[c] = at
Holds(c, l) == queue[l] # <<>> /\ Head(queue[l]) = c
Waits(c, l, for) == Goes(c, for) /\ queue' = [queue EXCEPT ![l] = Append(@, c)]
Releases(l) == queue' = [queue EXCEPT ![l] = Tail(@)]

\* A queue without a call, if that is in it.
Without(q, c) ==
    IF \E i \in 1..Len(q) : q[i] = c
    THEN RemoveAt(q, CHOOSE i \in 1..Len(q) : q[i] = c) ELSE q

Forgets(c) ==
    /\ retried' = [retried EXCEPT ![c] = FALSE]
    /\ resigned' = [resigned EXCEPT ![c] = FALSE]
    /\ using' = [using EXCEPT ![c] = NoToken]
    /\ access' = [access EXCEPT ![c] = NoToken]

\* Mutant: a call that ends does not leave the Ayla lock.
EndsLocked(c) ==
    /\ Goes(c, "ended") /\ Forgets(c)
    /\ queue' = [queue EXCEPT !["auth"] = Without(@, c)]

\* `async with`: a call that ends, however it does, leaves the locks.
Ends(c) ==
    /\ Goes(c, "ended") /\ Forgets(c)
    /\ queue' = [l \in Locks |-> Without(queue[l], c)]

Begin(c) ==
    /\ At(c, "ended")
    /\ IF cloud[c] = "ayla" THEN Waits(c, "ayla", "ensure") ELSE Waits(c, "auth", "idToken")
    /\ owed' = [owed EXCEPT ![c] = TRUE]
    /\ UNCHANGED <<cloud, auth0, ayla, valid, attempts, using, access>>

\* A request fails, the credentials are refused, or the call is cancelled.
GivesUp(c) ==
    /\ ~At(c, "ended")
    /\ Ends(c)
    /\ owed' = [owed EXCEPT ![c] = FALSE]
    /\ UNCHANGED <<cloud, auth0, ayla, valid>>

\* `_ensure_session`
Ensure(c) ==
    /\ At(c, "ensure") /\ Holds(c, "ayla")
    /\ \/ /\ session = NoToken
          /\ Waits(c, "auth", "idToken")
          /\ resigned' = [resigned EXCEPT ![c] = FALSE] /\ UNCHANGED access
       \/ /\ session # NoToken /\ expiring
          /\ Goes(c, "refreshing") /\ UNCHANGED <<queue, resigned, access>>
       \/ /\ session # NoToken /\ ~expiring
          /\ Goes(c, "request") /\ Releases("ayla")
          /\ access' = [access EXCEPT ![c] = session] /\ UNCHANGED resigned
    /\ UNCHANGED <<cloud, auth0, ayla, valid, retried, using, owed>>

\* `_store_session`, and the request with its token.
StoreSession(c) ==
    /\ Issues(AccessTokens)
    /\ session' = New(AccessTokens) /\ expiring' = FALSE
    /\ access' = [access EXCEPT ![c] = session']
    /\ using' = [using EXCEPT ![c] = NoToken]
    /\ Goes(c, "request") /\ Releases("ayla")

\* `_refresh`
Refreshed(c) ==
    /\ At(c, "refreshing") /\ StoreSession(c)
    /\ UNCHANGED <<cloud, auth0, attempts, owed>>

\* Mutant: a refusal of the refresh token is an error.
RefreshRefusedFinal(c) ==
    /\ At(c, "refreshing") /\ Ends(c)
    /\ UNCHANGED <<cloud, auth0, ayla, valid, owed>>

RefreshRefused(c) ==
    /\ At(c, "refreshing")
    /\ Waits(c, "auth", "idToken")
    /\ resigned' = [resigned EXCEPT ![c] = FALSE]
    /\ UNCHANGED <<cloud, auth0, ayla, valid, retried, using, access, owed>>

\* Mutant: the id token is used with the lock still held.
UsesIdInside(c, t) ==
    /\ using' = [using EXCEPT ![c] = t]
    /\ Goes(c, IF cloud[c] = "ayla" THEN "signIn" ELSE "request")
    /\ UNCHANGED queue

\* The id token is there: Ayla signs in with it, AWS asks with it.
UsesId(c, t) ==
    /\ using' = [using EXCEPT ![c] = t]
    /\ Goes(c, IF cloud[c] = "ayla" THEN "signIn" ELSE "request")
    /\ Releases("auth")

\* `id_token`
GetIdToken(c) ==
    /\ At(c, "idToken") /\ Holds(c, "auth")
    /\ IF idToken = NoToken \/ idExpiring
       THEN Goes(c, FirstGrant) /\ UNCHANGED <<queue, using>>
       ELSE UsesId(c, idToken)
    /\ UNCHANGED <<cloud, auth0, ayla, valid, attempts, access, owed>>

\* Mutant: a rejected token is renewed without a look at what came in its place.
RenewAlways(c) ==
    /\ At(c, "renew") /\ Holds(c, "auth")
    /\ Goes(c, FirstGrant)
    /\ UNCHANGED <<cloud, auth0, ayla, valid, queue, attempts, using, access, owed>>

\* `refresh`
Renew(c) ==
    /\ At(c, "renew") /\ Holds(c, "auth")
    /\ IF idToken \in {NoToken, using[c]}
       THEN Goes(c, FirstGrant) /\ UNCHANGED <<queue, using>>
       ELSE UsesId(c, idToken)
    /\ UNCHANGED <<cloud, auth0, ayla, valid, attempts, access, owed>>

\* `_grant`: the password grant, which may be refused as a bot's, and the PKCE login.
GrantRefused(c) ==
    /\ At(c, "password") /\ Goes(c, "pkce")
    /\ UNCHANGED <<cloud, auth0, ayla, valid, queue, attempts, using, access, owed>>

\* `_store`
Granted(c) ==
    /\ pc[c] \in {"password", "pkce"}
    /\ Issues(IdTokens)
    /\ idToken' = New(IdTokens) /\ idExpiring' = FALSE
    /\ UsesId(c, idToken')
    /\ UNCHANGED <<cloud, ayla, attempts, access, owed>>

\* `_login`, with the Ayla lock held.
SignedIn(c) ==
    /\ At(c, "signIn") /\ using[c] \in valid
    /\ StoreSession(c)
    /\ UNCHANGED <<cloud, auth0, attempts, owed>>

SignInRejected(c) ==
    /\ At(c, "signIn") /\ using[c] \notin valid /\ ~resigned[c]
    /\ Waits(c, "auth", "renew")
    /\ resigned' = [resigned EXCEPT ![c] = TRUE]
    /\ UNCHANGED <<cloud, auth0, ayla, valid, retried, using, access, owed>>

Token(c) == IF cloud[c] = "ayla" THEN access[c] ELSE using[c]

\* `_api` of either client.
Answered(c) ==
    /\ At(c, "request") /\ Token(c) \in valid
    /\ Ends(c)
    /\ owed' = [owed EXCEPT ![c] = FALSE]
    /\ UNCHANGED <<cloud, auth0, ayla, valid>>

\* Mutant: the second attempt is made like the first.
RejectedUncounted(c) ==
    /\ At(c, "request") /\ Token(c) \notin valid /\ ~retried[c]
    /\ IF cloud[c] = "ayla" THEN Waits(c, "ayla", "discard") ELSE Waits(c, "auth", "renew")
    /\ UNCHANGED <<cloud, auth0, ayla, valid, attempts, using, access, owed>>

Rejected(c) ==
    /\ At(c, "request") /\ Token(c) \notin valid /\ ~retried[c]
    /\ IF cloud[c] = "ayla" THEN Waits(c, "ayla", "discard") ELSE Waits(c, "auth", "renew")
    /\ retried' = [retried EXCEPT ![c] = TRUE]
    /\ UNCHANGED <<cloud, auth0, ayla, valid, resigned, using, access, owed>>

\* A second rejection is an error.
Fails(c) ==
    /\ \/ At(c, "signIn") /\ using[c] \notin valid /\ resigned[c]
       \/ At(c, "request") /\ Token(c) \notin valid /\ retried[c]
    /\ Ends(c)
    /\ UNCHANGED <<cloud, auth0, ayla, valid, owed>>

\* The lock is left and taken anew for the second attempt.
Again(c) ==
    /\ Goes(c, "ensure")
    /\ queue' = [queue EXCEPT !["ayla"] = Append(Tail(@), c)]

Discard(c) ==
    /\ At(c, "discard") /\ Holds(c, "ayla")
    /\ IF session = access[c] THEN session' = NoToken /\ expiring' = FALSE ELSE UNCHANGED ayla
    /\ Again(c)
    /\ UNCHANGED <<cloud, auth0, valid, attempts, using, access, owed>>
-----------------------------------------------------------------------------
Proceeds(c) ==
    \/ Ensure(c) \/ Refreshed(c) \/ RefreshRefused(c)
    \/ GetIdToken(c) \/ Renew(c) \/ GrantRefused(c) \/ Granted(c)
    \/ SignedIn(c) \/ SignInRejected(c)
    \/ Answered(c) \/ Rejected(c) \/ Fails(c) \/ Discard(c)

Next ==
    \/ Revoke \/ Expire
    \/ \E c \in Calls : Begin(c) \/ GivesUp(c) \/ Proceeds(c)

Spec == Init /\ [][Next]_vars

\* Every request has a time limit of 20 s: what a call does goes on, or it gives up.
FairSpec == Spec /\ \A c \in Calls : WF_vars(Proceeds(c))
-----------------------------------------------------------------------------
TypeOK ==
    /\ cloud \in [Calls -> {"ayla", "aws"}]
    /\ idToken \in IdTokens \cup {NoToken} /\ session \in AccessTokens \cup {NoToken}
    /\ idExpiring \in BOOLEAN /\ expiring \in BOOLEAN
    /\ valid \subseteq IdTokens \cup AccessTokens
    /\ queue \in [Locks -> Seq(Calls)]
    /\ pc \in [Calls -> {"ended", "ensure", "refreshing", "idToken", "renew",
                         "password", "pkce", "signIn", "request", "discard"}]
    /\ retried \in [Calls -> BOOLEAN] /\ resigned \in [Calls -> BOOLEAN]
    /\ using \in [Calls -> IdTokens \cup {NoToken}]
    /\ access \in [Calls -> AccessTokens \cup {NoToken}]
    /\ owed \in [Calls -> BOOLEAN]

\* A token that the server accepts and that is not about to expire is neither replaced
\* nor thrown away, whoever met a rejection of an earlier one: one renewal serves all
\* (auth0.py:98-99, ayla.py:141-145).
FreshKept ==
    [][/\ idToken \in valid /\ ~idExpiring => idToken' = idToken
       /\ session \in valid /\ ~expiring => session' = session]_vars

\* Whatever was revoked or expired before, and whatever the other requests do meanwhile,
\* a request that is not itself lost and during which nothing is revoked succeeds: the
\* second attempts of _api, _refresh and _login are enough together (ayla.py:80-146).
Recovers == \A c \in Calls : pc[c] = "ended" => ~owed[c]

\* The locks are taken in one order: whoever holds that of Auth0 waits for no lock, who
\* holds that of Ayla at most for that of Auth0, and nobody keeps a lock beyond its end,
\* however it ends. So calls never wait for each other in a circle (ayla.py:118-145,
\* auth0.py:90-104).
LocksOrdered ==
    \A l \in Locks : queue[l] # <<>> =>
        LET holder == Head(queue[l])
        IN  /\ ~At(holder, "ended")
            /\ \A k \in Locks :
                  (\E i \in 2..Len(queue[k]) : queue[k][i] = holder) => <<l, k>> = <<"ayla", "auth">>

\* How much of a request can still come: two attempts (_api), in each of which Ayla may
\* refresh, sign in and sign in anew (_refresh, _login), with two grants to ask for.
Signing == {"idToken", "renew", "password", "pkce", "signIn"}
Stage == [ended |-> 0, request |-> 1, signIn |-> 2, pkce |-> 3, password |-> 4, renew |-> 5,
          idToken |-> 5, refreshing |-> 10, ensure |-> 11, discard |-> 12]
ToCome(c) ==
    IF At(c, "ended") THEN 0
    ELSE Stage[pc[c]] + (IF pc[c] \in Signing /\ ~resigned[c] THEN 4 ELSE 0)
                      + (IF retried[c] THEN 0 ELSE 12)

\* No request tries for ever: whatever is revoked, refused or replaced by others meanwhile,
\* each of its own steps leaves it less to come, so that it takes at most 23 of them
\* (ayla.py:80-146, aws.py:215-227).
AttemptsBounded == [][\A c \in Calls : Proceeds(c) => ToCome(c)' \in 0..(ToCome(c) - 1)]_vars

\* Every request comes to an end, with the two locks taken one inside the other and
\* left through errors (ayla.py:118-125, auth0.py:90-104).
EveryCallEnds == \A c \in Calls : []<>(pc[c] = "ended")
=============================================================================
