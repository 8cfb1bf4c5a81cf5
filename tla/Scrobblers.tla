----------------------------- MODULE Scrobblers -----------------------------
(* The scrobbler-compatible APIs: how a client comes by a credential (a     *)
(* token made on the web, a Last.fm browser authorization, a password       *)
(* login, an Audioscrobbler handshake), and how what it submits is counted  *)
(* against the account's allowance of the day, stored and answered, with    *)
(* answers that are lost, statements that fail and servers that stop.       *)
EXTENDS Integers, FiniteSets

CONSTANTS
    Users,
    ApiKeys,          \* Last.fm API keys
    AuthTokens,       \* tokens of browser authorizations, never drawn twice
    CredentialIds,    \* never drawn twice either
    Handshakes,       \* auth parameters of Audioscrobbler handshakes
    PlayerSessions,   \* sessions of Audioscrobbler
    Submitters,       \* client programs; one request each at a time
    Played,           \* plays: an artist, a title and a time
    Skipped,          \* of them, those an Audioscrobbler client rated as skipped
    Invalid,          \* of them, those that are malformed, too old or too new
    DAILY_LIMIT,      \* scrobbles per account and day
    MaxCompatEvents,  \* bound: changes of accounts, days and credentials
    MaxFailures,      \* bound: failures, lost answers and stops
    MaxCounted        \* bound: no request is sent once the counter got there

\* Plays have times to be ordered by, and no token is empty.
ASSUME ScrobblersConstants ==
    /\ IsFiniteSet(Submitters)
    /\ Played \subseteq Nat /\ IsFiniteSet(Played)
    /\ DAILY_LIMIT \in Nat
    /\ "" \notin AuthTokens

VARIABLES
    authorizations,   \* token -> its row, or undrawn or gone
    scrobblerCredentials, \* id -> its row, or undrawn or gone
    players,          \* Audioscrobbler sessions in Redis: -> a credential
    burnt,            \* handshakes used
    leaving,          \* accounts whose deletion was asked for
    allowance,        \* the counter of the day, in Redis
    stored,           \* scrobbles of each account
    call,             \* call[r]: the submitter's request
    outbox,           \* plays the client still has to deliver
    compatEvents, failures,
    charged,          \* history: plays stored on the counter of the day
    uncounted,        \* history: a count failed today
    sessionsOf,       \* history: sessions issued for each token
    told              \* history: plays the client was told were accepted

access == <<authorizations, scrobblerCredentials, players, burnt, leaving, sessionsOf>>
books == <<allowance, stored, charged, uncounted>>
scrobblersVars == <<access, books, call, outbox, compatEvents, failures, told>>

Undrawn == [is |-> "undrawn", user |-> 0, key |-> "", expired |-> FALSE]
Gone == [Undrawn EXCEPT !.is = "gone"]
NoCredential == [is |-> "undrawn", user |-> 0, key |-> ""]
Revoked == [NoCredential EXCEPT !.is = "gone"]
NoSubmission == [at |-> "idle", user |-> 0, key |-> "", token |-> "", whole |-> FALSE,
                 batch |-> {}, left |-> {}, refused |-> {}, unused |-> {}, today |-> TRUE]

ScrobblersInit ==
    /\ authorizations = [t \in AuthTokens |-> Undrawn]
    /\ scrobblerCredentials = [c \in CredentialIds |-> NoCredential]
    /\ players = [s \in PlayerSessions |-> "none"]
    /\ burnt = {} /\ leaving = {}
    /\ allowance = [u \in Users |-> 0]
    /\ stored = [u \in Users |-> {}]
    /\ call = [r \in Submitters |-> NoSubmission]
    /\ outbox = [r \in Submitters |-> Played]
    /\ compatEvents = 0 /\ failures = 0
    /\ charged = [u \in Users |-> {}] /\ uncounted = {}
    /\ sessionsOf = [t \in AuthTokens |-> 0]
    /\ told = [u \in Users |-> {}]

CompatEvent == compatEvents < MaxCompatEvents /\ compatEvents' = compatEvents + 1
Failure == failures < MaxFailures /\ failures' = failures + 1
Row(c) == scrobblerCredentials[c].is \in {"token", "session"}

-----------------------------------------------------------------------------
(* Authorizations and credentials.                                          *)

\* auth.getToken: pending until someone approves it
GetToken(t, k) ==
    /\ CompatEvent
    /\ authorizations[t] = Undrawn
    /\ authorizations' = [authorizations EXCEPT ![t] = [Undrawn EXCEPT !.is = "row", !.key = k]]
    /\ UNCHANGED <<scrobblerCredentials, players, burnt, leaving, sessionsOf, books, call,
                   outbox, failures, told>>

\* The web flow's token is approved as it is made.
AuthorizeCallback(t, k, u) ==
    /\ CompatEvent
    /\ authorizations[t] = Undrawn /\ u \notin leaving
    /\ authorizations' = [authorizations EXCEPT ![t] =
           [is |-> "row", user |-> u, key |-> k, expired |-> FALSE]]
    /\ UNCHANGED <<scrobblerCredentials, players, burnt, leaving, sessionsOf, books, call,
                   outbox, failures, told>>

ApproveAuthorization(t, u) ==
    /\ CompatEvent
    /\ authorizations[t].is = "row" /\ authorizations[t].user = 0 /\ ~authorizations[t].expired
    /\ u \notin leaving
    /\ authorizations' = [authorizations EXCEPT ![t].user = u]
    /\ UNCHANGED <<scrobblerCredentials, players, burnt, leaving, sessionsOf, books, call,
                   outbox, failures, told>>

\* An hour, or ten minutes in the web flow; the worker's cleanup comes later.
Expire(t) ==
    /\ CompatEvent
    /\ authorizations[t].is = "row"
    /\ authorizations' = [authorizations EXCEPT
           ![t] = IF @.expired THEN Gone ELSE [@ EXCEPT !.expired = TRUE]]
    /\ UNCHANGED <<scrobblerCredentials, players, burnt, leaving, sessionsOf, books, call,
                   outbox, failures, told>>

Takeable(t, k) ==
    /\ authorizations[t].is = "row" /\ authorizations[t].key = k
    /\ authorizations[t].user # 0 /\ ~authorizations[t].expired

\* Variant: the row is read here, and deleted with the session.
ReadAuthorization(r, t, k) ==
    /\ call[r].at = "idle" /\ Takeable(t, k)
    /\ call' = [call EXCEPT ![r] =
           [NoSubmission EXCEPT !.at = "trusted", !.token = t, !.key = k,
                                !.user = authorizations[t].user]]
    /\ UNCHANGED <<access, books, outbox, compatEvents, failures, told>>

\* take_authorization: one DELETE ... RETURNING
TakeAuthorization(r, t, k) ==
    /\ call[r].at = "idle" /\ Takeable(t, k)
    /\ authorizations' = [authorizations EXCEPT ![t] = Gone]
    /\ call' = [call EXCEPT ![r] =
           [NoSubmission EXCEPT !.at = "trusted", !.token = t, !.key = k,
                                !.user = authorizations[t].user]]
    /\ UNCHANGED <<scrobblerCredentials, players, burnt, leaving, sessionsOf, books, outbox,
                   compatEvents, failures, told>>

\* password_login with the account's password, which restores no account
LogIn(r, u, k) ==
    /\ CompatEvent
    /\ call[r].at = "idle" /\ u \notin leaving
    /\ call' = [call EXCEPT ![r] =
           [NoSubmission EXCEPT !.at = "trusted", !.user = u, !.key = k]]
    /\ UNCHANGED <<access, books, outbox, failures, told>>

\* issue_credential, for the authorization taken or the password verified
IssueSession(r, c) ==
    /\ call[r].at = "trusted" /\ scrobblerCredentials[c] = NoCredential
    /\ scrobblerCredentials' = [scrobblerCredentials EXCEPT ![c] =
           [is |-> "session", user |-> call[r].user, key |-> call[r].key]]
    /\ sessionsOf' = [t \in AuthTokens |->
                          sessionsOf[t] + IF call[r].token = t THEN 1 ELSE 0]
    /\ call' = [call EXCEPT ![r] = NoSubmission]
    /\ UNCHANGED <<authorizations, players, burnt, leaving, books, outbox, compatEvents,
                   failures, told>>

CreateToken(u, c) ==
    /\ CompatEvent
    /\ u \notin leaving /\ scrobblerCredentials[c] = NoCredential
    /\ scrobblerCredentials' = [scrobblerCredentials EXCEPT ![c] =
           [is |-> "token", user |-> u, key |-> ""]]
    /\ UNCHANGED <<authorizations, players, burnt, leaving, sessionsOf, books, call, outbox,
                   failures, told>>

Revoke(c) ==
    /\ CompatEvent
    /\ Row(c)
    /\ scrobblerCredentials' = [scrobblerCredentials EXCEPT ![c] = Revoked]
    /\ UNCHANGED <<authorizations, players, burnt, leaving, sessionsOf, books, call, outbox,
                   failures, told>>

\* schedule_deletion, of what the scrobblers hold; a login restores.
AskDeletion(u) ==
    /\ CompatEvent
    /\ leaving' = IF u \in leaving THEN leaving \ {u} ELSE leaving \cup {u}
    /\ authorizations' = [t \in AuthTokens |->
           IF u \notin leaving /\ authorizations[t].user = u THEN Gone ELSE authorizations[t]]
    /\ scrobblerCredentials' = [c \in CredentialIds |->
           IF u \notin leaving /\ Row(c) /\ scrobblerCredentials[c].user = u
           THEN Revoked ELSE scrobblerCredentials[c]]
    /\ UNCHANGED <<players, burnt, sessionsOf, books, call, outbox, failures, told>>

\* A token's md5 proves it, once for each auth parameter; a session key is
\* sent as it is.
Handshake(s, c, h) ==
    /\ CompatEvent
    /\ Row(c) /\ players[s] = "none"
    /\ scrobblerCredentials[c].is = "token" => h \notin burnt
    /\ burnt' = IF scrobblerCredentials[c].is = "token" THEN burnt \cup {h} ELSE burnt
    /\ players' = [players EXCEPT ![s] = c]
    /\ UNCHANGED <<authorizations, scrobblerCredentials, leaving, sessionsOf, books, call,
                   outbox, failures, told>>

\* 24 hours without a request
PlayerSessionEnds(s) ==
    /\ CompatEvent
    /\ players[s] # "none"
    /\ players' = [players EXCEPT ![s] = "none"]
    /\ UNCHANGED <<authorizations, scrobblerCredentials, burnt, leaving, sessionsOf, books, call,
                   outbox, failures, told>>

-----------------------------------------------------------------------------
(* A submission.                                                            *)

\* Everything the client has goes in one request.
LastfmEntries(r) == outbox[r]
Listened(r) == outbox[r] \ Skipped

\* Sent as the user of c; whole says the protocol answers for all of it at
\* once.
BeginSubmission(r, c, batch, whole) ==
    /\ Row(c)
    /\ call[r].at = "idle" /\ outbox[r] # {}
    /\ allowance[scrobblerCredentials[c].user] < MaxCounted
    /\ call' = [call EXCEPT ![r] =
           [NoSubmission EXCEPT !.at = "read", !.user = scrobblerCredentials[c].user,
                                !.batch = batch, !.whole = whole]]
    /\ UNCHANGED <<access, books, outbox, compatEvents, failures, told>>

\* track.scrobble: a session key works with the api_key it was issued to.
LastfmScrobble(r, c, k) ==
    /\ scrobblerCredentials[c].is = "session" => scrobblerCredentials[c].key = k
    /\ BeginSubmission(r, c, LastfmEntries(r), FALSE)

\* submit-listens with a token; the Audioscrobbler session names a credential.
SubmitListens(r, c) == BeginSubmission(r, c, outbox[r], TRUE)
Submissions(r, s) == players[s] # "none" /\ BeginSubmission(r, players[s], Listened(r), TRUE)

\* precheck, and the plays the allowance leaves, in order
Usable(batch) == batch \ Invalid
Over(count, wanted) ==
    IF count <= DAILY_LIMIT THEN 0
    ELSE IF count - DAILY_LIMIT > wanted THEN wanted ELSE count - DAILY_LIMIT
FirstOf(plays, n) == {p \in plays : Cardinality({q \in plays : q < p}) < n}

Granted(r, granted) ==
    LET wanted == Usable(call[r].batch) IN
    call' = [call EXCEPT ![r] = [@ EXCEPT !.at = "granted", !.left = FirstOf(wanted, granted),
                                          !.refused = wanted \ FirstOf(wanted, granted)]]

\* reserve_scrobbles: counted first, refused plays included
Reserve(r) ==
    /\ call[r].at = "read"
    /\ LET wanted == Cardinality(Usable(call[r].batch))
           count == allowance[call[r].user] + wanted IN
       /\ Granted(r, wanted - Over(count, wanted))
       /\ allowance' = [allowance EXCEPT ![call[r].user] = count]
    /\ UNCHANGED <<access, stored, charged, uncounted, outbox, compatEvents, failures, told>>

\* Without Redis, all are granted, and none is counted.
ReserveUncounted(r) ==
    /\ Failure
    /\ call[r].at = "read"
    /\ Granted(r, Cardinality(Usable(call[r].batch)))
    /\ uncounted' = uncounted \cup {call[r].user}
    /\ UNCHANGED <<access, allowance, stored, charged, outbox, compatEvents, told>>

\* Quota::release, on the key of the day it was reserved from
Release(r, n) ==
    allowance' = IF call[r].today THEN [allowance EXCEPT ![call[r].user] = @ - n]
                                  ELSE allowance

\* ingest_scrobble; a play stored already is a duplicate, and accepted
StoreNext(r) ==
    /\ call[r].at = "granted" /\ call[r].left # {}
    /\ LET p == CHOOSE q \in call[r].left : \A o \in call[r].left : q <= o
           u == call[r].user
           new == p \notin stored[u] IN
       /\ stored' = [stored EXCEPT ![u] = @ \cup {p}]
       /\ charged' = IF new /\ call[r].today THEN [charged EXCEPT ![u] = @ \cup {p}]
                                             ELSE charged
       /\ call' = [call EXCEPT ![r].left = @ \ {p},
                               ![r].unused = IF new THEN @ ELSE @ \cup {p}]
    /\ UNCHANGED <<access, allowance, uncounted, outbox, compatEvents, failures, told>>

\* A statement fails: what was not stored is given back, and the client
\* keeps the batch.
StoreFails(r) ==
    /\ Failure
    /\ call[r].at = "granted" /\ call[r].left # {}
    /\ Release(r, Cardinality(call[r].unused) + Cardinality(call[r].left))
    /\ call' = [call EXCEPT ![r] = NoSubmission]
    /\ UNCHANGED <<access, stored, charged, uncounted, outbox, compatEvents, told>>

Accepted(r) == Usable(call[r].batch) \ call[r].refused

\* Each play's outcome; or, for all of them, OK, or that the day's limit is
\* reached, which the client answers by sending all of them again.
Heard(r) == IF call[r].whole /\ call[r].refused # {} THEN {} ELSE Accepted(r)
Dropped(r) ==
    IF ~call[r].whole THEN call[r].batch \ call[r].refused
    ELSE IF call[r].refused = {} THEN outbox[r] ELSE {}

AnswerClient(r) ==
    /\ call[r].at = "granted" /\ call[r].left = {}
    /\ Release(r, Cardinality(call[r].unused))
    /\ outbox' = [outbox EXCEPT ![r] = @ \ Dropped(r)]
    /\ told' = [told EXCEPT ![call[r].user] = @ \cup Heard(r)]
    /\ call' = [call EXCEPT ![r] = NoSubmission]
    /\ UNCHANGED <<access, stored, charged, uncounted, compatEvents, failures>>

AnswerLost(r) ==
    /\ Failure
    /\ call[r].at = "granted" /\ call[r].left = {}
    /\ Release(r, Cardinality(call[r].unused))
    /\ call' = [call EXCEPT ![r] = NoSubmission]
    /\ UNCHANGED <<access, stored, charged, uncounted, outbox, compatEvents, told>>

\* The server stops: nothing is given back.
ServerStops(r) ==
    /\ Failure
    /\ call[r].at # "idle"
    /\ call' = [call EXCEPT ![r] = NoSubmission]
    /\ UNCHANGED <<access, books, outbox, compatEvents, told>>

\* A new day has a counter of its own.
Midnight ==
    /\ CompatEvent
    /\ allowance' = [u \in Users |-> 0]
    /\ charged' = [u \in Users |-> {}] /\ uncounted' = {}
    /\ call' = [r \in Submitters |->
                    IF call[r].at = "granted" THEN [call[r] EXCEPT !.today = FALSE] ELSE call[r]]
    /\ UNCHANGED <<access, stored, outbox, failures, told>>

ScrobblersNext ==
    \/ \E t \in AuthTokens, k \in ApiKeys : GetToken(t, k)
    \/ \E t \in AuthTokens, k \in ApiKeys, u \in Users : AuthorizeCallback(t, k, u)
    \/ \E t \in AuthTokens, u \in Users : ApproveAuthorization(t, u)
    \/ \E t \in AuthTokens : Expire(t)
    \/ \E r \in Submitters, t \in AuthTokens, k \in ApiKeys : TakeAuthorization(r, t, k)
    \/ \E r \in Submitters, u \in Users, k \in ApiKeys : LogIn(r, u, k)
    \/ \E r \in Submitters, c \in CredentialIds : IssueSession(r, c)
    \/ \E u \in Users, c \in CredentialIds : CreateToken(u, c)
    \/ \E c \in CredentialIds : Revoke(c)
    \/ \E u \in Users : AskDeletion(u)
    \/ \E s \in PlayerSessions, c \in CredentialIds, h \in Handshakes : Handshake(s, c, h)
    \/ \E s \in PlayerSessions : PlayerSessionEnds(s)
    \/ \E r \in Submitters, c \in CredentialIds, k \in ApiKeys : LastfmScrobble(r, c, k)
    \/ \E r \in Submitters, c \in CredentialIds : SubmitListens(r, c)
    \/ \E r \in Submitters, s \in PlayerSessions : Submissions(r, s)
    \/ \E r \in Submitters : Reserve(r)
    \/ \E r \in Submitters : ReserveUncounted(r)
    \/ \E r \in Submitters : StoreNext(r)
    \/ \E r \in Submitters : StoreFails(r)
    \/ \E r \in Submitters : AnswerClient(r)
    \/ \E r \in Submitters : AnswerLost(r)
    \/ \E r \in Submitters : ServerStops(r)
    \/ Midnight

ScrobblersSpec == ScrobblersInit /\ [][ScrobblersNext]_scrobblersVars

-----------------------------------------------------------------------------
Authorizations == [is : {"undrawn", "row", "gone"}, user : Users \cup {0},
                   key : ApiKeys \cup {""}, expired : BOOLEAN]
Credentials == [is : {"undrawn", "token", "session", "gone"}, user : Users \cup {0},
                key : ApiKeys \cup {""}]
Calls == [at : {"idle", "trusted", "read", "granted"}, user : Users \cup {0},
          key : ApiKeys \cup {""}, token : AuthTokens \cup {""}, whole : BOOLEAN,
          batch : SUBSET Played, left : SUBSET Played, refused : SUBSET Played,
          unused : SUBSET Played, today : BOOLEAN]

ScrobblersTypeOK ==
    /\ authorizations \in [AuthTokens -> Authorizations]
    /\ scrobblerCredentials \in [CredentialIds -> Credentials]
    /\ players \in [PlayerSessions -> CredentialIds \cup {"none"}]
    /\ burnt \subseteq Handshakes /\ leaving \subseteq Users /\ uncounted \subseteq Users
    /\ allowance \in [Users -> Int]
    /\ stored \in [Users -> SUBSET Played]
    /\ charged \in [Users -> SUBSET Played] /\ told \in [Users -> SUBSET Played]
    /\ call \in [Submitters -> Calls] /\ outbox \in [Submitters -> SUBSET Played]
    /\ sessionsOf \in [AuthTokens -> Nat]
    /\ compatEvents \in Nat /\ failures \in Nat

\* An account has no more plays recorded on a day's counter than the limit,
\* whatever is retried, given back or in flight at midnight, unless a count
\* failed that day (limits.rs, reserve_scrobbles and Quota).
DailyLimitHolds == \A u \in Users \ uncounted : Cardinality(charged[u]) <= DAILY_LIMIT

\* What a client was told was accepted is stored, so it may forget it.
ToldIsStored == \A u \in Users : told[u] \subseteq stored[u]

\* A browser authorization is traded for one session at most
\* (scrobblers.rs, take_authorization: "a token yields one session at most").
OneSessionPerToken == \A t \in AuthTokens : sessionsOf[t] <= 1

\* The three, and the types, as one invariant of the protocols: they hold
\* through lost answers, failures, retries and midnight (limits.rs, compat/,
\* scrobblers.rs).
SubmissionsHold == ScrobblersTypeOK /\ DailyLimitHolds /\ ToldIsStored /\ OneSessionPerToken

\* What the documentation of schedule_deletion says, and the code does not
\* keep: an account being deleted has no credential that acts as it.
DeletionEndsScrobblers ==
    \A c \in CredentialIds : Row(c) => scrobblerCredentials[c].user \notin leaving

\* What the documentation of release says, and the code does not keep: once
\* no request is in progress, plays that were not recorded are not counted.
OnlyRecordedCount ==
    (failures = 0 /\ \A r \in Submitters : call[r].at = "idle") =>
        \A u \in Users : allowance[u] <= Cardinality(charged[u])
                         \/ Cardinality(charged[u]) >= DAILY_LIMIT
=============================================================================
