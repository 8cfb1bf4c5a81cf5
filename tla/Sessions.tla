------------------------------- MODULE Sessions -------------------------------
(* The sessions and API tokens of one account, and the cache a session is   *)
(* looked up in: a lookup reads the row and fills the cache in two steps, a *)
(* logout deletes the row and removes the cache entry in two steps, and an  *)
(* account's deletion ends every credential at once.                        *)
EXTENDS Integers, FiniteSets

CONSTANTS
    Requests,             \* requests in progress
    SESSION_CACHE_SECS,   \* ticks a lookup stays cached
    SESSION_LIFE,         \* ticks a session lasts
    MaxSessionTime,       \* bound: ticks
    MaxCredentials        \* bound: sessions and API tokens

ASSUME SessionsAssumption ==
    /\ SESSION_CACHE_SECS \in Nat \ {0} /\ SESSION_LIFE \in Nat
    /\ MaxSessionTime \in Nat \ {0} /\ MaxCredentials \in Nat

VARIABLES
    now,                  \* ticks
    sessions,             \* rows of user_sessions: <<id, expires_at>>
    tokens,               \* ids of api_tokens
    credentials,          \* credentials so far: the number of the next
    cached,               \* cached[id]: when the Redis entry ends, 0 for none
    deletion,             \* users.delete_after, erase_started_at
    login,                \* the login in progress
    caller,               \* caller[r]: a request in progress
    endedAt,              \* history: endedAt[id], when the row was deleted
    lingering,            \* history: ended, and their entry could not be removed
    overtaken,            \* history: ended while a lookup held their row
    strays                \* history: credentials of makers let in earlier, and
                          \* those made with such a credential

sessionVars == <<now, sessions, tokens, credentials, cached, deletion, login, caller,
                 endedAt, lingering, overtaken, strays>>
history == <<endedAt, lingering, overtaken, strays>>

Ids == 1..MaxCredentials
Call(at, id, expires, ended, stale) ==
    [at |-> at, id |-> id, expires |-> expires, ended |-> ended, stale |-> stale]
NoCall == Call("idle", 0, 0, {}, FALSE)
NoLogin == [at |-> "idle", stale |-> FALSE]

SessionsInit ==
    /\ now = 1
    /\ sessions = {}
    /\ tokens = {}
    /\ credentials = 0
    /\ cached = [i \in Ids |-> 0]
    /\ deletion = "none"
    /\ login = NoLogin
    /\ caller = [r \in Requests |-> NoCall]
    /\ endedAt = [i \in Ids |-> 0]
    /\ lingering = {}
    /\ overtaken = {}
    /\ strays = {}

Alive(id) == \E s \in sessions : s[1] = id /\ s[2] > now
Hit(id) == cached[id] > now
SessionIds == {s[1] : s \in sessions}

SecondPasses ==
    /\ now < MaxSessionTime
    /\ now' = now + 1
    /\ cached' = [i \in Ids |-> IF cached[i] > now' THEN cached[i] ELSE 0]
    /\ UNCHANGED <<sessions, tokens, credentials, deletion, login, caller, history>>

-----------------------------------------------------------------------------
(* Logging in.                                                              *)

\* verify_password_login: the row it read is what the login goes by.
VerifyPassword ==
    /\ login.at = "idle" /\ credentials < MaxCredentials
    /\ login' = [at |-> IF deletion = "none" THEN "create" ELSE "restore", stale |-> FALSE]
    /\ UNCHANGED <<now, sessions, tokens, credentials, cached, deletion, caller, history>>

\* restore, which fails once the erase has begun or when another login
\* restored the account meanwhile.
RestoreAccount ==
    /\ login.at = "restore"
    /\ deletion' = IF deletion = "scheduled" THEN "none" ELSE deletion
    /\ login' = IF deletion = "scheduled" THEN [at |-> "create", stale |-> FALSE] ELSE NoLogin
    /\ UNCHANGED <<now, sessions, tokens, credentials, cached, caller, history>>

CreateSession ==
    /\ login.at = "create" /\ credentials < MaxCredentials
    /\ credentials' = credentials + 1
    /\ sessions' = sessions \cup {<<credentials + 1, now + SESSION_LIFE>>}
    /\ strays' = strays \cup (IF login.stale THEN {credentials + 1} ELSE {})
    /\ login' = NoLogin
    /\ UNCHANGED <<now, tokens, cached, deletion, caller, endedAt, lingering, overtaken>>

-----------------------------------------------------------------------------
(* A request made with a session.                                           *)

CacheHit(r, id) ==
    /\ caller[r].at = "idle" /\ Hit(id)
    /\ caller' = [caller EXCEPT ![r] = Call("in", id, 0, {}, ~Alive(id) \/ id \in strays)]
    /\ UNCHANGED <<now, sessions, tokens, credentials, cached, deletion, login, history>>

\* get_session, after a miss or with Redis away
ReadSession(r, id) ==
    /\ caller[r].at = "idle" /\ Alive(id)
    /\ \E s \in sessions :
          /\ s[1] = id
          /\ caller' = [caller EXCEPT ![r] = Call("fill", id, s[2], {}, id \in strays)]
    /\ UNCHANGED <<now, sessions, tokens, credentials, cached, deletion, login, history>>

Clamped(ttl) == IF ttl < 1 THEN 1 ELSE IF ttl > SESSION_CACHE_SECS THEN SESSION_CACHE_SECS ELSE ttl

\* The entry is set whatever became of the row; a failure to set it is let be.
FillCache(r) ==
    /\ caller[r].at = "fill"
    /\ \/ cached' = [cached EXCEPT ![caller[r].id] = now + Clamped(caller[r].expires - now)]
       \/ cached' = cached
    /\ caller' = [caller EXCEPT ![r] = Call("in", caller[r].id, 0, {}, caller[r].stale)]
    /\ UNCHANGED <<now, sessions, tokens, credentials, deletion, login, history>>

\* What becomes of history when the rows of ids are deleted.
Ended(ids) ==
    /\ endedAt' = [i \in Ids |-> IF i \in ids THEN now ELSE endedAt[i]]
    /\ overtaken' = overtaken \cup {i \in ids : \E q \in Requests :
                                       caller[q].at = "fill" /\ caller[q].id = i}

\* Variant: the ended sessions are not told to the caller that clears the cache.
ScheduleTellingNoSessions(r) ==
    /\ caller[r].at = "in"
    /\ deletion' = "scheduled"
    /\ sessions' = {} /\ tokens' = {}
    /\ Ended(SessionIds)
    /\ caller' = [caller EXCEPT ![r] = NoCall]
    /\ UNCHANGED <<now, credentials, cached, login, lingering, strays>>

\* logout: the session of the request, or every session of the user.
Logout(r, all) ==
    /\ caller[r].at = "in"
    /\ LET live == {i \in SessionIds : all \/ i = caller[r].id}
           ids == IF all THEN live ELSE {caller[r].id} IN
       /\ sessions' = {s \in sessions : s[1] \notin live}
       /\ Ended(live)
       /\ caller' = [caller EXCEPT ![r] = Call("remove", 0, 0, ids, FALSE)]
    /\ UNCHANGED <<now, tokens, credentials, cached, deletion, login, lingering, strays>>

\* schedule_deletion ends every credential in one transaction; makers of
\* credentials that were let in before go on.
ScheduleAccountDeletion(r) ==
    /\ caller[r].at = "in"
    /\ deletion' = IF deletion = "none" THEN "scheduled" ELSE deletion
    /\ sessions' = {} /\ tokens' = {}
    /\ Ended(SessionIds)
    /\ caller' = [q \in Requests |->
                     IF q = r THEN Call("remove", 0, 0, SessionIds, FALSE)
                     ELSE [caller[q] EXCEPT !.stale = caller[q].at \in {"fill", "in"}]]
    /\ login' = [login EXCEPT !.stale = login.at = "create"]
    /\ UNCHANGED <<now, credentials, cached, lingering, strays>>

\* One entry; when Redis is away it stays until it runs out.
RemoveEntry(r) ==
    /\ caller[r].at = "remove"
    /\ \E i \in caller[r].ended :
          /\ \/ cached' = [cached EXCEPT ![i] = 0] /\ lingering' = lingering
             \/ cached' = cached /\ lingering' = lingering \cup {i}
          /\ caller' = [caller EXCEPT ![r].ended = @ \ {i}]
    /\ UNCHANGED <<now, sessions, tokens, credentials, deletion, login, endedAt, overtaken, strays>>

CreateApiToken(r) ==
    /\ caller[r].at = "in" /\ credentials < MaxCredentials
    /\ credentials' = credentials + 1
    /\ tokens' = tokens \cup {credentials + 1}
    /\ strays' = strays \cup (IF caller[r].stale THEN {credentials + 1} ELSE {})
    /\ caller' = [caller EXCEPT ![r] = NoCall]
    /\ UNCHANGED <<now, sessions, cached, deletion, login, endedAt, lingering, overtaken>>

DeleteApiToken(r) ==
    /\ caller[r].at = "in"
    /\ \E t \in tokens : tokens' = tokens \ {t}
    /\ caller' = [caller EXCEPT ![r] = NoCall]
    /\ UNCHANGED <<now, sessions, credentials, cached, deletion, login, history>>

Answer(r) ==
    /\ \/ caller[r].at = "in"
       \/ caller[r].at = "remove" /\ caller[r].ended = {}
    /\ caller' = [caller EXCEPT ![r] = NoCall]
    /\ UNCHANGED <<now, sessions, tokens, credentials, cached, deletion, login, history>>

-----------------------------------------------------------------------------
(* The worker.                                                              *)

DeleteExpiredSessions ==
    /\ \E s \in sessions : s[2] <= now
    /\ sessions' = {s \in sessions : s[2] > now}
    /\ UNCHANGED <<now, tokens, credentials, cached, deletion, login, caller, history>>

BeginErase ==
    /\ deletion = "scheduled"
    /\ deletion' = "erasing"
    /\ UNCHANGED <<now, sessions, tokens, credentials, cached, login, caller, history>>

SessionsNext ==
    \/ SecondPasses \/ VerifyPassword \/ RestoreAccount \/ CreateSession
    \/ DeleteExpiredSessions \/ BeginErase
    \/ \E r \in Requests :
          \/ \E id \in Ids : CacheHit(r, id) \/ ReadSession(r, id)
          \/ FillCache(r)
          \/ \E all \in BOOLEAN : Logout(r, all)
          \/ ScheduleAccountDeletion(r) \/ RemoveEntry(r)
          \/ CreateApiToken(r) \/ DeleteApiToken(r) \/ Answer(r)

SessionsSpec == SessionsInit /\ [][SessionsNext]_sessionVars

-----------------------------------------------------------------------------
RemovalOwed(id) == \E r \in Requests : caller[r].at = "remove" /\ id \in caller[r].ended

SessionsTypeOK ==
    /\ now \in 1..MaxSessionTime
    /\ sessions \subseteq Ids \X (1..(MaxSessionTime + SESSION_LIFE))
    /\ tokens \subseteq Ids
    /\ credentials \in 0..MaxCredentials
    /\ cached \in [Ids -> 0..(MaxSessionTime + SESSION_CACHE_SECS)]
    /\ deletion \in {"none", "scheduled", "erasing"}
    /\ login \in [at : {"idle", "restore", "create"}, stale : BOOLEAN]
    /\ caller \in [Requests -> [at : {"idle", "fill", "in", "remove"}, id : 0..MaxCredentials,
                                expires : 0..(MaxSessionTime + SESSION_LIFE),
                                ended : SUBSET Ids, stale : BOOLEAN]]
    /\ endedAt \in [Ids -> 0..MaxSessionTime]
    /\ lingering \subseteq Ids /\ overtaken \subseteq Ids /\ strays \subseteq Ids

\* A session that was ended lets no request in, but for the time a lookup
\* stays cached when its entry could not be removed (or is about to be): no
\* logout and no deletion leaves an entry behind, unless a lookup held the
\* row when it was deleted and filled the cache afterwards. About
\* resolve_session_cached against logout and delete.
EndedStaysEnded ==
    \A id \in Ids : endedAt[id] # 0 /\ Hit(id) =>
        \/ /\ id \in lingering \/ RemovalOwed(id)
           /\ now < endedAt[id] + SESSION_CACHE_SECS
        \/ id \in overtaken

\* An account that is to be deleted has no session and no API token: what
\* schedule_deletion ended is not made again, except by a login that had
\* read the account, or a request that was let in, before, and with what these
\* made; a login after it restores the account. About login,
\* create_api_token, restore and schedule_deletion.
DeletionEndsCredentials == deletion # "none" => SessionIds \cup tokens \subseteq strays

\* Nothing outlives what ended it but what is named above
\* (middleware/auth.rs, handlers/auth.rs, accounts.rs).
CredentialsEnd == SessionsTypeOK /\ EndedStaysEnded /\ DeletionEndsCredentials
=============================================================================
