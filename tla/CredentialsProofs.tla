--------------------------- MODULE CredentialsProofs --------------------------
(* Theorems about what requests are let in by: Sessions and Scrobblers, for    *)
(* every value of their constants.                                             *)
EXTENDS Sessions, Scrobblers, FiniteSetTheorems, WellFoundedInduction, TLAPS

(****** Sessions, tokens and logins (Sessions). ******)

(***************************************************************************)
(* CredentialsEnd is not inductive.  That an ended session is not looked   *)
(* up any more rests on ids never being given twice and on an entry never  *)
(* outlasting its lookup by more than SESSION_CACHE_SECS; that a deletion  *)
(* leaves no credential behind, on what every request and login under way  *)
(* when it came is still going to make.                                    *)
(***************************************************************************)

(* A session that has ended is never one of the sessions again.            *)
EndedForGood ==
    /\ \A s \in sessions : s[1] <= credentials /\ endedAt[s[1]] = 0
    /\ \A id \in Ids : endedAt[id] # 0 => id <= credentials

CachedAWhile == \A id \in Ids : cached[id] <= now + SESSION_CACHE_SECS

(* No lookup of an ended session is under way, and its entry is removed.   *)
Fades(id) ==
    /\ \A r \in Requests : caller[r].at = "fill" => caller[r].id # id
    /\ cached[id] <= endedAt[id] + SESSION_CACHE_SECS
    /\ cached[id] > now => id \in lingering \/ RemovalOwed(id)

Faded == \A id \in Ids : endedAt[id] # 0 => id \in overtaken \/ Fades(id)

(* Who makes a credential of a deleted account is known to be stale.       *)
Stale ==
    deletion # "none" =>
        /\ \A s \in sessions : s[1] \in strays
        /\ tokens \subseteq strays
        /\ login.at = "create" => login.stale
        /\ \A r \in Requests : caller[r].at \in {"fill", "in"} => caller[r].stale

(* A request looks up or was let in with an id.                            *)
CallersNamed == \A r \in Requests : caller[r].at \in {"fill", "in"} => caller[r].id \in Ids

SessionsInv == SessionsTypeOK /\ CallersNamed /\ EndedForGood /\ CachedAWhile /\ Faded /\ Stale

(***************************************************************************)
(* Types.                                                                  *)
(***************************************************************************)
CallerRecords == [at : {"idle", "fill", "in", "remove"}, id : 0..MaxCredentials,
          expires : 0..(MaxSessionTime + SESSION_LIFE), ended : SUBSET Ids, stale : BOOLEAN]

LEMMA NoCallIsACall == NoCall \in CallerRecords
  BY SessionsAssumption DEF NoCall, Call, CallerRecords, Ids

LEMMA ClampedIsShort ==
  ASSUME NEW ttl \in Int
  PROVE  Clamped(ttl) \in 1..SESSION_CACHE_SECS
  BY SessionsAssumption DEF Clamped

LEMMA EndedTypes ==
  ASSUME SessionsTypeOK, NEW ids \in SUBSET Ids, Ended(ids)
  PROVE  endedAt' \in [Ids -> 0..MaxSessionTime] /\ overtaken' \subseteq Ids
         /\ \A i \in Ids : endedAt'[i] = IF i \in ids THEN now ELSE endedAt[i]
  BY SessionsAssumption DEF Ended, SessionsTypeOK

(* The request r becomes c.                                                *)
LEMMA CallMoves ==
  ASSUME SessionsTypeOK, CallersNamed, NEW r \in Requests, NEW c \in CallerRecords,
         c.at \in {"fill", "in"} => c.id \in Ids,
         caller' = [caller EXCEPT ![r] = c]
  PROVE  /\ caller' \in [Requests -> CallerRecords] /\ CallersNamed'
         /\ \A q \in Requests : caller'[q] = IF q = r THEN c ELSE caller[q]
  <1>1. caller \in [Requests -> CallerRecords]
    BY DEF SessionsTypeOK, CallerRecords
  <1>2. \A q \in Requests : caller'[q] = IF q = r THEN c ELSE caller[q]
    BY <1>1
  <1> QED
    BY <1>1, <1>2 DEF CallersNamed

(***************************************************************************)
(* What each step makes of the requests: r is the one that moves.          *)
(***************************************************************************)
Calling(r, c) ==
    /\ c \in CallerRecords
    /\ caller' \in [Requests -> CallerRecords] /\ CallersNamed'
    /\ \A q \in Requests : caller'[q] = IF q = r THEN c ELSE caller[q]

LEMMA CallFields ==
  \A at, id, x, ids, b :
     LET c == Call(at, id, x, ids, b) IN
     c.at = at /\ c.id = id /\ c.expires = x /\ c.ended = ids /\ c.stale = b
  BY DEF Call

LEMMA OneCalls ==
  ASSUME NEW r \in Requests, NEW at, NEW id, NEW x, NEW ids, NEW b,
         Calling(r, Call(at, id, x, ids, b))
  PROVE  /\ caller'[r].at = at /\ caller'[r].stale = b
         /\ \A q \in Requests \ {r} : caller'[q] = caller[q]
  <1> DEFINE c == Call(at, id, x, ids, b)
  <1>1. c.at = at /\ c.stale = b
    BY CallFields
  <1> HIDE DEF c
  <1>2. caller'[r] = c /\ \A q \in Requests \ {r} : caller'[q] = caller[q]
    BY DEF Calling, c
  <1> QED
    BY <1>1, <1>2

LEMMA CallsWritten ==
  /\ \A c \in CallerRecords : \A ids : [c EXCEPT !.ended = ids] = Call(c.at, c.id, c.expires, ids, c.stale)
  /\ \A c \in CallerRecords : \A b : [c EXCEPT !.stale = b] = Call(c.at, c.id, c.expires, c.ended, b)
  BY DEF CallerRecords, Call

LEMMA LookedUp ==
  ASSUME SessionsTypeOK, CallersNamed, NEW r \in Requests, NEW id \in Ids
  PROVE  /\ CacheHit(r, id) =>
              Calling(r, Call("in", id, 0, {}, ~Alive(id) \/ id \in strays))
         /\ ReadSession(r, id) =>
              \E s \in sessions : s[1] = id /\ Calling(r, Call("fill", id, s[2], {}, id \in strays))
  <1>1. ASSUME CacheHit(r, id)
        PROVE  Calling(r, Call("in", id, 0, {}, ~Alive(id) \/ id \in strays))
    <2> DEFINE c == Call("in", id, 0, {}, ~Alive(id) \/ id \in strays)
    <2>1. c \in CallerRecords /\ c.at = "in" /\ c.id = id
      BY SessionsAssumption DEF Call, CallerRecords, Ids, Alive
    <2>2. caller' = [caller EXCEPT ![r] = c]
      BY <1>1 DEF CacheHit
    <2> HIDE DEF c
    <2>3. Calling(r, c)
      BY <2>1, <2>2, CallMoves DEF Calling
    <2> QED
      BY <2>3 DEF c
  <1>2. ASSUME ReadSession(r, id)
        PROVE  \E s \in sessions : s[1] = id /\ Calling(r, Call("fill", id, s[2], {}, id \in strays))
    <2>1. PICK s \in sessions :
            /\ s[1] = id
            /\ caller' = [caller EXCEPT ![r] = Call("fill", id, s[2], {}, id \in strays)]
      BY <1>2 DEF ReadSession
    <2> DEFINE c == Call("fill", id, s[2], {}, id \in strays)
    <2>2. s[2] \in 0..(MaxSessionTime + SESSION_LIFE)
      BY SessionsAssumption DEF SessionsTypeOK
    <2>3. c \in CallerRecords /\ c.at = "fill" /\ c.id = id
      BY <2>2, SessionsAssumption DEF Call, CallerRecords, Ids
    <2>4. caller' = [caller EXCEPT ![r] = c]
      BY <2>1
    <2> HIDE DEF c
    <2>5. Calling(r, c)
      BY <2>3, <2>4, CallMoves DEF Calling
    <2> QED
      BY <2>1, <2>5 DEF c
  <1> QED
    BY <1>1, <1>2

LEMMA Filled ==
  ASSUME SessionsTypeOK, CallersNamed, NEW r \in Requests, FillCache(r)
  PROVE  Calling(r, Call("in", caller[r].id, 0, {}, caller[r].stale))
  <1> DEFINE c == Call("in", caller[r].id, 0, {}, caller[r].stale)
  <1>1. caller[r] \in CallerRecords /\ caller[r].id \in Ids
    BY DEF SessionsTypeOK, CallerRecords, CallersNamed, FillCache
  <1>2. c \in CallerRecords /\ c.at = "in" /\ c.id \in Ids
    BY <1>1, SessionsAssumption DEF Call, CallerRecords
  <1>3. caller' = [caller EXCEPT ![r] = c]
    BY DEF FillCache
  <1> HIDE DEF c
  <1>4. Calling(r, c)
    BY <1>2, <1>3, CallMoves DEF Calling
  <1> QED
    BY <1>4 DEF c

LEMMA LoggedOut ==
  ASSUME SessionsTypeOK, CallersNamed, NEW r \in Requests, NEW all \in BOOLEAN, Logout(r, all)
  PROVE  \E live \in SUBSET Ids, ids \in SUBSET Ids :
            /\ live \subseteq SessionIds /\ live \subseteq ids
            /\ sessions' = {s \in sessions : s[1] \notin live}
            /\ Ended(live)
            /\ Calling(r, Call("remove", 0, 0, ids, FALSE))
  <1> DEFINE live == {i \in SessionIds : all \/ i = caller[r].id}
             ids == IF all THEN live ELSE {caller[r].id}
             c == Call("remove", 0, 0, ids, FALSE)
  <1>1. caller[r].id \in Ids
    BY DEF CallersNamed, Logout
  <1>2. SessionIds \subseteq Ids
    BY DEF SessionIds, SessionsTypeOK
  <1>3. live \in SUBSET Ids /\ ids \in SUBSET Ids /\ live \subseteq ids
    BY <1>1, <1>2
  <1>4. /\ sessions' = {s \in sessions : s[1] \notin live} /\ Ended(live)
        /\ caller' = [caller EXCEPT ![r] = Call("remove", 0, 0, ids, FALSE)]
    BY DEF Logout
  <1>5. live \subseteq SessionIds
    OBVIOUS
  <1> HIDE DEF live, ids
  <1>6. c \in CallerRecords /\ c.at = "remove" /\ caller' = [caller EXCEPT ![r] = c]
    BY <1>3, <1>4, SessionsAssumption DEF Call, CallerRecords
  <1>7. Calling(r, c)
    BY <1>6, CallMoves DEF Calling
  <1> QED
    BY <1>3, <1>4, <1>5, <1>7

LEMMA EntryRemoved ==
  ASSUME SessionsTypeOK, CallersNamed, NEW r \in Requests, RemoveEntry(r)
  PROVE  \E i \in caller[r].ended :
            /\ i \in Ids
            /\ \/ cached' = [cached EXCEPT ![i] = 0] /\ lingering' = lingering
               \/ cached' = cached /\ lingering' = lingering \cup {i}
            /\ Calling(r, Call("remove", caller[r].id, caller[r].expires,
                               caller[r].ended \ {i}, caller[r].stale))
  <1>1. caller[r] \in CallerRecords /\ caller[r].at = "remove"
    BY DEF SessionsTypeOK, CallerRecords, RemoveEntry
  <1>2. PICK i \in caller[r].ended :
          /\ \/ cached' = [cached EXCEPT ![i] = 0] /\ lingering' = lingering
             \/ cached' = cached /\ lingering' = lingering \cup {i}
          /\ caller' = [caller EXCEPT ![r].ended = @ \ {i}]
    BY DEF RemoveEntry
  <1> DEFINE c == Call("remove", caller[r].id, caller[r].expires,
                       caller[r].ended \ {i}, caller[r].stale)
  <1>3. c \in CallerRecords /\ c.at = "remove"
    BY <1>1 DEF Call, CallerRecords
  <1>4. [caller[r] EXCEPT !.ended = @ \ {i}] = c
    BY <1>1, CallsWritten
  <1>5. caller' = [caller EXCEPT ![r] = c]
    BY <1>2, <1>4
  <1>6. i \in Ids
    BY <1>1 DEF CallerRecords
  <1> HIDE DEF c
  <1>7. Calling(r, c)
    BY <1>3, <1>5, CallMoves DEF Calling
  <1> QED
    BY <1>2, <1>6, <1>7 DEF c

LEMMA Answered ==
  ASSUME SessionsTypeOK, CallersNamed, NEW r \in Requests,
         CreateApiToken(r) \/ DeleteApiToken(r) \/ Answer(r)
  PROVE  Calling(r, NoCall)
  BY NoCallIsACall, CallMoves DEF Calling, CreateApiToken, DeleteApiToken, Answer, NoCall, Call

LEMMA DeletionScheduled ==
  ASSUME SessionsTypeOK, CallersNamed, NEW r \in Requests, ScheduleAccountDeletion(r)
  PROVE  /\ caller' \in [Requests -> CallerRecords] /\ CallersNamed'
         /\ SessionIds \in SUBSET Ids
         /\ caller'[r] = Call("remove", 0, 0, SessionIds, FALSE)
         /\ \A q \in Requests \ {r} :
              /\ caller'[q].at = caller[q].at /\ caller'[q].id = caller[q].id
              /\ caller'[q].ended = caller[q].ended
              /\ caller[q].at \in {"fill", "in"} => caller'[q].stale
  <1>1. SessionIds \in SUBSET Ids
    BY DEF SessionIds, SessionsTypeOK
  <1>2. \A q \in Requests : caller[q] \in CallerRecords
    BY DEF SessionsTypeOK, CallerRecords
  <1>3. \A q \in Requests : [caller[q] EXCEPT !.stale = caller[q].at \in {"fill", "in"}]
          = Call(caller[q].at, caller[q].id, caller[q].expires, caller[q].ended,
                 caller[q].at \in {"fill", "in"})
    BY <1>2, CallsWritten
  <1>4. caller' = [q \in Requests |->
                     IF q = r THEN Call("remove", 0, 0, SessionIds, FALSE)
                     ELSE Call(caller[q].at, caller[q].id, caller[q].expires, caller[q].ended,
                               caller[q].at \in {"fill", "in"})]
    BY <1>3 DEF ScheduleAccountDeletion
  <1>5. Call("remove", 0, 0, SessionIds, FALSE) \in CallerRecords
    BY <1>1, SessionsAssumption DEF Call, CallerRecords
  <1>6. \A q \in Requests : Call(caller[q].at, caller[q].id, caller[q].expires, caller[q].ended,
                               caller[q].at \in {"fill", "in"}) \in CallerRecords
    BY <1>2 DEF Call, CallerRecords
  <1>7. caller' \in [Requests -> CallerRecords]
    BY <1>4, <1>5, <1>6
  <1>8. CallersNamed'
    BY <1>4 DEF CallersNamed, Call
  <1>9. ASSUME NEW q \in Requests \ {r}
         PROVE  /\ caller'[q].at = caller[q].at /\ caller'[q].id = caller[q].id
                /\ caller'[q].ended = caller[q].ended
                /\ caller[q].at \in {"fill", "in"} => caller'[q].stale
    <2> DEFINE b == caller[q].at \in {"fill", "in"}
    <2>1. caller'[q] = Call(caller[q].at, caller[q].id, caller[q].expires, caller[q].ended, b)
      BY <1>4
    <2> HIDE DEF b
    <2>2. /\ caller'[q].at = caller[q].at /\ caller'[q].id = caller[q].id
          /\ caller'[q].ended = caller[q].ended /\ caller'[q].stale = b
      BY <2>1, CallFields
    <2> QED
      BY <2>2 DEF b
  <1> QED
    BY <1>1, <1>4, <1>7, <1>8, <1>9

LEMMA CallersTyped ==
  ASSUME SessionsTypeOK, CallersNamed, [SessionsNext]_sessionVars
  PROVE  caller' \in [Requests -> CallerRecords] /\ CallersNamed'
  <1>1. CASE caller' = caller
    BY <1>1 DEF SessionsTypeOK, CallerRecords, CallersNamed
  <1>2. ASSUME NEW r \in Requests, NEW id \in Ids, CacheHit(r, id) \/ ReadSession(r, id)
        PROVE  caller' \in [Requests -> CallerRecords] /\ CallersNamed'
    BY <1>2, LookedUp DEF Calling
  <1>3. ASSUME NEW r \in Requests, NEW all \in BOOLEAN,
               Logout(r, all)
        PROVE  caller' \in [Requests -> CallerRecords] /\ CallersNamed'
    BY <1>3, LoggedOut DEF Calling
  <1>4. ASSUME NEW r \in Requests,
               \/ FillCache(r) \/ RemoveEntry(r) \/ CreateApiToken(r) \/ DeleteApiToken(r)
               \/ Answer(r)
        PROVE  caller' \in [Requests -> CallerRecords] /\ CallersNamed'
    BY <1>4, Filled, EntryRemoved, Answered DEF Calling
  <1>5. ASSUME NEW r \in Requests, ScheduleAccountDeletion(r)
        PROVE  caller' \in [Requests -> CallerRecords] /\ CallersNamed'
    BY <1>5, DeletionScheduled
  <1>6. \/ SecondPasses \/ VerifyPassword \/ RestoreAccount \/ CreateSession
        \/ DeleteExpiredSessions \/ BeginErase \/ UNCHANGED sessionVars
        => caller' = caller
    BY DEF SecondPasses, VerifyPassword, RestoreAccount, CreateSession, DeleteExpiredSessions,
           BeginErase, sessionVars
  <1> QED
    BY <1>1, <1>2, <1>3, <1>4, <1>5, <1>6 DEF SessionsNext

(* Everything else.                                                        *)
RowsTyped ==
    /\ now \in 1..MaxSessionTime
    /\ sessions \subseteq Ids \X (1..(MaxSessionTime + SESSION_LIFE))
    /\ tokens \subseteq Ids
    /\ credentials \in 0..MaxCredentials
    /\ cached \in [Ids -> 0..(MaxSessionTime + SESSION_CACHE_SECS)]
    /\ deletion \in {"none", "scheduled", "erasing"}
    /\ login \in [at : {"idle", "restore", "create"}, stale : BOOLEAN]
    /\ endedAt \in [Ids -> 0..MaxSessionTime]
    /\ lingering \subseteq Ids /\ overtaken \subseteq Ids /\ strays \subseteq Ids

LEMMA TypesAreRows == SessionsTypeOK <=> RowsTyped /\ caller \in [Requests -> CallerRecords]
  BY DEF SessionsTypeOK, RowsTyped, CallerRecords

LEMMA RowsStayTyped ==
  ASSUME SessionsInv, [SessionsNext]_sessionVars
  PROVE  RowsTyped'
  <1> USE DEF history
  <1>0. SessionsTypeOK /\ CallersNamed /\ RowsTyped
    BY TypesAreRows DEF SessionsInv
  <1>1. CASE SecondPasses
    <2>1. now' = now + 1 /\ now' \in 1..MaxSessionTime
      BY <1>0, <1>1, SessionsAssumption DEF SecondPasses, RowsTyped
    <2>2. cached' \in [Ids -> 0..(MaxSessionTime + SESSION_CACHE_SECS)]
      BY <1>0, <1>1, SessionsAssumption DEF SecondPasses, RowsTyped
    <2> QED
      BY <1>0, <1>1, <2>1, <2>2 DEF SecondPasses, RowsTyped
  <1>2. CASE VerifyPassword
    BY <1>0, <1>2, SessionsAssumption DEF VerifyPassword, RowsTyped, NoLogin, Ids
  <1>3. CASE RestoreAccount
    BY <1>0, <1>3, SessionsAssumption DEF RestoreAccount, RowsTyped, NoLogin, Ids
  <1>4. CASE CreateSession
    <2>1. credentials + 1 \in Ids /\ credentials' \in 0..MaxCredentials
      BY <1>0, <1>4, SessionsAssumption DEF CreateSession, RowsTyped, Ids
    <2>2. now + SESSION_LIFE \in 1..(MaxSessionTime + SESSION_LIFE)
      BY <1>0, SessionsAssumption DEF RowsTyped
    <2>3. login' \in [at : {"idle", "restore", "create"}, stale : BOOLEAN]
      BY <1>4 DEF CreateSession, NoLogin
    <2>4. strays' \subseteq Ids
      BY <1>0, <1>4, <2>1 DEF CreateSession, RowsTyped
    <2> QED
      BY <1>0, <1>4, <2>1, <2>2, <2>3, <2>4 DEF CreateSession, RowsTyped
  <1>5. CASE DeleteExpiredSessions
    BY <1>0, <1>5, SessionsAssumption DEF DeleteExpiredSessions, RowsTyped, NoLogin, Ids
  <1>6. CASE BeginErase
    BY <1>0, <1>6, SessionsAssumption DEF BeginErase, RowsTyped, NoLogin, Ids
  <1>7. ASSUME NEW r \in Requests, NEW id \in Ids, CacheHit(r, id)
        PROVE  RowsTyped'
    BY <1>0, <1>7, SessionsAssumption DEF CacheHit, RowsTyped, NoLogin, Ids
  <1>8. ASSUME NEW r \in Requests, NEW id \in Ids, ReadSession(r, id)
        PROVE  RowsTyped'
    BY <1>0, <1>8, SessionsAssumption DEF ReadSession, RowsTyped, NoLogin, Ids
  <1>9. ASSUME NEW r \in Requests, FillCache(r)
        PROVE  RowsTyped'
    <2>1. caller[r].id \in Ids /\ caller[r].expires - now \in Int
      BY <1>0, <1>9 DEF FillCache, CallersNamed, SessionsTypeOK
    <2>2. now + Clamped(caller[r].expires - now) \in 0..(MaxSessionTime + SESSION_CACHE_SECS)
      BY <1>0, <2>1, ClampedIsShort, SessionsAssumption DEF RowsTyped
    <2> QED
      BY <1>0, <1>9, <2>1, <2>2 DEF FillCache, RowsTyped
  <1>10. ASSUME NEW r \in Requests, NEW all \in BOOLEAN, Logout(r, all)
        PROVE  RowsTyped'
    <2>1. PICK live \in SUBSET Ids : live \subseteq SessionIds
            /\ sessions' = {s \in sessions : s[1] \notin live} /\ Ended(live)
      BY <1>0, <1>10, LoggedOut
    <2> QED
      BY <1>0, <1>10, <2>1, EndedTypes, TypesAreRows DEF Logout, RowsTyped
  <1>11. ASSUME NEW r \in Requests, ScheduleAccountDeletion(r)
        PROVE  RowsTyped'
    <2>1. SessionIds \in SUBSET Ids /\ Ended(SessionIds)
      BY <1>0, <1>11, DeletionScheduled DEF ScheduleAccountDeletion
    <2> QED
      BY <1>0, <1>11, <2>1, EndedTypes, TypesAreRows DEF ScheduleAccountDeletion, RowsTyped
  <1>12. ASSUME NEW r \in Requests, RemoveEntry(r)
        PROVE  RowsTyped'
    <2>1. PICK i \in Ids :
            \/ cached' = [cached EXCEPT ![i] = 0] /\ lingering' = lingering
            \/ cached' = cached /\ lingering' = lingering \cup {i}
      BY <1>0, <1>12, EntryRemoved
    <2> QED
      BY <1>0, <1>12, <2>1, SessionsAssumption DEF RemoveEntry, RowsTyped
  <1>13. ASSUME NEW r \in Requests, CreateApiToken(r)
        PROVE  RowsTyped'
    BY <1>0, <1>13, SessionsAssumption DEF CreateApiToken, RowsTyped, NoLogin, Ids
  <1>14. ASSUME NEW r \in Requests, DeleteApiToken(r)
        PROVE  RowsTyped'
    BY <1>0, <1>14, SessionsAssumption DEF DeleteApiToken, RowsTyped, NoLogin, Ids
  <1>15. ASSUME NEW r \in Requests, Answer(r)
        PROVE  RowsTyped'
    BY <1>0, <1>15, SessionsAssumption DEF Answer, RowsTyped, NoLogin, Ids
  <1>16. CASE UNCHANGED sessionVars
    BY <1>0, <1>16, SessionsAssumption DEF sessionVars, RowsTyped, NoLogin, Ids
  <1> QED
    BY <1>1, <1>2, <1>3, <1>4, <1>5, <1>6, <1>7, <1>8, <1>9, <1>10, <1>11, <1>12, <1>13, <1>14, <1>15, <1>16 DEF SessionsNext

(***************************************************************************)
(* Ids are given once.                                                     *)
(***************************************************************************)
LEMMA GoneKept ==
  ASSUME SessionsInv, [SessionsNext]_sessionVars
  PROVE  EndedForGood'
  <1> USE DEF SessionsInv, history
  <1>1. CASE SecondPasses
    BY <1>1 DEF SecondPasses, EndedForGood
  <1>2. CASE VerifyPassword
    BY <1>2 DEF VerifyPassword, EndedForGood
  <1>3. CASE RestoreAccount
    BY <1>3 DEF RestoreAccount, EndedForGood
  <1>4. CASE CreateSession
    <2>1. credentials + 1 \in Ids /\ credentials \in Nat /\ credentials' = credentials + 1
      BY <1>4, SessionsAssumption DEF CreateSession, SessionsTypeOK, Ids
    <2>2. endedAt[credentials + 1] = 0
      BY <2>1 DEF EndedForGood
    <2>3. \A s \in sessions' : s \in sessions \/ s[1] = credentials + 1
      BY <1>4 DEF CreateSession
    <2>4. \A s \in sessions : s[1] \in Nat
      BY DEF SessionsTypeOK, Ids
    <2>5. \A id \in Ids : id \in Nat
      BY DEF Ids
    <2> QED
      BY <1>4, <2>1, <2>2, <2>3, <2>4, <2>5 DEF CreateSession, EndedForGood
  <1>5. CASE DeleteExpiredSessions
    BY <1>5 DEF DeleteExpiredSessions, EndedForGood
  <1>6. CASE BeginErase
    BY <1>6 DEF BeginErase, EndedForGood
  <1>7. ASSUME NEW r \in Requests, NEW id \in Ids, CacheHit(r, id)
        PROVE  EndedForGood'
    BY <1>7 DEF CacheHit, EndedForGood
  <1>8. ASSUME NEW r \in Requests, NEW id \in Ids, ReadSession(r, id)
        PROVE  EndedForGood'
    BY <1>8 DEF ReadSession, EndedForGood
  <1>9. ASSUME NEW r \in Requests, FillCache(r)
        PROVE  EndedForGood'
    BY <1>9 DEF FillCache, EndedForGood
  <1>10. ASSUME NEW r \in Requests, NEW all \in BOOLEAN, Logout(r, all)
        PROVE  EndedForGood'
    <2>1. PICK live \in SUBSET Ids : live \subseteq SessionIds
            /\ sessions' = {s \in sessions : s[1] \notin live} /\ Ended(live)
      BY <1>10, LoggedOut
    <2>2. \A i \in Ids : endedAt'[i] = IF i \in live THEN now ELSE endedAt[i]
      BY <2>1, EndedTypes
    <2>3. \A s \in sessions : s[1] \in Ids
      BY DEF SessionsTypeOK
    <2>4. \A i \in live : i <= credentials
      BY <2>1 DEF SessionIds, EndedForGood
    <2> QED
      BY <1>10, <2>1, <2>2, <2>3, <2>4 DEF Logout, EndedForGood
  <1>11. ASSUME NEW r \in Requests, ScheduleAccountDeletion(r)
        PROVE  EndedForGood'
    <2>1. SessionIds \in SUBSET Ids /\ Ended(SessionIds)
      BY <1>11, DeletionScheduled DEF ScheduleAccountDeletion
    <2>2. \A i \in Ids : endedAt'[i] = IF i \in SessionIds THEN now ELSE endedAt[i]
      BY <2>1, EndedTypes
    <2>3. \A i \in SessionIds : i <= credentials
      BY DEF SessionIds, EndedForGood
    <2> QED
      BY <1>11, <2>2, <2>3 DEF ScheduleAccountDeletion, EndedForGood
  <1>12. ASSUME NEW r \in Requests, RemoveEntry(r)
        PROVE  EndedForGood'
    BY <1>12 DEF RemoveEntry, EndedForGood
  <1>13. ASSUME NEW r \in Requests, CreateApiToken(r)
        PROVE  EndedForGood'
    <2>1. credentials \in Nat /\ credentials' = credentials + 1
      BY <1>13 DEF CreateApiToken, SessionsTypeOK
    <2>2. \A s \in sessions : s[1] \in Nat
      BY DEF SessionsTypeOK, Ids
    <2>3. \A id \in Ids : id \in Nat
      BY DEF Ids
    <2> QED
      BY <1>13, <2>1, <2>2, <2>3 DEF CreateApiToken, EndedForGood
  <1>14. ASSUME NEW r \in Requests, DeleteApiToken(r)
        PROVE  EndedForGood'
    BY <1>14 DEF DeleteApiToken, EndedForGood
  <1>15. ASSUME NEW r \in Requests, Answer(r)
        PROVE  EndedForGood'
    BY <1>15 DEF Answer, EndedForGood
  <1>16. CASE UNCHANGED sessionVars
    BY <1>16 DEF sessionVars, EndedForGood
  <1> QED
    BY <1>1, <1>2, <1>3, <1>4, <1>5, <1>6, <1>7, <1>8, <1>9, <1>10, <1>11, <1>12, <1>13, <1>14, <1>15, <1>16 DEF SessionsNext

(***************************************************************************)
(* An entry of the cache lasts SESSION_CACHE_SECS at most.                 *)
(***************************************************************************)
LEMMA EntriesAreShort ==
  ASSUME SessionsInv, [SessionsNext]_sessionVars
  PROVE  CachedAWhile'
  <1> USE DEF SessionsInv, history
  <1>1. CASE SecondPasses
    <2>1. now' = now + 1 /\ now \in Nat
      BY <1>1 DEF SecondPasses, SessionsTypeOK
    <2>2. \A i \in Ids : cached'[i] \in {cached[i], 0} /\ cached[i] \in Nat
      BY <1>1, SessionsAssumption DEF SecondPasses, SessionsTypeOK
    <2> QED
      BY <2>1, <2>2, SessionsAssumption DEF CachedAWhile
  <1>2. CASE VerifyPassword
    BY <1>2 DEF VerifyPassword, CachedAWhile
  <1>3. CASE RestoreAccount
    BY <1>3 DEF RestoreAccount, CachedAWhile
  <1>4. CASE CreateSession
    BY <1>4 DEF CreateSession, CachedAWhile
  <1>5. CASE DeleteExpiredSessions
    BY <1>5 DEF DeleteExpiredSessions, CachedAWhile
  <1>6. CASE BeginErase
    BY <1>6 DEF BeginErase, CachedAWhile
  <1>7. ASSUME NEW r \in Requests, NEW id \in Ids, CacheHit(r, id)
        PROVE  CachedAWhile'
    BY <1>7 DEF CacheHit, CachedAWhile
  <1>8. ASSUME NEW r \in Requests, NEW id \in Ids, ReadSession(r, id)
        PROVE  CachedAWhile'
    BY <1>8 DEF ReadSession, CachedAWhile
  <1>9. ASSUME NEW r \in Requests, FillCache(r)
        PROVE  CachedAWhile'
    <2>1. caller[r].id \in Ids /\ caller[r].expires - now \in Int /\ now \in Nat
      BY <1>9 DEF FillCache, CallersNamed, SessionsTypeOK
    <2>2. now + Clamped(caller[r].expires - now) <= now + SESSION_CACHE_SECS
      BY <2>1, ClampedIsShort, SessionsAssumption
    <2>3. \A i \in Ids : \/ cached'[i] = cached[i]
                        \/ cached'[i] = now + Clamped(caller[r].expires - now)
      BY <1>9 DEF FillCache, SessionsTypeOK
    <2> QED
      BY <1>9, <2>2, <2>3 DEF FillCache, CachedAWhile
  <1>10. ASSUME NEW r \in Requests, NEW all \in BOOLEAN, Logout(r, all)
        PROVE  CachedAWhile'
    BY <1>10 DEF Logout, CachedAWhile
  <1>11. ASSUME NEW r \in Requests, ScheduleAccountDeletion(r)
        PROVE  CachedAWhile'
    BY <1>11 DEF ScheduleAccountDeletion, CachedAWhile
  <1>12. ASSUME NEW r \in Requests, RemoveEntry(r)
        PROVE  CachedAWhile'
    <2>1. PICK i \in Ids : cached' = [cached EXCEPT ![i] = 0] \/ cached' = cached
      BY <1>12, EntryRemoved
    <2>2. \A j \in Ids : cached'[j] \in {cached[j], 0}
      BY <2>1 DEF SessionsTypeOK
    <2> QED
      BY <1>12, <2>2, SessionsAssumption DEF RemoveEntry, CachedAWhile, SessionsTypeOK
  <1>13. ASSUME NEW r \in Requests, CreateApiToken(r)
        PROVE  CachedAWhile'
    BY <1>13 DEF CreateApiToken, CachedAWhile
  <1>14. ASSUME NEW r \in Requests, DeleteApiToken(r)
        PROVE  CachedAWhile'
    BY <1>14 DEF DeleteApiToken, CachedAWhile
  <1>15. ASSUME NEW r \in Requests, Answer(r)
        PROVE  CachedAWhile'
    BY <1>15 DEF Answer, CachedAWhile
  <1>16. CASE UNCHANGED sessionVars
    BY <1>16 DEF sessionVars, CachedAWhile
  <1> QED
    BY <1>1, <1>2, <1>3, <1>4, <1>5, <1>6, <1>7, <1>8, <1>9, <1>10, <1>11, <1>12, <1>13, <1>14, <1>15, <1>16 DEF SessionsNext

(***************************************************************************)
(* An ended session fades.                                                 *)
(***************************************************************************)
LEMMA StillFades ==
  ASSUME SessionsTypeOK, NEW i \in Ids, Fades(i), endedAt'[i] = endedAt[i],
         lingering \subseteq lingering', now' >= now, now' \in Nat,
         cached'[i] \in {cached[i], 0},
         \A r \in Requests : caller'[r].at = "fill" => caller'[r].id # i,
         \A r \in Requests : caller[r].at = "remove" /\ i \in caller[r].ended =>
                             \/ i \in lingering' \/ cached'[i] = 0
                             \/ caller'[r].at = "remove" /\ i \in caller'[r].ended
  PROVE  Fades(i)'
  <1>1. cached[i] \in Nat /\ now \in Nat /\ endedAt[i] \in Nat
    BY SessionsAssumption DEF SessionsTypeOK
  <1>2. cached'[i] <= endedAt'[i] + SESSION_CACHE_SECS
    BY <1>1, SessionsAssumption DEF Fades
  <1>3. cached'[i] > now' => i \in lingering' \/ RemovalOwed(i)'
    BY <1>1 DEF Fades, RemovalOwed
  <1> QED
    BY <1>2, <1>3 DEF Fades

(* The rows of live are deleted by r, which is to remove their entries.    *)
LEMMA EndedFades ==
  ASSUME SessionsInv, NEW live \in SUBSET Ids, Ended(live), NEW r \in Requests,
         UNCHANGED <<now, cached, lingering>>,
         caller[r].at = "in", caller'[r].at = "remove", live \subseteq caller'[r].ended,
         \A q \in Requests \ {r} : caller'[q].at = caller[q].at /\ caller'[q].id = caller[q].id
                                 /\ caller'[q].ended = caller[q].ended
  PROVE  Faded'
  <1> USE DEF SessionsInv
  <1> SUFFICES ASSUME NEW i \in Ids, endedAt'[i] # 0, i \notin overtaken'
               PROVE  Fades(i)'
    BY DEF Faded
  <1>1. /\ endedAt'[i] = IF i \in live THEN now ELSE endedAt[i]
        /\ i \notin overtaken
        /\ i \in live => \A q \in Requests : caller[q].at = "fill" => caller[q].id # i
    BY EndedTypes DEF Ended
  <1>2. now \in Nat /\ now' >= now /\ now' \in Nat
    BY DEF SessionsTypeOK
  <1>3. CASE i \in live
    <2>1. \A q \in Requests : caller'[q].at = "fill" => caller'[q].id # i
      BY <1>1, <1>3
    <2>2. cached'[i] <= endedAt'[i] + SESSION_CACHE_SECS
      BY <1>1, <1>3 DEF CachedAWhile
    <2>3. RemovalOwed(i)'
      BY <1>3 DEF RemovalOwed
    <2> QED
      BY <2>1, <2>2, <2>3 DEF Fades
  <1>4. CASE i \notin live
    <2>1. endedAt'[i] = endedAt[i] /\ Fades(i)
      BY <1>1, <1>4 DEF Faded
    <2>2. \A q \in Requests : caller'[q].at = "fill" => caller'[q].id # i
      BY <2>1 DEF Fades
    <2>3. \A q \in Requests : caller[q].at = "remove" /\ i \in caller[q].ended =>
                             caller'[q].at = "remove" /\ i \in caller'[q].ended
      OBVIOUS
    <2> QED
      BY <1>2, <2>1, <2>2, <2>3, StillFades
  <1> QED
    BY <1>3, <1>4

LEMMA EndedFade ==
  ASSUME SessionsInv, [SessionsNext]_sessionVars
  PROVE  Faded'
  <1> USE DEF SessionsInv, history
  <1>1. CASE SecondPasses
    <2> SUFFICES ASSUME NEW i \in Ids, endedAt'[i] # 0, i \notin overtaken'
                 PROVE  Fades(i)'
      BY DEF Faded
    <2>1. Fades(i) /\ endedAt'[i] = endedAt[i] /\ lingering \subseteq lingering'
      BY <1>1 DEF SecondPasses, Faded
    <2>2. now \in Nat /\ now' \in Nat /\ now' >= now
      BY <1>1 DEF SecondPasses, SessionsTypeOK
    <2>3. cached'[i] \in {cached[i], 0}
      BY <1>1 DEF SecondPasses, SessionsTypeOK
    <2>4. \A q \in Requests : caller'[q].at = "fill" => caller'[q].id # i
      BY <1>1, <2>1 DEF SecondPasses, Fades
    <2>5. \A q \in Requests : caller[q].at = "remove" /\ i \in caller[q].ended =>
                             caller'[q].at = "remove" /\ i \in caller'[q].ended
      BY <1>1 DEF SecondPasses
    <2> QED
      BY <2>1, <2>2, <2>3, <2>4, <2>5, StillFades
  <1>2. CASE VerifyPassword
    <2> SUFFICES ASSUME NEW i \in Ids, endedAt'[i] # 0, i \notin overtaken'
                 PROVE  Fades(i)'
      BY DEF Faded
    <2>1. Fades(i) /\ endedAt'[i] = endedAt[i] /\ lingering \subseteq lingering'
      BY <1>2 DEF VerifyPassword, Faded
    <2>2. now \in Nat /\ now' \in Nat /\ now' >= now
      BY <1>2 DEF VerifyPassword, SessionsTypeOK
    <2>3. cached'[i] \in {cached[i], 0}
      BY <1>2 DEF VerifyPassword, SessionsTypeOK
    <2>4. \A q \in Requests : caller'[q].at = "fill" => caller'[q].id # i
      BY <1>2, <2>1 DEF VerifyPassword, Fades
    <2>5. \A q \in Requests : caller[q].at = "remove" /\ i \in caller[q].ended =>
                             caller'[q].at = "remove" /\ i \in caller'[q].ended
      BY <1>2 DEF VerifyPassword
    <2> QED
      BY <2>1, <2>2, <2>3, <2>4, <2>5, StillFades
  <1>3. CASE RestoreAccount
    <2> SUFFICES ASSUME NEW i \in Ids, endedAt'[i] # 0, i \notin overtaken'
                 PROVE  Fades(i)'
      BY DEF Faded
    <2>1. Fades(i) /\ endedAt'[i] = endedAt[i] /\ lingering \subseteq lingering'
      BY <1>3 DEF RestoreAccount, Faded
    <2>2. now \in Nat /\ now' \in Nat /\ now' >= now
      BY <1>3 DEF RestoreAccount, SessionsTypeOK
    <2>3. cached'[i] \in {cached[i], 0}
      BY <1>3 DEF RestoreAccount, SessionsTypeOK
    <2>4. \A q \in Requests : caller'[q].at = "fill" => caller'[q].id # i
      BY <1>3, <2>1 DEF RestoreAccount, Fades
    <2>5. \A q \in Requests : caller[q].at = "remove" /\ i \in caller[q].ended =>
                             caller'[q].at = "remove" /\ i \in caller'[q].ended
      BY <1>3 DEF RestoreAccount
    <2> QED
      BY <2>1, <2>2, <2>3, <2>4, <2>5, StillFades
  <1>4. CASE CreateSession
    <2> SUFFICES ASSUME NEW i \in Ids, endedAt'[i] # 0, i \notin overtaken'
                 PROVE  Fades(i)'
      BY DEF Faded
    <2>1. Fades(i) /\ endedAt'[i] = endedAt[i] /\ lingering \subseteq lingering'
      BY <1>4 DEF CreateSession, Faded
    <2>2. now \in Nat /\ now' \in Nat /\ now' >= now
      BY <1>4 DEF CreateSession, SessionsTypeOK
    <2>3. cached'[i] \in {cached[i], 0}
      BY <1>4 DEF CreateSession, SessionsTypeOK
    <2>4. \A q \in Requests : caller'[q].at = "fill" => caller'[q].id # i
      BY <1>4, <2>1 DEF CreateSession, Fades
    <2>5. \A q \in Requests : caller[q].at = "remove" /\ i \in caller[q].ended =>
                             caller'[q].at = "remove" /\ i \in caller'[q].ended
      BY <1>4 DEF CreateSession
    <2> QED
      BY <2>1, <2>2, <2>3, <2>4, <2>5, StillFades
  <1>5. CASE DeleteExpiredSessions
    <2> SUFFICES ASSUME NEW i \in Ids, endedAt'[i] # 0, i \notin overtaken'
                 PROVE  Fades(i)'
      BY DEF Faded
    <2>1. Fades(i) /\ endedAt'[i] = endedAt[i] /\ lingering \subseteq lingering'
      BY <1>5 DEF DeleteExpiredSessions, Faded
    <2>2. now \in Nat /\ now' \in Nat /\ now' >= now
      BY <1>5 DEF DeleteExpiredSessions, SessionsTypeOK
    <2>3. cached'[i] \in {cached[i], 0}
      BY <1>5 DEF DeleteExpiredSessions, SessionsTypeOK
    <2>4. \A q \in Requests : caller'[q].at = "fill" => caller'[q].id # i
      BY <1>5, <2>1 DEF DeleteExpiredSessions, Fades
    <2>5. \A q \in Requests : caller[q].at = "remove" /\ i \in caller[q].ended =>
                             caller'[q].at = "remove" /\ i \in caller'[q].ended
      BY <1>5 DEF DeleteExpiredSessions
    <2> QED
      BY <2>1, <2>2, <2>3, <2>4, <2>5, StillFades
  <1>6. CASE BeginErase
    <2> SUFFICES ASSUME NEW i \in Ids, endedAt'[i] # 0, i \notin overtaken'
                 PROVE  Fades(i)'
      BY DEF Faded
    <2>1. Fades(i) /\ endedAt'[i] = endedAt[i] /\ lingering \subseteq lingering'
      BY <1>6 DEF BeginErase, Faded
    <2>2. now \in Nat /\ now' \in Nat /\ now' >= now
      BY <1>6 DEF BeginErase, SessionsTypeOK
    <2>3. cached'[i] \in {cached[i], 0}
      BY <1>6 DEF BeginErase, SessionsTypeOK
    <2>4. \A q \in Requests : caller'[q].at = "fill" => caller'[q].id # i
      BY <1>6, <2>1 DEF BeginErase, Fades
    <2>5. \A q \in Requests : caller[q].at = "remove" /\ i \in caller[q].ended =>
                             caller'[q].at = "remove" /\ i \in caller'[q].ended
      BY <1>6 DEF BeginErase
    <2> QED
      BY <2>1, <2>2, <2>3, <2>4, <2>5, StillFades
  <1>7. ASSUME NEW r \in Requests, NEW id \in Ids, CacheHit(r, id)
        PROVE  Faded'
    <2> SUFFICES ASSUME NEW i \in Ids, endedAt'[i] # 0, i \notin overtaken'
                 PROVE  Fades(i)'
      BY DEF Faded
    <2>1. Fades(i) /\ endedAt'[i] = endedAt[i] /\ lingering \subseteq lingering'
      BY <1>7 DEF CacheHit, Faded
    <2>2. now \in Nat /\ now' \in Nat /\ now' >= now
      BY <1>7 DEF CacheHit, SessionsTypeOK
    <2>3. cached'[i] \in {cached[i], 0}
      BY <1>7 DEF CacheHit, SessionsTypeOK
    <2>4. Calling(r, Call("in", id, 0, {}, ~Alive(id) \/ id \in strays))
      BY <1>7, LookedUp
    <2>5. \A q \in Requests : caller'[q].at = "fill" => caller'[q].id # i
      BY <2>1, <2>4 DEF Calling, Fades, Call
    <2>6. \A q \in Requests : caller[q].at = "remove" /\ i \in caller[q].ended =>
                             caller'[q].at = "remove" /\ i \in caller'[q].ended
      BY <1>7, <2>4 DEF Calling, CacheHit
    <2> QED
      BY <2>1, <2>2, <2>3, <2>5, <2>6, StillFades
  <1>8. ASSUME NEW r \in Requests, NEW id \in Ids, ReadSession(r, id)
        PROVE  Faded'
    <2> SUFFICES ASSUME NEW i \in Ids, endedAt'[i] # 0, i \notin overtaken'
                 PROVE  Fades(i)'
      BY DEF Faded
    <2>1. Fades(i) /\ endedAt'[i] = endedAt[i] /\ lingering \subseteq lingering'
      BY <1>8 DEF ReadSession, Faded
    <2>2. now \in Nat /\ now' \in Nat /\ now' >= now
      BY <1>8 DEF ReadSession, SessionsTypeOK
    <2>3. cached'[i] \in {cached[i], 0}
      BY <1>8 DEF ReadSession, SessionsTypeOK
    <2>4. PICK s \in sessions : s[1] = id /\ Calling(r, Call("fill", id, s[2], {}, id \in strays))
      BY <1>8, LookedUp
    <2>5. id # i
      BY <1>8, <2>4 DEF EndedForGood, ReadSession
    <2>6. \A q \in Requests : caller'[q].at = "fill" => caller'[q].id # i
      BY <2>1, <2>4, <2>5 DEF Calling, Fades, Call
    <2>7. \A q \in Requests : caller[q].at = "remove" /\ i \in caller[q].ended =>
                             caller'[q].at = "remove" /\ i \in caller'[q].ended
      BY <1>8, <2>4 DEF Calling, ReadSession
    <2> QED
      BY <2>1, <2>2, <2>3, <2>6, <2>7, StillFades
  <1>9. ASSUME NEW r \in Requests, FillCache(r)
        PROVE  Faded'
    <2> SUFFICES ASSUME NEW i \in Ids, endedAt'[i] # 0, i \notin overtaken'
                 PROVE  Fades(i)'
      BY DEF Faded
    <2>1. Fades(i) /\ endedAt'[i] = endedAt[i] /\ lingering \subseteq lingering'
      BY <1>9 DEF FillCache, Faded
    <2>2. now \in Nat /\ now' \in Nat /\ now' >= now
      BY <1>9 DEF FillCache, SessionsTypeOK
    <2>3. Calling(r, Call("in", caller[r].id, 0, {}, caller[r].stale))
      BY <1>9, Filled
    <2>4. caller[r].id # i
      BY <1>9, <2>1 DEF FillCache, Fades
    <2>5. cached'[i] \in {cached[i], 0}
      BY <1>9, <2>4 DEF FillCache, SessionsTypeOK
    <2>6. \A q \in Requests : caller'[q].at = "fill" => caller'[q].id # i
      BY <2>1, <2>3 DEF Calling, Fades, Call
    <2>7. \A q \in Requests : caller[q].at = "remove" /\ i \in caller[q].ended =>
                             caller'[q].at = "remove" /\ i \in caller'[q].ended
      BY <1>9, <2>3 DEF Calling, FillCache
    <2> QED
      BY <2>1, <2>2, <2>5, <2>6, <2>7, StillFades
  <1>10. ASSUME NEW r \in Requests, NEW all \in BOOLEAN, Logout(r, all)
        PROVE  Faded'
    <2>1. PICK live \in SUBSET Ids, ids \in SUBSET Ids :
            /\ live \subseteq ids /\ Ended(live)
            /\ Calling(r, Call("remove", 0, 0, ids, FALSE))
      BY <1>10, LoggedOut
    <2>2. /\ caller[r].at = "in" /\ UNCHANGED <<now, cached, lingering>>
      BY <1>10 DEF Logout
    <2>3. /\ caller'[r].at = "remove" /\ live \subseteq caller'[r].ended
          /\ \A q \in Requests \ {r} : caller'[q] = caller[q]
      BY <2>1 DEF Calling, Call
    <2> QED
      BY <2>1, <2>2, <2>3, EndedFades
  <1>11. ASSUME NEW r \in Requests, ScheduleAccountDeletion(r)
        PROVE  Faded'
    <2>1. /\ SessionIds \in SUBSET Ids /\ Ended(SessionIds)
          /\ caller[r].at = "in" /\ UNCHANGED <<now, cached, lingering>>
      BY <1>11, DeletionScheduled DEF ScheduleAccountDeletion
    <2>2. caller'[r].at = "remove" /\ SessionIds \subseteq caller'[r].ended
      BY <1>11, DeletionScheduled DEF Call
    <2>3. \A q \in Requests \ {r} : caller'[q].at = caller[q].at /\ caller'[q].id = caller[q].id
                                 /\ caller'[q].ended = caller[q].ended
      BY <1>11, DeletionScheduled
    <2> QED
      BY <2>1, <2>2, <2>3, EndedFades
  <1>12. ASSUME NEW r \in Requests, RemoveEntry(r)
        PROVE  Faded'
    <2> SUFFICES ASSUME NEW i \in Ids, endedAt'[i] # 0, i \notin overtaken'
                 PROVE  Fades(i)'
      BY DEF Faded
    <2>1. PICK j \in caller[r].ended :
            /\ j \in Ids
            /\ \/ cached' = [cached EXCEPT ![j] = 0] /\ lingering' = lingering
               \/ cached' = cached /\ lingering' = lingering \cup {j}
            /\ Calling(r, Call("remove", caller[r].id, caller[r].expires,
                               caller[r].ended \ {j}, caller[r].stale))
      BY <1>12, EntryRemoved
    <2>2. Fades(i) /\ endedAt'[i] = endedAt[i] /\ lingering \subseteq lingering'
      BY <1>12, <2>1 DEF RemoveEntry, Faded
    <2>3. now \in Nat /\ now' \in Nat /\ now' >= now
      BY <1>12 DEF RemoveEntry, SessionsTypeOK
    <2>4. cached'[i] \in {cached[i], 0}
      BY <2>1 DEF SessionsTypeOK
    <2>5. \A q \in Requests : caller'[q].at = "fill" => caller'[q].id # i
      BY <2>1, <2>2 DEF Calling, Fades, Call
    <2>6. \A q \in Requests : caller[q].at = "remove" /\ i \in caller[q].ended =>
                             \/ i \in lingering' \/ cached'[i] = 0
                             \/ caller'[q].at = "remove" /\ i \in caller'[q].ended
      <3> DEFINE c == Call("remove", caller[r].id, caller[r].expires,
                           caller[r].ended \ {j}, caller[r].stale)
      <3>1. c.at = "remove" /\ c.ended = caller[r].ended \ {j}
        BY CallFields
      <3>2. \A q \in Requests : caller'[q] = IF q = r THEN c ELSE caller[q]
        BY <2>1 DEF Calling
      <3>3. i = j => i \in lingering' \/ cached'[i] = 0
        BY <2>1 DEF SessionsTypeOK
      <3> HIDE DEF c
      <3>4. caller'[r].at = "remove" /\ caller'[r].ended = caller[r].ended \ {j}
        BY <3>1, <3>2
      <3>5. \A q \in Requests \ {r} : caller'[q].at = caller[q].at /\ caller'[q].ended = caller[q].ended
        BY <3>2
      <3> SUFFICES ASSUME NEW q \in Requests, caller[q].at = "remove", i \in caller[q].ended
                   PROVE  \/ i \in lingering' \/ cached'[i] = 0
                          \/ caller'[q].at = "remove" /\ i \in caller'[q].ended
        OBVIOUS
      <3>6. CASE q = r
        BY <3>3, <3>4, <3>6
      <3>7. CASE q # r
        BY <3>5, <3>7
      <3> QED
        BY <3>6, <3>7
    <2> QED
      BY <2>2, <2>3, <2>4, <2>5, <2>6, StillFades
  <1>13. ASSUME NEW r \in Requests, CreateApiToken(r)
        PROVE  Faded'
    <2> SUFFICES ASSUME NEW i \in Ids, endedAt'[i] # 0, i \notin overtaken'
                 PROVE  Fades(i)'
      BY DEF Faded
    <2>1. Fades(i) /\ endedAt'[i] = endedAt[i] /\ lingering \subseteq lingering'
      BY <1>13 DEF CreateApiToken, Faded
    <2>2. now \in Nat /\ now' \in Nat /\ now' >= now
      BY <1>13 DEF CreateApiToken, SessionsTypeOK
    <2>3. cached'[i] \in {cached[i], 0}
      BY <1>13 DEF CreateApiToken, SessionsTypeOK
    <2>4. Calling(r, NoCall)
      BY <1>13, Answered
    <2>5. \A q \in Requests : caller'[q].at = "fill" => caller'[q].id # i
      BY <2>1, <2>4 DEF Calling, Fades, NoCall, Call
    <2>6. \A q \in Requests : caller[q].at = "remove" /\ i \in caller[q].ended =>
                             caller'[q].at = "remove" /\ i \in caller'[q].ended
      BY <1>13, <2>4 DEF Calling, CreateApiToken
    <2> QED
      BY <2>1, <2>2, <2>3, <2>5, <2>6, StillFades
  <1>14. ASSUME NEW r \in Requests, DeleteApiToken(r)
        PROVE  Faded'
    <2> SUFFICES ASSUME NEW i \in Ids, endedAt'[i] # 0, i \notin overtaken'
                 PROVE  Fades(i)'
      BY DEF Faded
    <2>1. Fades(i) /\ endedAt'[i] = endedAt[i] /\ lingering \subseteq lingering'
      BY <1>14 DEF DeleteApiToken, Faded
    <2>2. now \in Nat /\ now' \in Nat /\ now' >= now
      BY <1>14 DEF DeleteApiToken, SessionsTypeOK
    <2>3. cached'[i] \in {cached[i], 0}
      BY <1>14 DEF DeleteApiToken, SessionsTypeOK
    <2>4. Calling(r, NoCall)
      BY <1>14, Answered
    <2>5. \A q \in Requests : caller'[q].at = "fill" => caller'[q].id # i
      BY <2>1, <2>4 DEF Calling, Fades, NoCall, Call
    <2>6. \A q \in Requests : caller[q].at = "remove" /\ i \in caller[q].ended =>
                             caller'[q].at = "remove" /\ i \in caller'[q].ended
      BY <1>14, <2>4 DEF Calling, DeleteApiToken
    <2> QED
      BY <2>1, <2>2, <2>3, <2>5, <2>6, StillFades
  <1>15. ASSUME NEW r \in Requests, Answer(r)
        PROVE  Faded'
    <2> SUFFICES ASSUME NEW i \in Ids, endedAt'[i] # 0, i \notin overtaken'
                 PROVE  Fades(i)'
      BY DEF Faded
    <2>1. Fades(i) /\ endedAt'[i] = endedAt[i] /\ lingering \subseteq lingering'
      BY <1>15 DEF Answer, Faded
    <2>2. now \in Nat /\ now' \in Nat /\ now' >= now
      BY <1>15 DEF Answer, SessionsTypeOK
    <2>3. cached'[i] \in {cached[i], 0}
      BY <1>15 DEF Answer, SessionsTypeOK
    <2>4. Calling(r, NoCall)
      BY <1>15, Answered
    <2>5. \A q \in Requests : caller'[q].at = "fill" => caller'[q].id # i
      BY <2>1, <2>4 DEF Calling, Fades, NoCall, Call
    <2>6. \A q \in Requests : caller[q].at = "remove" /\ i \in caller[q].ended =>
                             caller'[q].at = "remove" /\ i \in caller'[q].ended
      BY <1>15, <2>4 DEF Calling, Answer
    <2> QED
      BY <2>1, <2>2, <2>3, <2>5, <2>6, StillFades
  <1>16. CASE UNCHANGED sessionVars
    <2> SUFFICES ASSUME NEW i \in Ids, endedAt'[i] # 0, i \notin overtaken'
                 PROVE  Fades(i)'
      BY DEF Faded
    <2>1. Fades(i) /\ endedAt'[i] = endedAt[i] /\ lingering \subseteq lingering'
      BY <1>16 DEF sessionVars, Faded
    <2>2. now \in Nat /\ now' \in Nat /\ now' >= now
      BY <1>16 DEF sessionVars, SessionsTypeOK
    <2>3. cached'[i] \in {cached[i], 0}
      BY <1>16 DEF sessionVars, SessionsTypeOK
    <2>4. \A q \in Requests : caller'[q].at = "fill" => caller'[q].id # i
      BY <1>16, <2>1 DEF sessionVars, Fades
    <2>5. \A q \in Requests : caller[q].at = "remove" /\ i \in caller[q].ended =>
                             caller'[q].at = "remove" /\ i \in caller'[q].ended
      BY <1>16 DEF sessionVars
    <2> QED
      BY <2>1, <2>2, <2>3, <2>4, <2>5, StillFades
  <1> QED
    BY <1>1, <1>2, <1>3, <1>4, <1>5, <1>6, <1>7, <1>8, <1>9, <1>10, <1>11, <1>12, <1>13, <1>14, <1>15, <1>16 DEF SessionsNext

(***************************************************************************)
(* Whoever still makes a credential of a deleted account is stale.         *)
(***************************************************************************)
LEMMA StaleKept ==
  ASSUME SessionsInv, [SessionsNext]_sessionVars
  PROVE  Stale'
  <1> USE DEF SessionsInv, history
  <1>1. CASE SecondPasses
    BY <1>1 DEF SecondPasses, Stale
  <1>2. CASE VerifyPassword
    <2> SUFFICES ASSUME deletion' # "none"
                 PROVE  Stale'
      BY DEF Stale
    <2>1. deletion # "none" /\ login'.at = "restore"
      BY <1>2 DEF VerifyPassword
    <2> QED
      BY <1>2, <2>1 DEF VerifyPassword, Stale
  <1>3. CASE RestoreAccount
    <2> SUFFICES ASSUME deletion' # "none"
                 PROVE  Stale'
      BY DEF Stale
    <2>1. deletion # "none" /\ login'.at # "create"
      BY <1>3 DEF RestoreAccount, NoLogin
    <2> QED
      BY <1>3, <2>1 DEF RestoreAccount, Stale
  <1>4. CASE CreateSession
    <2> SUFFICES ASSUME deletion' # "none"
                 PROVE  Stale'
      BY DEF Stale
    <2>1. deletion # "none" /\ login.stale
      BY <1>4 DEF CreateSession, Stale
    <2>2. strays' = strays \cup {credentials + 1} /\ login'.at = "idle"
      BY <1>4, <2>1 DEF CreateSession, NoLogin
    <2> QED
      BY <1>4, <2>1, <2>2 DEF CreateSession, Stale
  <1>5. CASE DeleteExpiredSessions
    BY <1>5 DEF DeleteExpiredSessions, Stale
  <1>6. CASE BeginErase
    BY <1>6 DEF BeginErase, Stale
  <1>7. ASSUME NEW r \in Requests, NEW id \in Ids, CacheHit(r, id)
        PROVE  Stale'
    <2> SUFFICES ASSUME deletion' # "none"
                 PROVE  Stale'
      BY DEF Stale
    <2>1. deletion # "none"
      BY <1>7 DEF CacheHit
    <2> DEFINE b == ~Alive(id) \/ id \in strays
    <2>2. Calling(r, Call("in", id, 0, {}, b))
      BY <1>7, LookedUp
    <2>3. b
      BY <2>1 DEF Stale, Alive
    <2> HIDE DEF b
    <2>4. caller'[r].stale = b /\ \A q \in Requests \ {r} : caller'[q] = caller[q]
      BY <2>2, OneCalls
    <2>5. caller'[r].stale
      BY <2>3, <2>4
    <2> QED
      BY <1>7, <2>1, <2>4, <2>5 DEF CacheHit, Stale
  <1>8. ASSUME NEW r \in Requests, NEW id \in Ids, ReadSession(r, id)
        PROVE  Stale'
    <2> SUFFICES ASSUME deletion' # "none"
                 PROVE  Stale'
      BY DEF Stale
    <2>1. deletion # "none"
      BY <1>8 DEF ReadSession
    <2> DEFINE b == id \in strays
    <2>2. PICK s \in sessions : s[1] = id /\ Calling(r, Call("fill", id, s[2], {}, b))
      BY <1>8, LookedUp
    <2>3. b
      BY <2>1, <2>2 DEF Stale
    <2> HIDE DEF b
    <2>4. caller'[r].stale = b /\ \A q \in Requests \ {r} : caller'[q] = caller[q]
      BY <2>2, OneCalls
    <2>5. caller'[r].stale
      BY <2>3, <2>4
    <2> QED
      BY <1>8, <2>1, <2>4, <2>5 DEF ReadSession, Stale
  <1>9. ASSUME NEW r \in Requests, FillCache(r)
        PROVE  Stale'
    <2> SUFFICES ASSUME deletion' # "none"
                 PROVE  Stale'
      BY DEF Stale
    <2>1. deletion # "none"
      BY <1>9 DEF FillCache
    <2> DEFINE b == caller[r].stale
    <2>2. Calling(r, Call("in", caller[r].id, 0, {}, b))
      BY <1>9, Filled
    <2>3. b
      BY <1>9, <2>1 DEF FillCache, Stale
    <2> HIDE DEF b
    <2>4. caller'[r].stale = b /\ \A q \in Requests \ {r} : caller'[q] = caller[q]
      BY <2>2, OneCalls
    <2>5. caller'[r].stale
      BY <2>3, <2>4
    <2> QED
      BY <1>9, <2>1, <2>4, <2>5 DEF FillCache, Stale
  <1>10. ASSUME NEW r \in Requests, NEW all \in BOOLEAN, Logout(r, all)
        PROVE  Stale'
    <2> SUFFICES ASSUME deletion' # "none"
                 PROVE  Stale'
      BY DEF Stale
    <2>1. deletion # "none"
      BY <1>10 DEF Logout
    <2>2. PICK live \in SUBSET Ids, ids \in SUBSET Ids :
            /\ sessions' = {s \in sessions : s[1] \notin live}
            /\ Calling(r, Call("remove", 0, 0, ids, FALSE))
      BY <1>10, LoggedOut
    <2>3. caller'[r].at = "remove" /\ \A q \in Requests \ {r} : caller'[q] = caller[q]
      BY <2>2, OneCalls
    <2> QED
      BY <1>10, <2>1, <2>2, <2>3 DEF Logout, Stale
  <1>11. ASSUME NEW r \in Requests, ScheduleAccountDeletion(r)
        PROVE  Stale'
    <2>1. caller'[r].at = "remove"
      BY <1>11, DeletionScheduled DEF Call
    <2>2. sessions' = {} /\ tokens' = {} /\ login'.at = login.at /\ login'.stale = (login.at = "create")
      BY <1>11 DEF ScheduleAccountDeletion, SessionsTypeOK
    <2>3. \A q \in Requests : caller'[q].at \in {"fill", "in"} => caller'[q].stale
      <3> SUFFICES ASSUME NEW q \in Requests \ {r}, caller'[q].at \in {"fill", "in"}
                   PROVE  caller'[q].stale
        BY <2>1
      <3>1. caller'[q].at = caller[q].at
        BY <1>11, DeletionScheduled
      <3>2. caller[q].at \in {"fill", "in"} => caller'[q].stale
        BY <1>11, DeletionScheduled
      <3> QED
        BY <3>1, <3>2
    <2> QED
      BY <2>2, <2>3 DEF Stale
  <1>12. ASSUME NEW r \in Requests, RemoveEntry(r)
        PROVE  Stale'
    <2>1. PICK j \in caller[r].ended :
            Calling(r, Call("remove", caller[r].id, caller[r].expires,
                            caller[r].ended \ {j}, caller[r].stale))
      BY <1>12, EntryRemoved
    <2> DEFINE b == caller[r].stale
               ids == caller[r].ended \ {j}
    <2> HIDE DEF b, ids
    <2>2. Calling(r, Call("remove", caller[r].id, caller[r].expires, ids, b))
      BY <2>1 DEF b, ids
    <2>3. caller'[r].at = "remove" /\ \A q \in Requests \ {r} : caller'[q] = caller[q]
      BY <2>2, OneCalls
    <2> QED
      BY <1>12, <2>3 DEF RemoveEntry, Stale
  <1>13. ASSUME NEW r \in Requests, CreateApiToken(r)
        PROVE  Stale'
    <2>1. caller'[r].at = "idle" /\ \A q \in Requests \ {r} : caller'[q] = caller[q]
      BY <1>13, Answered DEF Calling, NoCall, Call
    <2>2. deletion # "none" => caller[r].stale
      BY <1>13 DEF CreateApiToken, Stale
    <2>3. tokens' = tokens \cup {credentials + 1}
          /\ strays' = strays \cup (IF caller[r].stale THEN {credentials + 1} ELSE {})
      BY <1>13 DEF CreateApiToken
    <2> QED
      BY <1>13, <2>1, <2>2, <2>3 DEF CreateApiToken, Stale
  <1>14. ASSUME NEW r \in Requests, DeleteApiToken(r)
        PROVE  Stale'
    <2>1. caller'[r].at = "idle" /\ \A q \in Requests \ {r} : caller'[q] = caller[q]
      BY <1>14, Answered DEF Calling, NoCall, Call
    <2> QED
      BY <1>14, <2>1 DEF DeleteApiToken, Stale
  <1>15. ASSUME NEW r \in Requests, Answer(r)
        PROVE  Stale'
    <2>1. caller'[r].at = "idle" /\ \A q \in Requests \ {r} : caller'[q] = caller[q]
      BY <1>15, Answered DEF Calling, NoCall, Call
    <2> QED
      BY <1>15, <2>1 DEF Answer, Stale
  <1>16. CASE UNCHANGED sessionVars
    BY <1>16 DEF sessionVars, Stale
  <1> QED
    BY <1>1, <1>2, <1>3, <1>4, <1>5, <1>6, <1>7, <1>8, <1>9, <1>10, <1>11, <1>12, <1>13, <1>14, <1>15, <1>16 DEF SessionsNext

LEMMA SessionsStart ==
  ASSUME SessionsInit
  PROVE  SessionsInv
  <1>1. \A r \in Requests : caller[r] = NoCall
    BY DEF SessionsInit
  <1>2. SessionsTypeOK
    <2>1. NoCall \in CallerRecords
      BY NoCallIsACall
    <2> QED
      BY <2>1, SessionsAssumption, TypesAreRows DEF SessionsInit, RowsTyped, NoLogin, Ids
  <1>3. CallersNamed
    BY <1>1 DEF CallersNamed, NoCall, Call
  <1>4. EndedForGood /\ CachedAWhile /\ Faded /\ Stale
    BY SessionsAssumption DEF SessionsInit, EndedForGood, CachedAWhile, Faded, Stale
  <1> QED
    BY <1>2, <1>3, <1>4 DEF SessionsInv

LEMMA SessionsStep ==
  ASSUME SessionsInv, [SessionsNext]_sessionVars
  PROVE  SessionsInv'
  <1>1. caller' \in [Requests -> CallerRecords] /\ CallersNamed'
    BY CallersTyped DEF SessionsInv
  <1>2. SessionsTypeOK'
    BY <1>1, RowsStayTyped DEF SessionsTypeOK, RowsTyped, CallerRecords, Ids
  <1> QED
    BY <1>1, <1>2, GoneKept, EntriesAreShort, EndedFade, StaleKept DEF SessionsInv

(* No session that was ended lets a request in for longer than a lookup    *)
(* stays cached, and an account to be deleted keeps no session and no API  *)
(* token but those made by logins and requests that were let in before     *)
(* (resolve_session_cached, logout, login, restore, schedule_deletion and  *)
(* create_api_token).                                                      *)
THEOREM CredentialsDoEnd == SessionsSpec => []CredentialsEnd
  <1>1. SessionsInit => SessionsInv
    BY SessionsStart
  <1>2. SessionsInv /\ [SessionsNext]_sessionVars => SessionsInv'
    BY SessionsStep
  <1>3. SessionsInv => CredentialsEnd
    <2> SUFFICES ASSUME SessionsInv
                 PROVE  CredentialsEnd
      OBVIOUS
    <2>1. EndedStaysEnded
      <3> SUFFICES ASSUME NEW id \in Ids, endedAt[id] # 0, cached[id] > now, id \notin overtaken
                   PROVE  /\ id \in lingering \/ RemovalOwed(id)
                          /\ now < endedAt[id] + SESSION_CACHE_SECS
        BY DEF EndedStaysEnded, Hit
      <3>1. Fades(id)
        BY DEF SessionsInv, Faded
      <3>2. now \in Nat /\ cached[id] \in Nat /\ endedAt[id] \in Nat
        BY SessionsAssumption DEF SessionsInv, SessionsTypeOK
      <3> QED
        BY <3>1, <3>2, SessionsAssumption DEF Fades
    <2>2. DeletionEndsCredentials
      BY DEF SessionsInv, Stale, DeletionEndsCredentials, SessionIds
    <2> QED
      BY <2>1, <2>2 DEF CredentialsEnd, SessionsInv
  <1> QED
    BY <1>1, <1>2, <1>3, PTL DEF SessionsSpec

-------------------------------------------------------------------------------

(****** Scrobblers. ******)

(***************************************************************************)
(* SubmissionsHold is not inductive.  The limit holds because what the     *)
(* requests in progress may still store was counted before, and what they  *)
(* give back was not stored.                                               *)
(***************************************************************************)

\* What each request holds of the account's counter of the day: plays still
\* to be stored, and duplicates it will give back.
HeldOf(cs, u) ==
  [r \in Submitters |->
     IF cs[r].today /\ cs[r].user = u THEN cs[r].left \cup cs[r].unused ELSE {}]
LeftOf(cs, u) ==
  [r \in Submitters |-> IF cs[r].today /\ cs[r].user = u THEN cs[r].left ELSE {}]

PlaysIn(f) == {x \in Submitters \X Played : x[2] \in f[x[1]]}
Total(f) == Cardinality(PlaysIn(f))

\* What is charged and what is held was counted; what is charged and what
\* may still be is within the limit.
Counted ==
  \A u \in Users \ uncounted :
    /\ Cardinality(charged[u]) + Total(HeldOf(call, u)) <= allowance[u]
    /\ Cardinality(charged[u]) + Total(LeftOf(call, u)) <= DAILY_LIMIT

CallStands(r) ==
  /\ call[r].at # "idle" => call[r].user \in Users
  /\ call[r].at # "granted" => call[r].left = {} /\ call[r].unused = {} /\ call[r].today
  /\ call[r].left \cap call[r].unused = {}
  /\ call[r].at = "granted" => Accepted(r) \ call[r].left \subseteq stored[call[r].user]

CallsStand == \A r \in Submitters : CallStands(r)

StoredStands == \A u \in Users : charged[u] \subseteq stored[u] /\ told[u] \subseteq stored[u]

RowsOwned == \A c \in CredentialIds : Row(c) => scrobblerCredentials[c].user \in Users

\* A token that was taken is gone, and with one request or one session.
Taken(r, t) == call[r].at = "trusted" /\ call[r].token = t
Traded ==
  \A t \in AuthTokens :
    /\ sessionsOf[t] <= 1
    /\ sessionsOf[t] = 1 => authorizations[t].is = "gone"
    /\ \A r \in Submitters : Taken(r, t) => authorizations[t].is = "gone" /\ sessionsOf[t] = 0
    /\ \A q, r \in Submitters : Taken(q, t) /\ Taken(r, t) => q = r

ScrobblersInv ==
  /\ ScrobblersTypeOK
  /\ CallsStand
  /\ StoredStands
  /\ RowsOwned
  /\ Traded
  /\ Counted

(***************************************************************************)
(* Counting.                                                               *)
(***************************************************************************)
LEMMA PlaysAreFinite ==
  ASSUME NEW S \in SUBSET Played
  PROVE  IsFiniteSet(S) /\ Cardinality(S) \in Nat /\ (Cardinality(S) = 0 <=> S = {})
BY ScrobblersConstants, FS_Subset, FS_CardinalityType, FS_EmptySet

LEMMA TotalIsFinite ==
  ASSUME NEW f \in [Submitters -> SUBSET Played]
  PROVE  IsFiniteSet(PlaysIn(f)) /\ Total(f) \in Nat
  <1>1. IsFiniteSet(Submitters \X Played)
    BY ScrobblersConstants, FS_Product
  <1>2. PlaysIn(f) \in SUBSET (Submitters \X Played)
    BY DEF PlaysIn
  <1> QED
    BY <1>1, <1>2, FS_Subset, FS_CardinalityType DEF Total

\* Only r's share changes.
LEMMA OneShare ==
  ASSUME NEW f \in [Submitters -> SUBSET Played], NEW g \in [Submitters -> SUBSET Played],
         NEW r \in Submitters, \A q \in Submitters \ {r} : g[q] = f[q]
  PROVE  Total(g) + Cardinality(f[r]) = Total(f) + Cardinality(g[r])
  <1> DEFINE Rest == {x \in Submitters \X Played : x[1] # r /\ x[2] \in f[x[1]]}
             Share(S) == {r} \X S
  <1>1. IsFiniteSet(Submitters \X Played)
    BY ScrobblersConstants, FS_Product
  <1>2. Rest \in SUBSET (Submitters \X Played)
    OBVIOUS
  <1>3. IsFiniteSet(Rest) /\ Cardinality(Rest) \in Nat
    BY <1>1, <1>2, FS_Subset, FS_CardinalityType
  <1>4. IsFiniteSet({r}) /\ Cardinality({r}) = 1
    BY FS_Singleton
  <1>5. ASSUME NEW h \in [Submitters -> SUBSET Played], \A q \in Submitters \ {r} : h[q] = f[q]
        PROVE  Total(h) = Cardinality(Rest) + Cardinality(h[r])
    <2>1. IsFiniteSet(h[r]) /\ Cardinality(h[r]) \in Nat
      BY PlaysAreFinite
    <2>2. IsFiniteSet(Share(h[r])) /\ Cardinality(Share(h[r])) = Cardinality(h[r])
      <3>1. IsFiniteSet({r} \X h[r]) /\ Cardinality({r} \X h[r]) = 1 * Cardinality(h[r])
        BY <1>4, <2>1, FS_Product
      <3> QED
        BY <2>1, <3>1
    <2>3. PlaysIn(h) = Rest \cup Share(h[r])
      BY <1>5 DEF PlaysIn
    <2>4. Rest \cap Share(h[r]) = {}
      OBVIOUS
    <2> HIDE DEF Rest, Share
    <2>5. Cardinality(Rest \cup Share(h[r])) = Cardinality(Rest) + Cardinality(Share(h[r]))
      <3>1. Cardinality(Rest \cap Share(h[r])) = 0
        BY <2>4, FS_EmptySet
      <3>2. Cardinality(Rest \cup Share(h[r]))
              = Cardinality(Rest) + Cardinality(Share(h[r])) - Cardinality(Rest \cap Share(h[r]))
        BY <1>3, <2>2, FS_Union
      <3> QED
        BY <1>3, <2>1, <2>2, <3>1, <3>2
    <2> QED
      BY <2>2, <2>3, <2>5 DEF Total
  <1> HIDE DEF Rest
  <1>6. Total(f) = Cardinality(Rest) + Cardinality(f[r])
    BY <1>5
  <1>7. Total(g) = Cardinality(Rest) + Cardinality(g[r])
    BY <1>5
  <1>8. Cardinality(f[r]) \in Nat /\ Cardinality(g[r]) \in Nat
    BY PlaysAreFinite
  <1> QED
    BY <1>3, <1>6, <1>7, <1>8

LEMMA NothingHeld ==
  ASSUME NEW f \in [Submitters -> SUBSET Played], \A r \in Submitters : f[r] = {}
  PROVE  Total(f) = 0
  <1>1. PlaysIn(f) = {}
    BY DEF PlaysIn
  <1> QED
    BY <1>1, FS_EmptySet DEF Total

\* There are n plays at most with fewer than n before them.
LEMMA FirstAreFew ==
  ASSUME NEW S \in SUBSET Played, NEW n \in Nat
  PROVE  FirstOf(S, n) \subseteq S /\ Cardinality(FirstOf(S, n)) <= n
  <1> DEFINE Before(p) == {q \in S : q < p}
             rank == [p \in FirstOf(S, n) |-> Cardinality(Before(p))]
  <1>1. FirstOf(S, n) \subseteq S
    BY DEF FirstOf
  <1>2. S \subseteq Nat
    BY ScrobblersConstants
  <1>3. \A p \in S : IsFiniteSet(Before(p)) /\ Cardinality(Before(p)) \in Nat
    <2> TAKE p \in S
    <2>1. Before(p) \in SUBSET Played
      OBVIOUS
    <2> QED
      BY <2>1, PlaysAreFinite
  <1>4. ASSUME NEW p \in S, NEW q \in S, p < q
        PROVE  Cardinality(Before(p)) < Cardinality(Before(q))
    <2>1. Before(p) \in SUBSET Before(q)
      <3>1. \A o \in S : o < p => o < q
        BY <1>2, <1>4
      <3> QED
        BY <3>1
    <2>2. Before(p) # Before(q)
      <3>1. p \in Before(q) /\ p \notin Before(p)
        BY <1>2, <1>4
      <3> QED
        BY <3>1
    <2> HIDE DEF Before
    <2>3. /\ Cardinality(Before(p)) <= Cardinality(Before(q))
          /\ Cardinality(Before(p)) # Cardinality(Before(q))
      BY <1>3, <2>1, <2>2, FS_Subset
    <2> QED
      BY <1>3, <2>3
  <1>5. \A p \in FirstOf(S, n) : rank[p] \in 0 .. (n - 1)
    <2> TAKE p \in FirstOf(S, n)
    <2>1. Cardinality(Before(p)) < n /\ p \in S
      BY DEF FirstOf
    <2> QED
      BY <1>3, <2>1
  <1>6. ASSUME NEW p \in FirstOf(S, n), NEW q \in FirstOf(S, n), rank[p] = rank[q]
        PROVE  p = q
    <2>1. p \in S /\ q \in S /\ p \in Nat /\ q \in Nat
      BY <1>1, <1>2
    <2>2. Cardinality(Before(p)) = Cardinality(Before(q))
      BY <1>6
    <2> HIDE DEF Before
    <2>3. CASE p < q
      BY <1>3, <1>4, <2>1, <2>2, <2>3
    <2>4. CASE q < p
      BY <1>3, <1>4, <2>1, <2>2, <2>4
    <2> QED
      BY <2>1, <2>3, <2>4
  <1>7. rank \in [FirstOf(S, n) -> 0 .. (n - 1)]
    BY <1>5
  <1> HIDE DEF rank, Before
  <1>8. rank \in Injection(FirstOf(S, n), 0 .. (n - 1))
    BY <1>6, <1>7 DEF Injection, IsInjective
  <1>9. IsFiniteSet(0 .. (n - 1)) /\ Cardinality(0 .. (n - 1)) = n
    <2>1. /\ IsFiniteSet(0 .. (n - 1))
          /\ Cardinality(0 .. (n - 1)) = IF 0 > n - 1 THEN 0 ELSE (n - 1) - 0 + 1
      BY FS_Interval
    <2> QED
      BY <2>1
  <1> QED
    BY <1>1, <1>8, <1>9, FS_Injection

\* The next play to be stored is one of those left.
LEMMA NextIsLeft ==
  ASSUME NEW S \in SUBSET Played, S # {}
  PROVE  (CHOOSE q \in S : \A o \in S : q <= o) \in S
  <1>1. S \subseteq Nat
    BY ScrobblersConstants
  <1>2. PICK m \in S : \A k \in S : ~(<<k, m>> \in OpToRel(<, Nat))
    BY <1>1, NatLessThanWellFounded, WFMin, Zenon
  <1>3. m \in Nat /\ \A k \in S : k \in Nat /\ ~(k < m)
    BY <1>1, <1>2 DEF OpToRel
  <1>4. \A o \in S : m <= o
    BY <1>3
  <1> QED
    BY <1>4

(***************************************************************************)
(* Shares of the counter as calls move.                                    *)
(***************************************************************************)
LEMMA SharesAreSets ==
  ASSUME NEW cs \in [Submitters -> Calls], NEW u
  PROVE  /\ HeldOf(cs, u) \in [Submitters -> SUBSET Played]
         /\ LeftOf(cs, u) \in [Submitters -> SUBSET Played]
         /\ Total(HeldOf(cs, u)) \in Nat /\ Total(LeftOf(cs, u)) \in Nat
         /\ \A r \in Submitters : /\ IsFiniteSet(HeldOf(cs, u)[r])
                                  /\ IsFiniteSet(LeftOf(cs, u)[r])
                                  /\ Cardinality(HeldOf(cs, u)[r]) \in Nat
                                  /\ Cardinality(LeftOf(cs, u)[r]) \in Nat
  <1>1. \A r \in Submitters : cs[r].left \in SUBSET Played /\ cs[r].unused \in SUBSET Played
    BY DEF Calls
  <1>2. /\ HeldOf(cs, u) \in [Submitters -> SUBSET Played]
        /\ LeftOf(cs, u) \in [Submitters -> SUBSET Played]
    BY <1>1 DEF HeldOf, LeftOf
  <1> QED
    BY <1>2, PlaysAreFinite, TotalIsFinite

\* Calls that keep what they hold, or hold nothing before or after.
LEMMA SameShares ==
  ASSUME NEW cs \in [Submitters -> Calls], NEW ds \in [Submitters -> Calls], NEW u,
         \A q \in Submitters :
            \/ ds[q] = cs[q]
            \/ /\ cs[q].left = {} /\ cs[q].unused = {}
               /\ ds[q].left = {} /\ ds[q].unused = {}
  PROVE  HeldOf(ds, u) = HeldOf(cs, u) /\ LeftOf(ds, u) = LeftOf(cs, u)
  <1>1. \A q \in Submitters :
          /\ (IF ds[q].today /\ ds[q].user = u THEN ds[q].left \cup ds[q].unused ELSE {})
             = (IF cs[q].today /\ cs[q].user = u THEN cs[q].left \cup cs[q].unused ELSE {})
          /\ (IF ds[q].today /\ ds[q].user = u THEN ds[q].left ELSE {})
             = (IF cs[q].today /\ cs[q].user = u THEN cs[q].left ELSE {})
    OBVIOUS
  <1> QED
    BY <1>1 DEF HeldOf, LeftOf

LEMMA OneCallMoves ==
  ASSUME NEW cs \in [Submitters -> Calls], NEW ds \in [Submitters -> Calls], NEW u,
         NEW r \in Submitters, \A q \in Submitters \ {r} : ds[q] = cs[q]
  PROVE  /\ Total(HeldOf(ds, u)) + Cardinality(HeldOf(cs, u)[r])
              = Total(HeldOf(cs, u)) + Cardinality(HeldOf(ds, u)[r])
         /\ Total(LeftOf(ds, u)) + Cardinality(LeftOf(cs, u)[r])
              = Total(LeftOf(cs, u)) + Cardinality(LeftOf(ds, u)[r])
  <1>1. \A q \in Submitters \ {r} :
          HeldOf(ds, u)[q] = HeldOf(cs, u)[q] /\ LeftOf(ds, u)[q] = LeftOf(cs, u)[q]
    BY DEF HeldOf, LeftOf
  <1> QED
    BY <1>1, SharesAreSets, OneShare

\* A request holds nothing of the accounts it isn't for.
LEMMA OthersShares ==
  ASSUME NEW cs \in [Submitters -> Calls], NEW ds \in [Submitters -> Calls], NEW u,
         NEW r \in Submitters, \A q \in Submitters \ {r} : ds[q] = cs[q],
         cs[r].user = u \/ (cs[r].left = {} /\ cs[r].unused = {}),
         ds[r].user = u \/ (ds[r].left = {} /\ ds[r].unused = {}),
         NEW v, v # u
  PROVE  Total(HeldOf(ds, v)) = Total(HeldOf(cs, v)) /\ Total(LeftOf(ds, v)) = Total(LeftOf(cs, v))
  <1>1. /\ HeldOf(ds, v)[r] = {} /\ HeldOf(cs, v)[r] = {}
        /\ LeftOf(ds, v)[r] = {} /\ LeftOf(cs, v)[r] = {}
    BY DEF HeldOf, LeftOf
  <1>2. Cardinality({}) = 0
    BY FS_EmptySet
  <1>3. /\ Total(HeldOf(ds, v)) + 0 = Total(HeldOf(cs, v)) + 0
        /\ Total(LeftOf(ds, v)) + 0 = Total(LeftOf(cs, v)) + 0
    <2>1. /\ Total(HeldOf(ds, v)) + Cardinality(HeldOf(cs, v)[r])
               = Total(HeldOf(cs, v)) + Cardinality(HeldOf(ds, v)[r])
          /\ Total(LeftOf(ds, v)) + Cardinality(LeftOf(cs, v)[r])
               = Total(LeftOf(cs, v)) + Cardinality(LeftOf(ds, v)[r])
      BY OneCallMoves
    <2> QED
      BY <1>1, <1>2, <2>1
  <1>4. /\ Total(HeldOf(ds, v)) \in Nat /\ Total(HeldOf(cs, v)) \in Nat
        /\ Total(LeftOf(ds, v)) \in Nat /\ Total(LeftOf(cs, v)) \in Nat
    BY SharesAreSets
  <1> QED
    BY <1>3, <1>4

(***************************************************************************)
(* What most steps keep.                                                   *)
(***************************************************************************)
LEMMA CountedKept ==
  ASSUME ScrobblersInv, ScrobblersTypeOK', UNCHANGED books,
         \A q \in Submitters :
            \/ call'[q] = call[q]
            \/ /\ call[q].left = {} /\ call[q].unused = {}
               /\ call'[q].left = {} /\ call'[q].unused = {}
  PROVE  Counted'
  <1>1. call \in [Submitters -> Calls] /\ call' \in [Submitters -> Calls]
    BY DEF ScrobblersInv, ScrobblersTypeOK
  <1>2. \A u \in Users : HeldOf(call', u) = HeldOf(call, u) /\ LeftOf(call', u) = LeftOf(call, u)
    BY <1>1, SameShares
  <1> QED
    BY <1>2 DEF ScrobblersInv, Counted, books

LEMMA TradedKept ==
  ASSUME ScrobblersInv, UNCHANGED sessionsOf,
         \A t \in AuthTokens : authorizations[t].is = "gone" => authorizations'[t].is = "gone",
         \A r \in Submitters : call'[r].at = "trusted" =>
            \/ call[r].at = "trusted" /\ call'[r].token = call[r].token
            \/ call'[r].token = ""
  PROVE  Traded'
  <1>1. \A r \in Submitters, t \in AuthTokens : Taken(r, t)' => Taken(r, t)
    BY ScrobblersConstants DEF Taken
  <1> QED
    BY <1>1 DEF ScrobblersInv, Traded

(***************************************************************************)
(* Authorizations and credentials.                                         *)
(***************************************************************************)
AccessSteps ==
  \/ \E t \in AuthTokens, k \in ApiKeys : GetToken(t, k)
  \/ \E t \in AuthTokens, k \in ApiKeys, u \in Users : AuthorizeCallback(t, k, u)
  \/ \E t \in AuthTokens, u \in Users : ApproveAuthorization(t, u)
  \/ \E t \in AuthTokens : Expire(t)
  \/ \E u \in Users, c \in CredentialIds : CreateToken(u, c)
  \/ \E c \in CredentialIds : Revoke(c)
  \/ \E u \in Users : AskDeletion(u)
  \/ \E s \in PlayerSessions, c \in CredentialIds, h \in Handshakes : Handshake(s, c, h)
  \/ \E s \in PlayerSessions : PlayerSessionEnds(s)

LEMMA RowTypes ==
  /\ Gone \in Authorizations
  /\ \A k \in ApiKeys : [Undrawn EXCEPT !.is = "row", !.key = k] \in Authorizations
  /\ \A k \in ApiKeys, u \in Users :
        [is |-> "row", user |-> u, key |-> k, expired |-> FALSE] \in Authorizations
  /\ \A a \in Authorizations : [a EXCEPT !.expired = TRUE] \in Authorizations
  /\ \A a \in Authorizations, u \in Users : [a EXCEPT !.user = u] \in Authorizations
  /\ \A a \in Authorizations, u \in Users : [a EXCEPT !.user = u].is = a.is
  /\ Revoked \in Credentials /\ Revoked.is = "gone"
  /\ \A u \in Users : [is |-> "token", user |-> u, key |-> ""] \in Credentials
  /\ \A u \in Users, k \in ApiKeys \cup {""} :
        [is |-> "session", user |-> u, key |-> k] \in Credentials
  /\ Gone.is = "gone" /\ Undrawn.is = "undrawn"
BY DEF Gone, Undrawn, Revoked, NoCredential, Authorizations, Credentials

\* What each of them does.
AccessMoved ==
  /\ UNCHANGED <<books, call, outbox, told, sessionsOf>>
  /\ ScrobblersTypeOK'
  /\ RowsOwned'
  /\ \A t \in AuthTokens : authorizations[t].is = "gone" => authorizations'[t].is = "gone"

LEMMA AccessMoves ==
  ASSUME ScrobblersInv, AccessSteps
  PROVE  AccessMoved
  <1>0. /\ ScrobblersTypeOK /\ RowsOwned
        /\ authorizations \in [AuthTokens -> Authorizations]
        /\ scrobblerCredentials \in [CredentialIds -> Credentials]
        /\ compatEvents \in Nat
    BY DEF ScrobblersInv, ScrobblersTypeOK
  <1>1. ASSUME NEW t \in AuthTokens, NEW k \in ApiKeys,
               GetToken(t, k)
        PROVE  AccessMoved
    <2>1. /\ compatEvents' = compatEvents + 1
          /\ UNCHANGED <<scrobblerCredentials, players, burnt, leaving, sessionsOf, books, call,
                         outbox, failures, told>>
      BY <1>1 DEF GetToken, CompatEvent
    <2>2. /\ authorizations' \in [AuthTokens -> Authorizations]
          /\ \A s \in AuthTokens :
               authorizations[s].is = "gone" => authorizations'[s].is = "gone"
      BY <1>0, <1>1, RowTypes DEF GetToken
    <2> QED
      BY <1>0, <2>1, <2>2 DEF AccessMoved, ScrobblersTypeOK, RowsOwned, Row, books
  <1>2. ASSUME NEW t \in AuthTokens, NEW k \in ApiKeys, NEW u \in Users,
               AuthorizeCallback(t, k, u)
        PROVE  AccessMoved
    <2>1. /\ compatEvents' = compatEvents + 1
          /\ UNCHANGED <<scrobblerCredentials, players, burnt, leaving, sessionsOf, books, call,
                         outbox, failures, told>>
      BY <1>2 DEF AuthorizeCallback, CompatEvent
    <2>2. /\ authorizations' \in [AuthTokens -> Authorizations]
          /\ \A s \in AuthTokens :
               authorizations[s].is = "gone" => authorizations'[s].is = "gone"
      BY <1>0, <1>2, RowTypes DEF AuthorizeCallback
    <2> QED
      BY <1>0, <2>1, <2>2 DEF AccessMoved, ScrobblersTypeOK, RowsOwned, Row, books
  <1>3. ASSUME NEW t \in AuthTokens, NEW u \in Users,
               ApproveAuthorization(t, u)
        PROVE  AccessMoved
    <2>1. /\ compatEvents' = compatEvents + 1
          /\ UNCHANGED <<scrobblerCredentials, players, burnt, leaving, sessionsOf, books, call,
                         outbox, failures, told>>
      BY <1>3 DEF ApproveAuthorization, CompatEvent
    <2>2. /\ authorizations' \in [AuthTokens -> Authorizations]
          /\ \A s \in AuthTokens :
               authorizations[s].is = "gone" => authorizations'[s].is = "gone"
      BY <1>0, <1>3, RowTypes DEF ApproveAuthorization
    <2> QED
      BY <1>0, <2>1, <2>2 DEF AccessMoved, ScrobblersTypeOK, RowsOwned, Row, books
  <1>4. ASSUME NEW t \in AuthTokens,
               Expire(t)
        PROVE  AccessMoved
    <2>1. /\ compatEvents' = compatEvents + 1
          /\ UNCHANGED <<scrobblerCredentials, players, burnt, leaving, sessionsOf, books, call,
                         outbox, failures, told>>
      BY <1>4 DEF Expire, CompatEvent
    <2>2. /\ authorizations' \in [AuthTokens -> Authorizations]
          /\ \A s \in AuthTokens :
               authorizations[s].is = "gone" => authorizations'[s].is = "gone"
      BY <1>0, <1>4, RowTypes DEF Expire
    <2> QED
      BY <1>0, <2>1, <2>2 DEF AccessMoved, ScrobblersTypeOK, RowsOwned, Row, books
  <1>5. ASSUME NEW u \in Users, NEW c \in CredentialIds, CreateToken(u, c)
        PROVE  AccessMoved
    <2>1. /\ compatEvents' = compatEvents + 1
          /\ UNCHANGED <<authorizations, players, burnt, leaving, sessionsOf, books, call,
                         outbox, failures, told>>
      BY <1>5 DEF CreateToken, CompatEvent
    <2>2. scrobblerCredentials' \in [CredentialIds -> Credentials] /\ RowsOwned'
      BY <1>0, <1>5, RowTypes DEF CreateToken, RowsOwned, Row
    <2> QED
      BY <1>0, <2>1, <2>2 DEF AccessMoved, ScrobblersTypeOK, books
  <1>6. ASSUME NEW c \in CredentialIds, Revoke(c)
        PROVE  AccessMoved
    <2>1. /\ compatEvents' = compatEvents + 1
          /\ UNCHANGED <<authorizations, players, burnt, leaving, sessionsOf, books, call,
                         outbox, failures, told>>
      BY <1>6 DEF Revoke, CompatEvent
    <2>2. scrobblerCredentials' \in [CredentialIds -> Credentials] /\ RowsOwned'
      BY <1>0, <1>6, RowTypes DEF Revoke, RowsOwned, Row
    <2> QED
      BY <1>0, <2>1, <2>2 DEF AccessMoved, ScrobblersTypeOK, books
  <1>7. ASSUME NEW u \in Users, AskDeletion(u)
        PROVE  AccessMoved
    <2>1. /\ compatEvents' = compatEvents + 1
          /\ UNCHANGED <<players, burnt, sessionsOf, books, call, outbox, failures, told>>
          /\ leaving' = IF u \in leaving THEN leaving \ {u} ELSE leaving \cup {u}
      BY <1>7 DEF AskDeletion, CompatEvent
    <2>2. /\ authorizations' \in [AuthTokens -> Authorizations]
          /\ \A s \in AuthTokens :
               authorizations[s].is = "gone" => authorizations'[s].is = "gone"
      BY <1>0, <1>7, RowTypes DEF AskDeletion
    <2>3. scrobblerCredentials' \in [CredentialIds -> Credentials] /\ RowsOwned'
      BY <1>0, <1>7, RowTypes DEF AskDeletion, RowsOwned, Row
    <2>4. leaving' \subseteq Users
      BY <1>0, <2>1 DEF ScrobblersTypeOK
    <2> QED
      BY <1>0, <2>1, <2>2, <2>3, <2>4 DEF AccessMoved, ScrobblersTypeOK, books
  <1>8. ASSUME NEW s \in PlayerSessions, NEW c \in CredentialIds, NEW h \in Handshakes,
               Handshake(s, c, h)
        PROVE  AccessMoved
    <2>1. /\ compatEvents' = compatEvents + 1
          /\ UNCHANGED <<authorizations, scrobblerCredentials, leaving, sessionsOf, books, call,
                         outbox, failures, told>>
          /\ burnt' \subseteq burnt \cup {h}
          /\ players' = [players EXCEPT ![s] = c]
      BY <1>8 DEF Handshake, CompatEvent
    <2>2. burnt' \subseteq Handshakes /\ players' \in [PlayerSessions -> CredentialIds \cup {"none"}]
      BY <1>0, <2>1 DEF ScrobblersTypeOK
    <2> QED
      BY <1>0, <2>1, <2>2 DEF AccessMoved, ScrobblersTypeOK, RowsOwned, Row, books
  <1>9. ASSUME NEW s \in PlayerSessions, PlayerSessionEnds(s)
        PROVE  AccessMoved
    <2>1. /\ compatEvents' = compatEvents + 1
          /\ UNCHANGED <<authorizations, scrobblerCredentials, burnt, leaving, sessionsOf, books,
                         call, outbox, failures, told>>
          /\ players' = [players EXCEPT ![s] = "none"]
      BY <1>9 DEF PlayerSessionEnds, CompatEvent
    <2>2. players' \in [PlayerSessions -> CredentialIds \cup {"none"}]
      BY <1>0, <2>1 DEF ScrobblersTypeOK
    <2> QED
      BY <1>0, <2>1, <2>2 DEF AccessMoved, ScrobblersTypeOK, RowsOwned, Row, books
  <1> QED
    BY <1>1, <1>2, <1>3, <1>4, <1>5, <1>6, <1>7, <1>8, <1>9 DEF AccessSteps

LEMMA AccessStepsHold ==
  ASSUME ScrobblersInv, AccessSteps
  PROVE  ScrobblersInv'
  <1>1. AccessMoved
    BY AccessMoves
  <1>2. /\ UNCHANGED <<books, call, outbox, told, sessionsOf>>
        /\ ScrobblersTypeOK' /\ RowsOwned'
        /\ \A t \in AuthTokens : authorizations[t].is = "gone" => authorizations'[t].is = "gone"
    BY <1>1 DEF AccessMoved
  <1>3. CallsStand' /\ StoredStands'
    BY <1>2 DEF ScrobblersInv, CallsStand, CallStands, StoredStands, Accepted, Usable, books
  <1>4. Traded'
    BY <1>2, TradedKept
  <1>5. Counted'
    BY <1>2, CountedKept
  <1> QED
    BY <1>2, <1>3, <1>4, <1>5 DEF ScrobblersInv

(***************************************************************************)
(* A request that begins, or that issues a session.                        *)
(***************************************************************************)
LEMMA CallTypes ==
  /\ NoSubmission \in Calls
  /\ \A u \in Users, k \in ApiKeys, t \in AuthTokens :
        [NoSubmission EXCEPT !.at = "trusted", !.token = t, !.key = k, !.user = u] \in Calls
  /\ \A u \in Users, k \in ApiKeys :
        [NoSubmission EXCEPT !.at = "trusted", !.user = u, !.key = k] \in Calls
  /\ \A u \in Users, b \in SUBSET Played, w \in BOOLEAN :
        [NoSubmission EXCEPT !.at = "read", !.user = u, !.batch = b, !.whole = w] \in Calls
BY DEF NoSubmission, Calls

LEMMA NothingSubmitted ==
  /\ NoSubmission.at = "idle" /\ NoSubmission.left = {} /\ NoSubmission.unused = {}
  /\ NoSubmission.today = TRUE
BY DEF NoSubmission

\* A call that holds nothing, put in the place of one that holds nothing.
LEMMA CallsWithout ==
  ASSUME ScrobblersInv, ScrobblersTypeOK', UNCHANGED books, UNCHANGED told,
         NEW r \in Submitters, NEW c \in Calls, call' = [call EXCEPT ![r] = c],
         call[r].at # "granted", c.at # "granted", c.at # "idle" => c.user \in Users,
         c.left = {}, c.unused = {}, c.today
  PROVE  CallsStand' /\ StoredStands' /\ Counted'
  <1>1. call \in [Submitters -> Calls]
    BY DEF ScrobblersInv, ScrobblersTypeOK
  <1>2. call'[r] = c /\ \A q \in Submitters \ {r} : call'[q] = call[q]
    BY <1>1
  <1>3. \A q \in Submitters : CallStands(q)'
    <2> TAKE q \in Submitters
    <2>1. CASE q = r
      BY <1>2, <2>1 DEF CallStands
    <2>2. CASE q # r
      <3>1. CallStands(q) /\ call'[q] = call[q] /\ stored' = stored
        BY <1>2, <2>2 DEF ScrobblersInv, CallsStand, books
      <3> QED
        BY <3>1 DEF CallStands, Accepted, Usable
    <2> QED
      BY <2>1, <2>2
  <1>4. call[r].left = {} /\ call[r].unused = {}
    BY DEF ScrobblersInv, CallsStand, CallStands
  <1>5. Counted'
    BY <1>2, <1>4, CountedKept
  <1> QED
    BY <1>3, <1>5 DEF CallsStand, ScrobblersInv, StoredStands, books

LEMMA TakesHold ==
  ASSUME ScrobblersInv, NEW r \in Submitters, NEW t \in AuthTokens, NEW k \in ApiKeys,
         TakeAuthorization(r, t, k)
  PROVE  ScrobblersInv'
  <1> DEFINE u == authorizations[t].user
             c == [NoSubmission EXCEPT !.at = "trusted", !.token = t, !.key = k, !.user = u]
  <1>1. /\ ScrobblersTypeOK /\ authorizations \in [AuthTokens -> Authorizations]
        /\ call \in [Submitters -> Calls] /\ sessionsOf \in [AuthTokens -> Nat]
    BY DEF ScrobblersInv, ScrobblersTypeOK
  <1>2. /\ call[r].at = "idle" /\ authorizations[t].is = "row" /\ u # 0
        /\ authorizations' = [authorizations EXCEPT ![t] = Gone]
        /\ call' = [call EXCEPT ![r] = c]
        /\ UNCHANGED <<scrobblerCredentials, players, burnt, leaving, sessionsOf, books, outbox,
                       compatEvents, failures, told>>
    BY DEF TakeAuthorization, Takeable
  <1>3. u \in Users
    BY <1>1, <1>2 DEF Authorizations
  <1>4. c \in Calls
    BY <1>3, CallTypes
  <1>5. /\ c.at = "trusted" /\ c.token = t /\ c.user = u
        /\ c.left = {} /\ c.unused = {} /\ c.today = TRUE
    BY DEF NoSubmission
  <1> HIDE DEF u, c
  <1>6. ScrobblersTypeOK'
    BY <1>1, <1>2, <1>4, RowTypes DEF ScrobblersTypeOK, books
  <1>7. CallsStand' /\ StoredStands' /\ Counted'
    BY <1>2, <1>3, <1>4, <1>5, <1>6, CallsWithout
  <1>8. RowsOwned'
    BY <1>2 DEF ScrobblersInv, RowsOwned, Row
  <1>9. Traded'
    <2>1. /\ call'[r] = c /\ \A q \in Submitters \ {r} : call'[q] = call[q]
          /\ authorizations'[t] = Gone
          /\ \A s \in AuthTokens \ {t} : authorizations'[s] = authorizations[s]
          /\ sessionsOf' = sessionsOf
      BY <1>1, <1>2
    <2>2. Gone.is = "gone"
      BY RowTypes
    <2>3. \A s \in AuthTokens, q \in Submitters :
            Taken(q, s)' <=> (IF q = r THEN s = t ELSE Taken(q, s))
      BY <1>5, <2>1 DEF Taken
    <2>4. sessionsOf[t] = 0 /\ \A q \in Submitters : ~Taken(q, t)
      <3>1. sessionsOf[t] \in Nat /\ sessionsOf[t] <= 1 /\ sessionsOf[t] # 1
        BY <1>1, <1>2 DEF ScrobblersInv, Traded
      <3> QED
        BY <1>2, <3>1 DEF ScrobblersInv, Traded
    <2>5. \A s \in AuthTokens : ~Taken(r, s)
      BY <1>2 DEF Taken
    <2> QED
      BY <2>1, <2>2, <2>3, <2>4, <2>5 DEF ScrobblersInv, Traded
  <1> QED
    BY <1>6, <1>7, <1>8, <1>9 DEF ScrobblersInv

LEMMA LogInsHold ==
  ASSUME ScrobblersInv, NEW r \in Submitters, NEW u \in Users, NEW k \in ApiKeys, LogIn(r, u, k)
  PROVE  ScrobblersInv'
  <1> DEFINE c == [NoSubmission EXCEPT !.at = "trusted", !.user = u, !.key = k]
  <1>1. ScrobblersTypeOK /\ call \in [Submitters -> Calls]
    BY DEF ScrobblersInv, ScrobblersTypeOK
  <1>2. /\ call[r].at = "idle" /\ call' = [call EXCEPT ![r] = c]
        /\ compatEvents' = compatEvents + 1
        /\ UNCHANGED <<access, books, outbox, failures, told>>
    BY DEF LogIn, CompatEvent
  <1>3. c \in Calls
    BY CallTypes
  <1>4. /\ c.at = "trusted" /\ c.token = "" /\ c.user = u
        /\ c.left = {} /\ c.unused = {} /\ c.today = TRUE
    BY DEF NoSubmission
  <1> HIDE DEF c
  <1>5. ScrobblersTypeOK'
    BY <1>1, <1>2, <1>3 DEF ScrobblersTypeOK, books, access
  <1>6. CallsStand' /\ StoredStands' /\ Counted'
    BY <1>2, <1>3, <1>4, <1>5, CallsWithout
  <1>7. RowsOwned'
    BY <1>2 DEF ScrobblersInv, RowsOwned, Row, access
  <1>8. \A q \in Submitters : call'[q] = IF q = r THEN c ELSE call[q]
    BY <1>1, <1>2
  <1>9. Traded'
    BY <1>2, <1>4, <1>8, TradedKept DEF access
  <1> QED
    BY <1>5, <1>6, <1>7, <1>9 DEF ScrobblersInv

LEMMA IssuesHold ==
  ASSUME ScrobblersInv, NEW r \in Submitters, NEW c \in CredentialIds, IssueSession(r, c)
  PROVE  ScrobblersInv'
  <1> DEFINE row == [is |-> "session", user |-> call[r].user, key |-> call[r].key]
  <1>1. /\ ScrobblersTypeOK /\ call \in [Submitters -> Calls]
        /\ scrobblerCredentials \in [CredentialIds -> Credentials]
        /\ sessionsOf \in [AuthTokens -> Nat]
    BY DEF ScrobblersInv, ScrobblersTypeOK
  <1>2. /\ call[r].at = "trusted"
        /\ scrobblerCredentials' = [scrobblerCredentials EXCEPT ![c] = row]
        /\ sessionsOf' = [t \in AuthTokens |->
                              sessionsOf[t] + IF call[r].token = t THEN 1 ELSE 0]
        /\ call' = [call EXCEPT ![r] = NoSubmission]
        /\ UNCHANGED <<authorizations, players, burnt, leaving, books, outbox, compatEvents,
                       failures, told>>
    BY DEF IssueSession
  <1>3. call[r].user \in Users /\ call[r].key \in ApiKeys \cup {""}
    BY <1>1, <1>2 DEF ScrobblersInv, CallsStand, CallStands, Calls
  <1>4. row \in Credentials /\ row.user \in Users
    BY <1>3, RowTypes
  <1> HIDE DEF row
  <1>5. ScrobblersTypeOK'
    <2>1. sessionsOf' \in [AuthTokens -> Nat]
      BY <1>1, <1>2
    <2> QED
      BY <1>1, <1>2, <1>4, <2>1, CallTypes DEF ScrobblersTypeOK, books
  <1>6. CallsStand' /\ StoredStands' /\ Counted'
    BY <1>2, <1>5, CallTypes, NothingSubmitted, CallsWithout
  <1>7. RowsOwned'
    BY <1>1, <1>2, <1>4 DEF ScrobblersInv, RowsOwned, Row
  <1>8. \A q \in Submitters : call'[q] = IF q = r THEN NoSubmission ELSE call[q]
    BY <1>1, <1>2
  <1>9. Traded'
    <2>1. \A t \in AuthTokens : sessionsOf'[t] = IF Taken(r, t) THEN sessionsOf[t] + 1
                                                               ELSE sessionsOf[t]
      BY <1>1, <1>2 DEF Taken
    <2>2. \A t \in AuthTokens, q \in Submitters : Taken(q, t)' <=> q # r /\ Taken(q, t)
      BY <1>8, NothingSubmitted DEF Taken
    <2>3. \A t \in AuthTokens : Taken(r, t) =>
             authorizations[t].is = "gone" /\ sessionsOf'[t] = 1
      BY <2>1 DEF ScrobblersInv, Traded
    <2>4. authorizations' = authorizations
      BY <1>2
    <2> QED
      BY <2>1, <2>2, <2>3, <2>4 DEF ScrobblersInv, Traded
  <1> QED
    BY <1>5, <1>6, <1>7, <1>9 DEF ScrobblersInv

LEMMA BeginsHold ==
  ASSUME ScrobblersInv, NEW r \in Submitters, NEW c \in CredentialIds, NEW b \in SUBSET Played,
         NEW w \in BOOLEAN, BeginSubmission(r, c, b, w)
  PROVE  ScrobblersInv'
  <1> DEFINE u == scrobblerCredentials[c].user
             d == [NoSubmission EXCEPT !.at = "read", !.user = u, !.batch = b, !.whole = w]
  <1>1. ScrobblersTypeOK /\ call \in [Submitters -> Calls]
    BY DEF ScrobblersInv, ScrobblersTypeOK
  <1>2. /\ Row(c) /\ call[r].at = "idle" /\ call' = [call EXCEPT ![r] = d]
        /\ UNCHANGED <<access, books, outbox, compatEvents, failures, told>>
    BY DEF BeginSubmission
  <1>3. u \in Users
    BY <1>2 DEF ScrobblersInv, RowsOwned
  <1>4. d \in Calls
    BY <1>3, CallTypes
  <1>5. d.at = "read" /\ d.user = u /\ d.left = {} /\ d.unused = {} /\ d.today = TRUE
    BY DEF NoSubmission
  <1> HIDE DEF u, d
  <1>6. ScrobblersTypeOK'
    BY <1>1, <1>2, <1>4 DEF ScrobblersTypeOK, books, access
  <1>7. CallsStand' /\ StoredStands' /\ Counted'
    BY <1>2, <1>3, <1>4, <1>5, <1>6, CallsWithout
  <1>8. RowsOwned'
    BY <1>2 DEF ScrobblersInv, RowsOwned, Row, access
  <1>9. \A q \in Submitters : call'[q] = IF q = r THEN d ELSE call[q]
    BY <1>1, <1>2
  <1>10. Traded'
    BY <1>2, <1>5, <1>9, TradedKept DEF access
  <1> QED
    BY <1>6, <1>7, <1>8, <1>10 DEF ScrobblersInv

(***************************************************************************)
(* A request that ends, and gives back no more than it held.               *)
(***************************************************************************)
Ends(r) == call' = [call EXCEPT ![r] = NoSubmission]

LEMMA CallsEnd ==
  ASSUME ScrobblersInv, NEW r \in Submitters,
         UNCHANGED <<access, stored, charged, uncounted, compatEvents>>,
         Ends(r),
         told' \in [Users -> SUBSET Played], \A u \in Users : told'[u] \subseteq stored[u],
         outbox' \in [Submitters -> SUBSET Played], failures' \in Nat,
         allowance' \in [Users -> Int],
         \A u \in Users : allowance'[u] >= allowance[u] - Cardinality(HeldOf(call, u)[r])
  PROVE  ScrobblersInv'
  <1>1. ScrobblersTypeOK /\ call \in [Submitters -> Calls] /\ allowance \in [Users -> Int]
    BY DEF ScrobblersInv, ScrobblersTypeOK
  <1>2. call'[r] = NoSubmission /\ \A q \in Submitters \ {r} : call'[q] = call[q]
    BY <1>1 DEF Ends
  <1>3. ScrobblersTypeOK' /\ call' \in [Submitters -> Calls]
    BY <1>1, CallTypes DEF ScrobblersTypeOK, access, Ends
  <1>4. CallsStand'
    <2> SUFFICES ASSUME NEW q \in Submitters PROVE CallStands(q)'
      BY DEF CallsStand
    <2>1. CASE q = r
      BY <1>2, <2>1, NothingSubmitted DEF CallStands
    <2>2. CASE q # r
      <3>1. CallStands(q) /\ call'[q] = call[q] /\ stored' = stored
        BY <1>2, <2>2 DEF ScrobblersInv, CallsStand
      <3> QED
        BY <3>1 DEF CallStands, Accepted, Usable
    <2> QED
      BY <2>1, <2>2
  <1>5. StoredStands' /\ RowsOwned'
    BY DEF ScrobblersInv, StoredStands, RowsOwned, Row, access
  <1>6. Traded'
    <2>1. \A q \in Submitters : call'[q].at = "trusted" =>
             call[q].at = "trusted" /\ call'[q].token = call[q].token
      BY <1>2, NothingSubmitted
    <2> QED
      BY <2>1, TradedKept DEF access
  <1>7. ASSUME NEW u \in Users \ uncounted'
        PROVE  /\ Cardinality(charged'[u]) + Total(HeldOf(call', u)) <= allowance'[u]
               /\ Cardinality(charged'[u]) + Total(LeftOf(call', u)) <= DAILY_LIMIT
    <2>1. /\ Cardinality(charged[u]) + Total(HeldOf(call, u)) <= allowance[u]
          /\ Cardinality(charged[u]) + Total(LeftOf(call, u)) <= DAILY_LIMIT
      BY DEF ScrobblersInv, Counted
    <2>2. HeldOf(call', u)[r] = {} /\ LeftOf(call', u)[r] = {}
      BY <1>2, NothingSubmitted DEF HeldOf, LeftOf
    <2>3. Cardinality({}) = 0
      BY FS_EmptySet
    <2>4. /\ Total(HeldOf(call', u)) + Cardinality(HeldOf(call, u)[r])
               = Total(HeldOf(call, u)) + Cardinality(HeldOf(call', u)[r])
          /\ Total(LeftOf(call', u)) + Cardinality(LeftOf(call, u)[r])
               = Total(LeftOf(call, u)) + Cardinality(LeftOf(call', u)[r])
      BY <1>1, <1>2, <1>3, OneCallMoves
    <2>9. Cardinality(HeldOf(call', u)[r]) = 0 /\ Cardinality(LeftOf(call', u)[r]) = 0
      BY <2>2, <2>3
    <2>5. /\ Total(HeldOf(call', u)) \in Nat /\ Total(HeldOf(call, u)) \in Nat
          /\ Total(LeftOf(call', u)) \in Nat /\ Total(LeftOf(call, u)) \in Nat
          /\ Cardinality(HeldOf(call, u)[r]) \in Nat /\ Cardinality(LeftOf(call, u)[r]) \in Nat
      BY <1>1, <1>3, SharesAreSets
    <2>6. Cardinality(charged[u]) \in Nat /\ charged' = charged
      <3>1. charged[u] \in SUBSET Played
        BY <1>1 DEF ScrobblersTypeOK
      <3> QED
        BY <3>1, PlaysAreFinite
    <2>7. allowance'[u] >= allowance[u] - Cardinality(HeldOf(call, u)[r])
      OBVIOUS
    <2>8. allowance'[u] \in Int /\ allowance[u] \in Int /\ DAILY_LIMIT \in Nat
      BY <1>1, ScrobblersConstants
    <2> QED
      BY <2>1, <2>4, <2>5, <2>6, <2>7, <2>8, <2>9
  <1> QED
    BY <1>3, <1>4, <1>5, <1>6, <1>7 DEF ScrobblersInv, Counted

\* What a request gives back is what it held.
LEMMA Released ==
  ASSUME ScrobblersInv, NEW r \in Submitters, call[r].at = "granted",
         Release(r, Cardinality(call[r].unused) + Cardinality(call[r].left))
  PROVE  /\ allowance' \in [Users -> Int]
         /\ \A u \in Users : allowance'[u] >= allowance[u] - Cardinality(HeldOf(call, u)[r])
  <1> DEFINE n == Cardinality(call[r].unused) + Cardinality(call[r].left)
  <1>1. call \in [Submitters -> Calls] /\ allowance \in [Users -> Int]
    BY DEF ScrobblersInv, ScrobblersTypeOK
  <1>2. call[r].left \in SUBSET Played /\ call[r].unused \in SUBSET Played
    BY <1>1 DEF Calls
  <1>3. call[r].user \in Users /\ call[r].left \cap call[r].unused = {}
    BY DEF ScrobblersInv, CallsStand, CallStands
  <1>4. n \in Nat /\ n = Cardinality(call[r].left \cup call[r].unused)
    <2>1. /\ IsFiniteSet(call[r].left) /\ Cardinality(call[r].left) \in Nat
          /\ IsFiniteSet(call[r].unused) /\ Cardinality(call[r].unused) \in Nat
      BY <1>2, PlaysAreFinite
    <2>2. Cardinality(call[r].left \cap call[r].unused) = 0
      BY <1>3, FS_EmptySet
    <2>3. Cardinality(call[r].left \cup call[r].unused)
             = Cardinality(call[r].left) + Cardinality(call[r].unused)
               - Cardinality(call[r].left \cap call[r].unused)
      BY <2>1, FS_Union
    <2> QED
      BY <2>1, <2>2, <2>3
  <1>5. allowance' = IF call[r].today THEN [allowance EXCEPT ![call[r].user] = @ - n]
                                      ELSE allowance
    BY DEF Release
  <1> HIDE DEF n
  <1>6. allowance' \in [Users -> Int]
    BY <1>1, <1>3, <1>4, <1>5
  <1>7. ASSUME NEW u \in Users
        PROVE  allowance'[u] >= allowance[u] - Cardinality(HeldOf(call, u)[r])
    <2>1. Cardinality(HeldOf(call, u)[r]) \in Nat /\ allowance[u] \in Int
      BY <1>1, SharesAreSets
    <2>2. CASE call[r].today /\ call[r].user = u
      <3>1. Cardinality(HeldOf(call, u)[r]) = n
        BY <1>4, <2>2 DEF HeldOf
      <3>2. allowance'[u] = allowance[u] - n
        BY <1>1, <1>3, <1>5, <2>2
      <3> QED
        BY <2>1, <3>1, <3>2
    <2>3. CASE ~(call[r].today /\ call[r].user = u)
      <3>1. allowance'[u] = allowance[u]
        BY <1>1, <1>3, <1>5, <2>3
      <3> QED
        BY <2>1, <3>1
    <2> QED
      BY <2>2, <2>3
  <1> QED
    BY <1>6, <1>7

LEMMA StoreFailuresHold ==
  ASSUME ScrobblersInv, NEW r \in Submitters, StoreFails(r)
  PROVE  ScrobblersInv'
  <1>1. /\ failures' = failures + 1 /\ call[r].at = "granted"
        /\ Release(r, Cardinality(call[r].unused) + Cardinality(call[r].left))
        /\ call' = [call EXCEPT ![r] = NoSubmission]
        /\ UNCHANGED <<access, stored, charged, uncounted, outbox, compatEvents, told>>
    BY DEF StoreFails, Failure
  <1>2. /\ told' \in [Users -> SUBSET Played] /\ \A u \in Users : told'[u] \subseteq stored[u]
        /\ outbox' \in [Submitters -> SUBSET Played] /\ failures' \in Nat
    BY <1>1 DEF ScrobblersInv, ScrobblersTypeOK, StoredStands
  <1>3. /\ allowance' \in [Users -> Int]
        /\ \A u \in Users : allowance'[u] >= allowance[u] - Cardinality(HeldOf(call, u)[r])
    BY <1>1, Released
  <1> QED
    BY <1>1, <1>2, <1>3, CallsEnd DEF Ends

\* With nothing left to store, it is what wasn't used that is given back.
LEMMA UnusedIsAll ==
  ASSUME ScrobblersInv, NEW r \in Submitters, call[r].left = {},
         Release(r, Cardinality(call[r].unused))
  PROVE  Release(r, Cardinality(call[r].unused) + Cardinality(call[r].left))
  <1>1. call[r].unused \in SUBSET Played
    BY DEF ScrobblersInv, ScrobblersTypeOK, Calls
  <1>2. Cardinality(call[r].unused) \in Nat /\ Cardinality(call[r].left) = 0
    BY <1>1, PlaysAreFinite, FS_EmptySet
  <1>3. Cardinality(call[r].unused) + Cardinality(call[r].left) = Cardinality(call[r].unused)
    BY <1>2
  <1> QED
    BY <1>3

LEMMA AnswersHold ==
  ASSUME ScrobblersInv, NEW r \in Submitters, AnswerClient(r)
  PROVE  ScrobblersInv'
  <1>1. /\ call[r].at = "granted" /\ call[r].left = {}
        /\ Release(r, Cardinality(call[r].unused))
        /\ outbox' = [outbox EXCEPT ![r] = @ \ Dropped(r)]
        /\ told' = [told EXCEPT ![call[r].user] = @ \cup Heard(r)]
        /\ call' = [call EXCEPT ![r] = NoSubmission]
        /\ UNCHANGED <<access, stored, charged, uncounted, compatEvents, failures>>
    BY DEF AnswerClient
  <1>2. ScrobblersTypeOK /\ told \in [Users -> SUBSET Played] /\ stored \in [Users -> SUBSET Played]
    BY DEF ScrobblersInv, ScrobblersTypeOK
  <1>3. call[r].user \in Users /\ Accepted(r) \subseteq stored[call[r].user]
    BY <1>1 DEF ScrobblersInv, CallsStand, CallStands
  <1>4. Heard(r) \subseteq stored[call[r].user]
    BY <1>3 DEF Heard
  <1>5. \A u \in Users : told'[u] \subseteq told[u] \cup stored[u]
    BY <1>1, <1>2, <1>4
  <1>6. told' \in [Users -> SUBSET Played] /\ \A u \in Users : told'[u] \subseteq stored[u]
    <2>1. \A u \in Users : told[u] \subseteq stored[u]
      BY DEF ScrobblersInv, StoredStands
    <2>2. \A u \in Users : told'[u] \subseteq stored[u]
      BY <1>5, <2>1
    <2>3. Heard(r) \subseteq Played
      BY <1>2, <1>3, <1>4
    <2> QED
      BY <1>1, <1>2, <2>2, <2>3
  <1>7. outbox' \in [Submitters -> SUBSET Played] /\ failures' \in Nat
    BY <1>1, <1>2 DEF ScrobblersTypeOK
  <1>8. /\ allowance' \in [Users -> Int]
        /\ \A u \in Users : allowance'[u] >= allowance[u] - Cardinality(HeldOf(call, u)[r])
    BY <1>1, UnusedIsAll, Released
  <1> QED
    BY <1>1, <1>6, <1>7, <1>8, CallsEnd DEF Ends

LEMMA LostAnswersHold ==
  ASSUME ScrobblersInv, NEW r \in Submitters, AnswerLost(r)
  PROVE  ScrobblersInv'
  <1>1. /\ failures' = failures + 1 /\ call[r].at = "granted" /\ call[r].left = {}
        /\ Release(r, Cardinality(call[r].unused))
        /\ call' = [call EXCEPT ![r] = NoSubmission]
        /\ UNCHANGED <<access, stored, charged, uncounted, outbox, compatEvents, told>>
    BY DEF AnswerLost, Failure
  <1>2. /\ told' \in [Users -> SUBSET Played] /\ \A u \in Users : told'[u] \subseteq stored[u]
        /\ outbox' \in [Submitters -> SUBSET Played] /\ failures' \in Nat
    BY <1>1 DEF ScrobblersInv, ScrobblersTypeOK, StoredStands
  <1>3. /\ allowance' \in [Users -> Int]
        /\ \A u \in Users : allowance'[u] >= allowance[u] - Cardinality(HeldOf(call, u)[r])
    BY <1>1, UnusedIsAll, Released
  <1> QED
    BY <1>1, <1>2, <1>3, CallsEnd DEF Ends

LEMMA StopsHold ==
  ASSUME ScrobblersInv, NEW r \in Submitters, ServerStops(r)
  PROVE  ScrobblersInv'
  <1>1. /\ failures' = failures + 1
        /\ call' = [call EXCEPT ![r] = NoSubmission]
        /\ UNCHANGED <<access, allowance, stored, charged, uncounted, outbox, compatEvents, told>>
    BY DEF ServerStops, Failure, books
  <1>2. /\ told' \in [Users -> SUBSET Played] /\ \A u \in Users : told'[u] \subseteq stored[u]
        /\ outbox' \in [Submitters -> SUBSET Played] /\ failures' \in Nat
        /\ allowance \in [Users -> Int] /\ call \in [Submitters -> Calls]
    BY <1>1 DEF ScrobblersInv, ScrobblersTypeOK, StoredStands
  <1>3. \A u \in Users : allowance'[u] >= allowance[u] - Cardinality(HeldOf(call, u)[r])
    <2> TAKE u \in Users
    <2>1. Cardinality(HeldOf(call, u)[r]) \in Nat /\ allowance[u] \in Int
      BY <1>2, SharesAreSets
    <2> QED
      BY <1>1, <2>1
  <1> QED
    BY <1>1, <1>2, <1>3, CallsEnd DEF Ends

(***************************************************************************)
(* A request that is granted plays.                                        *)
(***************************************************************************)
LEMMA GrantsStand ==
  ASSUME ScrobblersInv, NEW r \in Submitters, call[r].at = "read", NEW n, Granted(r, n),
         UNCHANGED <<access, stored, charged, outbox, told, compatEvents>>,
         allowance' \in [Users -> Int], uncounted' \subseteq Users, failures' \in Nat
  PROVE  /\ ScrobblersTypeOK' /\ CallsStand' /\ StoredStands' /\ RowsOwned' /\ Traded'
         /\ \A q \in Submitters \ {r} : call'[q] = call[q]
         /\ \A v : HeldOf(call, v)[r] = {} /\ LeftOf(call, v)[r] = {}
         /\ \A v : LET share == IF v = call[r].user THEN FirstOf(Usable(call[r].batch), n)
                                                    ELSE {} IN
                   HeldOf(call', v)[r] = share /\ LeftOf(call', v)[r] = share
  <1> DEFINE W == Usable(call[r].batch)
             F == FirstOf(W, n)
             c == [call[r] EXCEPT !.at = "granted", !.left = F, !.refused = W \ F]
  <1>1. ScrobblersTypeOK /\ call \in [Submitters -> Calls]
    BY DEF ScrobblersInv, ScrobblersTypeOK
  <1>2. call' = [call EXCEPT ![r] = c]
    BY DEF Granted
  <1>3. call[r].left = {} /\ call[r].unused = {} /\ call[r].today /\ call[r].user \in Users
    BY DEF ScrobblersInv, CallsStand, CallStands
  <1>4. F \subseteq W /\ W \subseteq Played
    BY <1>1 DEF FirstOf, Usable, Calls
  <1>5. /\ c.at = "granted" /\ c.left = F /\ c.refused = W \ F /\ c.unused = {}
        /\ c.user = call[r].user /\ c.today = call[r].today /\ c.batch = call[r].batch
    BY <1>1, <1>3 DEF Calls
  <1>6. c \in Calls
    BY <1>1, <1>4 DEF Calls
  <1> HIDE DEF c, F
  <1>7. call'[r] = c /\ \A q \in Submitters \ {r} : call'[q] = call[q]
    BY <1>1, <1>2
  <1>8. ScrobblersTypeOK'
    BY <1>1, <1>2, <1>6 DEF ScrobblersTypeOK, access
  <1>9. CallsStand'
    <2> SUFFICES ASSUME NEW q \in Submitters PROVE CallStands(q)'
      BY DEF CallsStand
    <2>1. CASE q = r
      <3>1. Accepted(r)' \ c.left = {}
        BY <1>4, <1>5, <1>7 DEF Accepted, Usable
      <3> QED
        BY <1>3, <1>5, <1>7, <2>1, <3>1 DEF CallStands
    <2>2. CASE q # r
      <3>1. CallStands(q) /\ call'[q] = call[q] /\ stored' = stored
        BY <1>7, <2>2 DEF ScrobblersInv, CallsStand
      <3> QED
        BY <3>1 DEF CallStands, Accepted, Usable
    <2> QED
      BY <2>1, <2>2
  <1>10. StoredStands' /\ RowsOwned'
    BY DEF ScrobblersInv, StoredStands, RowsOwned, Row, access
  <1>11. Traded'
    <2>1. \A q \in Submitters : call'[q].at = "trusted" =>
             call[q].at = "trusted" /\ call'[q].token = call[q].token
      BY <1>5, <1>7
    <2> QED
      BY <2>1, TradedKept DEF access
  <1>12. \A v : HeldOf(call, v)[r] = {} /\ LeftOf(call, v)[r] = {}
    BY <1>3 DEF HeldOf, LeftOf
  <1>13. \A v : /\ HeldOf(call', v)[r] = IF v = call[r].user THEN F ELSE {}
                /\ LeftOf(call', v)[r] = IF v = call[r].user THEN F ELSE {}
    BY <1>3, <1>5, <1>7 DEF HeldOf, LeftOf
  <1> QED
    BY <1>7, <1>8, <1>9, <1>10, <1>11, <1>12, <1>13 DEF F

\* What may still be stored is part of what is held.
LEMMA LeftIsHeld ==
  ASSUME NEW cs \in [Submitters -> Calls], NEW u
  PROVE  Total(LeftOf(cs, u)) <= Total(HeldOf(cs, u))
  <1>1. PlaysIn(LeftOf(cs, u)) \in SUBSET PlaysIn(HeldOf(cs, u))
    BY DEF PlaysIn, LeftOf, HeldOf
  <1>2. IsFiniteSet(PlaysIn(HeldOf(cs, u)))
    BY SharesAreSets, TotalIsFinite
  <1> QED
    BY <1>1, <1>2, FS_Subset DEF Total

LEMMA ReservesHold ==
  ASSUME ScrobblersInv, NEW r \in Submitters, Reserve(r)
  PROVE  ScrobblersInv'
  <1> DEFINE u == call[r].user
             W == Usable(call[r].batch)
             wanted == Cardinality(W)
             count == allowance[u] + wanted
             n == wanted - Over(count, wanted)
             F == FirstOf(W, n)
  <1>1. /\ call[r].at = "read" /\ Granted(r, n)
        /\ allowance' = [allowance EXCEPT ![u] = count]
        /\ UNCHANGED <<access, stored, charged, uncounted, outbox, compatEvents, failures, told>>
    BY DEF Reserve
  <1>2. /\ ScrobblersTypeOK /\ call \in [Submitters -> Calls] /\ allowance \in [Users -> Int]
        /\ charged \in [Users -> SUBSET Played] /\ failures \in Nat /\ uncounted \subseteq Users
    BY DEF ScrobblersInv, ScrobblersTypeOK
  <1>3. u \in Users
    BY <1>1 DEF ScrobblersInv, CallsStand, CallStands
  <1>4. W \in SUBSET Played
    BY <1>2 DEF Usable, Calls
  <1>5. IsFiniteSet(W) /\ wanted \in Nat /\ count \in Int /\ DAILY_LIMIT \in Nat
    <2>1. IsFiniteSet(W) /\ Cardinality(W) \in Nat
      BY <1>4, PlaysAreFinite
    <2>2. allowance[u] \in Int
      BY <1>2, <1>3
    <2>3. DAILY_LIMIT \in Nat
      BY ScrobblersConstants
    <2> HIDE DEF W, n, F
    <2> QED
      BY <2>1, <2>2, <2>3
  <1> HIDE DEF W, wanted, count
  <1>6. n \in Nat /\ n <= wanted
    BY <1>5 DEF Over
  <1> HIDE DEF n
  <1>7. F \subseteq W /\ Cardinality(F) \in Nat /\ Cardinality(F) <= n
    <2>1. F \subseteq W /\ Cardinality(F) <= n
      BY <1>4, <1>6, FirstAreFew
    <2> QED
      BY <1>4, <2>1, PlaysAreFinite
  <1>8. allowance' \in [Users -> Int] /\ uncounted' \subseteq Users /\ failures' \in Nat
    BY <1>1, <1>2, <1>5
  <1>9. /\ ScrobblersTypeOK' /\ CallsStand' /\ StoredStands' /\ RowsOwned' /\ Traded'
        /\ \A q \in Submitters \ {r} : call'[q] = call[q]
        /\ \A v : HeldOf(call, v)[r] = {} /\ LeftOf(call, v)[r] = {}
        /\ \A v : /\ HeldOf(call', v)[r] = IF v = u THEN F ELSE {}
                  /\ LeftOf(call', v)[r] = IF v = u THEN F ELSE {}
    BY <1>1, <1>8, GrantsStand DEF W
  <1>10. call' \in [Submitters -> Calls]
    BY <1>9 DEF ScrobblersTypeOK
  <1>11. ASSUME NEW v \in Users \ uncounted'
         PROVE  /\ Cardinality(charged'[v]) + Total(HeldOf(call', v)) <= allowance'[v]
                /\ Cardinality(charged'[v]) + Total(LeftOf(call', v)) <= DAILY_LIMIT
    <2> DEFINE share == IF v = u THEN F ELSE {}
    <2>1. /\ Cardinality(charged[v]) + Total(HeldOf(call, v)) <= allowance[v]
          /\ Cardinality(charged[v]) + Total(LeftOf(call, v)) <= DAILY_LIMIT
      BY <1>1 DEF ScrobblersInv, Counted
    <2>2. /\ Total(HeldOf(call', v)) + Cardinality(HeldOf(call, v)[r])
               = Total(HeldOf(call, v)) + Cardinality(HeldOf(call', v)[r])
          /\ Total(LeftOf(call', v)) + Cardinality(LeftOf(call, v)[r])
               = Total(LeftOf(call, v)) + Cardinality(LeftOf(call', v)[r])
      BY <1>2, <1>9, <1>10, OneCallMoves
    <2>3. /\ Total(HeldOf(call', v)) \in Nat /\ Total(HeldOf(call, v)) \in Nat
          /\ Total(LeftOf(call', v)) \in Nat /\ Total(LeftOf(call, v)) \in Nat
      BY <1>2, <1>10, SharesAreSets
    <2>4. Cardinality({}) = 0
      BY FS_EmptySet
    <2>5. /\ Cardinality(HeldOf(call, v)[r]) = 0 /\ Cardinality(LeftOf(call, v)[r]) = 0
          /\ Cardinality(HeldOf(call', v)[r]) = IF v = u THEN Cardinality(F) ELSE 0
          /\ Cardinality(LeftOf(call', v)[r]) = IF v = u THEN Cardinality(F) ELSE 0
      BY <1>9, <2>4
    <2> HIDE DEF F
    <2>6. /\ Total(HeldOf(call', v)) = Total(HeldOf(call, v)) + IF v = u THEN Cardinality(F) ELSE 0
          /\ Total(LeftOf(call', v)) = Total(LeftOf(call, v)) + IF v = u THEN Cardinality(F) ELSE 0
      BY <1>7, <2>2, <2>3, <2>5
    <2>7. Cardinality(charged[v]) \in Nat /\ charged' = charged /\ allowance[v] \in Int
      BY <1>1, <1>2, PlaysAreFinite
    <2>8. Total(LeftOf(call, v)) <= Total(HeldOf(call, v))
      BY <1>2, LeftIsHeld
    <2>9. CASE v # u
      <3>1. allowance'[v] = allowance[v]
        BY <1>1, <1>2, <2>9
      <3> QED
        BY <2>1, <2>3, <2>6, <2>7, <2>9, <3>1, <1>5
    <2>10. CASE v = u
      <3>1. allowance'[v] = allowance[v] + wanted /\ count = allowance[v] + wanted
        BY <1>1, <1>2, <1>3, <2>10 DEF count
      <3>2. /\ Total(HeldOf(call', v)) = Total(HeldOf(call, v)) + Cardinality(F)
            /\ Total(LeftOf(call', v)) = Total(LeftOf(call, v)) + Cardinality(F)
        BY <2>6, <2>10
      <3>3. Cardinality(charged'[v]) + Total(HeldOf(call', v)) <= allowance'[v]
        BY <1>5, <1>6, <1>7, <2>1, <2>3, <2>7, <3>1, <3>2
      <3>4. \/ n = 0
            \/ Cardinality(charged[v]) + Total(LeftOf(call, v)) + n <= DAILY_LIMIT
        BY <1>5, <2>1, <2>3, <2>7, <2>8, <3>1 DEF n, Over
      <3>5. Cardinality(charged'[v]) + Total(LeftOf(call', v)) <= DAILY_LIMIT
        BY <1>5, <1>6, <1>7, <2>1, <2>3, <2>7, <3>2, <3>4
      <3> QED
        BY <3>3, <3>5
    <2> QED
      BY <2>9, <2>10
  <1> QED
    BY <1>9, <1>11 DEF ScrobblersInv, Counted

LEMMA UncountedReservesHold ==
  ASSUME ScrobblersInv, NEW r \in Submitters, ReserveUncounted(r)
  PROVE  ScrobblersInv'
  <1> DEFINE u == call[r].user
             n == Cardinality(Usable(call[r].batch))
             F == FirstOf(Usable(call[r].batch), n)
  <1>1. /\ call[r].at = "read" /\ Granted(r, n)
        /\ failures' = failures + 1 /\ uncounted' = uncounted \cup {u}
        /\ UNCHANGED <<access, allowance, stored, charged, outbox, compatEvents, told>>
    BY DEF ReserveUncounted, Failure
  <1>2. /\ call \in [Submitters -> Calls] /\ allowance \in [Users -> Int]
        /\ failures \in Nat /\ uncounted \subseteq Users
    BY DEF ScrobblersInv, ScrobblersTypeOK
  <1>3. u \in Users
    BY <1>1 DEF ScrobblersInv, CallsStand, CallStands
  <1>4. allowance' \in [Users -> Int] /\ uncounted' \subseteq Users /\ failures' \in Nat
    BY <1>1, <1>2, <1>3
  <1> HIDE DEF n
  <1>5. /\ ScrobblersTypeOK' /\ CallsStand' /\ StoredStands' /\ RowsOwned' /\ Traded'
        /\ \A q \in Submitters \ {r} : call'[q] = call[q]
        /\ \A v : HeldOf(call, v)[r] = {} /\ LeftOf(call, v)[r] = {}
        /\ \A v : /\ HeldOf(call', v)[r] = IF v = u THEN F ELSE {}
                  /\ LeftOf(call', v)[r] = IF v = u THEN F ELSE {}
    BY <1>1, <1>4, GrantsStand
  <1>6. call' \in [Submitters -> Calls]
    BY <1>5 DEF ScrobblersTypeOK
  <1>7. \A v \in Users \ uncounted' :
          /\ Total(HeldOf(call', v)) = Total(HeldOf(call, v))
          /\ Total(LeftOf(call', v)) = Total(LeftOf(call, v))
          /\ v \notin uncounted
    <2> TAKE v \in Users \ uncounted'
    <2>1. v # u /\ v \notin uncounted
      BY <1>1
    <2>2. HeldOf(call', v)[r] = HeldOf(call, v)[r] /\ LeftOf(call', v)[r] = LeftOf(call, v)[r]
      BY <1>5, <2>1
    <2>3. HeldOf(call', v) = HeldOf(call, v) /\ LeftOf(call', v) = LeftOf(call, v)
      BY <1>5, <2>2 DEF HeldOf, LeftOf
    <2> QED
      BY <2>1, <2>3
  <1>8. Counted'
    BY <1>1, <1>7 DEF ScrobblersInv, Counted
  <1> QED
    BY <1>5, <1>8 DEF ScrobblersInv

(***************************************************************************)
(* A play is stored, or was already.                                       *)
(***************************************************************************)
NextOf(r) == CHOOSE q \in call[r].left : \A o \in call[r].left : q <= o
IsNew(r) == NextOf(r) \notin stored[call[r].user]

LEMMA StoreMoves ==
  ASSUME ScrobblersInv, NEW r \in Submitters, StoreNext(r)
  PROVE  LET p == NextOf(r) u == call[r].user c == call'[r] IN
         /\ call[r].at = "granted" /\ p \in call[r].left /\ p \in Played /\ u \in Users
         /\ \A v \in Users : stored'[v] = IF v = u THEN stored[v] \cup {p} ELSE stored[v]
         /\ \A v \in Users : charged'[v] = IF v = u /\ IsNew(r) /\ call[r].today
                                           THEN charged[v] \cup {p} ELSE charged[v]
         /\ \A q \in Submitters \ {r} : call'[q] = call[q]
         /\ c.at = call[r].at /\ c.user = u /\ c.today = call[r].today
         /\ c.batch = call[r].batch /\ c.refused = call[r].refused
         /\ c.left = call[r].left \ {p}
         /\ c.unused = IF IsNew(r) THEN call[r].unused ELSE call[r].unused \cup {p}
         /\ UNCHANGED <<access, allowance, uncounted, outbox, compatEvents, failures, told>>
         /\ ScrobblersTypeOK'
  <1> DEFINE p == NextOf(r)
             u == call[r].user
             new == IsNew(r)
             c == [call[r] EXCEPT !.left = @ \ {p},
                                  !.unused = IF new THEN @ ELSE @ \cup {p}]
  <1>1. /\ ScrobblersTypeOK /\ call \in [Submitters -> Calls]
        /\ stored \in [Users -> SUBSET Played] /\ charged \in [Users -> SUBSET Played]
    BY DEF ScrobblersInv, ScrobblersTypeOK
  <1>2. /\ call[r].at = "granted" /\ call[r].left # {}
        /\ stored' = [stored EXCEPT ![u] = @ \cup {p}]
        /\ charged' = IF new /\ call[r].today THEN [charged EXCEPT ![u] = @ \cup {p}] ELSE charged
        /\ call' = [call EXCEPT ![r] = c]
        /\ UNCHANGED <<access, allowance, uncounted, outbox, compatEvents, failures, told>>
    <2> USE DEF StoreNext, NextOf, IsNew
    <2>1. call[r].at = "granted" /\ call[r].left # {}
      OBVIOUS
    <2>2. stored' = [stored EXCEPT ![u] = @ \cup {p}]
      OBVIOUS
    <2>3. charged' = IF new /\ call[r].today THEN [charged EXCEPT ![u] = @ \cup {p}] ELSE charged
      OBVIOUS
    <2>4. call' = [call EXCEPT ![r] = c]
      BY <1>1
    <2>5. UNCHANGED <<access, allowance, uncounted, outbox, compatEvents, failures, told>>
      OBVIOUS
    <2> QED
      BY <2>1, <2>2, <2>3, <2>4, <2>5
  <1>3. u \in Users
    BY <1>2 DEF ScrobblersInv, CallsStand, CallStands
  <1>4. call[r].left \in SUBSET Played /\ call[r].unused \in SUBSET Played /\ call[r] \in Calls
    BY <1>1 DEF Calls
  <1>5. p \in call[r].left /\ p \in Played
    BY <1>2, <1>4, NextIsLeft DEF NextOf
  <1> HIDE DEF p, new
  <1>6. c \in Calls
    <2>1. call[r].left \ {p} \in SUBSET Played
      BY <1>4
    <2>2. (IF new THEN call[r].unused ELSE call[r].unused \cup {p}) \in SUBSET Played
      BY <1>4, <1>5
    <2> QED
      BY <1>4, <2>1, <2>2 DEF Calls
  <1>7. /\ c.at = call[r].at /\ c.user = u /\ c.today = call[r].today
        /\ c.batch = call[r].batch /\ c.refused = call[r].refused
        /\ c.left = call[r].left \ {p}
        /\ c.unused = IF new THEN call[r].unused ELSE call[r].unused \cup {p}
    BY <1>4 DEF Calls
  <1> HIDE DEF c
  <1>8. call'[r] = c /\ \A q \in Submitters \ {r} : call'[q] = call[q]
    BY <1>1, <1>2
  <1>9. /\ \A v \in Users : stored'[v] = IF v = u THEN stored[v] \cup {p} ELSE stored[v]
        /\ \A v \in Users : charged'[v] = IF v = u /\ new /\ call[r].today
                                          THEN charged[v] \cup {p} ELSE charged[v]
    BY <1>1, <1>2
  <1>10. ScrobblersTypeOK'
    <2>1. stored' \in [Users -> SUBSET Played]
      BY <1>1, <1>2, <1>5
    <2>2. charged' \in [Users -> SUBSET Played]
      BY <1>1, <1>2, <1>5
    <2>3. call' \in [Submitters -> Calls]
      BY <1>1, <1>2, <1>6
    <2> QED
      BY <1>1, <1>2, <2>1, <2>2, <2>3 DEF ScrobblersTypeOK, access
  <1> QED
    BY <1>2, <1>3, <1>5, <1>7, <1>8, <1>9, <1>10 DEF p, new

LEMMA StoresHold ==
  ASSUME ScrobblersInv, NEW r \in Submitters, StoreNext(r)
  PROVE  ScrobblersInv'
  <1> DEFINE p == NextOf(r)
             u == call[r].user
             new == IsNew(r)
             L == call[r].left
             U == call[r].unused
  <1>1. /\ call[r].at = "granted" /\ p \in L /\ p \in Played /\ u \in Users
        /\ \A v \in Users : stored'[v] = IF v = u THEN stored[v] \cup {p} ELSE stored[v]
        /\ \A v \in Users : charged'[v] = IF v = u /\ new /\ call[r].today
                                          THEN charged[v] \cup {p} ELSE charged[v]
        /\ \A q \in Submitters \ {r} : call'[q] = call[q]
        /\ call'[r].at = call[r].at /\ call'[r].user = u /\ call'[r].today = call[r].today
        /\ call'[r].batch = call[r].batch /\ call'[r].refused = call[r].refused
        /\ call'[r].left = L \ {p}
        /\ call'[r].unused = IF new THEN U ELSE U \cup {p}
        /\ UNCHANGED <<access, allowance, uncounted, outbox, compatEvents, failures, told>>
        /\ ScrobblersTypeOK'
    BY StoreMoves
  <1>2. /\ call \in [Submitters -> Calls] /\ call' \in [Submitters -> Calls]
        /\ charged \in [Users -> SUBSET Played] /\ allowance \in [Users -> Int]
        /\ stored \in [Users -> SUBSET Played]
    BY <1>1 DEF ScrobblersInv, ScrobblersTypeOK
  <1>3. L \in SUBSET Played /\ U \in SUBSET Played /\ L \cap U = {}
    BY <1>2 DEF ScrobblersInv, CallsStand, CallStands, Calls
  <1>4. p \notin U /\ (new <=> p \notin stored[u])
    BY <1>1, <1>3 DEF IsNew
  <1>5. StoredStands' /\ RowsOwned'
    BY <1>1 DEF ScrobblersInv, StoredStands, RowsOwned, Row, access
  <1>6. CallsStand'
    <2> SUFFICES ASSUME NEW q \in Submitters PROVE CallStands(q)'
      BY DEF CallsStand
    <2>1. CASE q = r
      <3>1. Accepted(r)' = Accepted(r)
        BY <1>1 DEF Accepted, Usable
      <3>2. Accepted(r) \ L \subseteq stored[u]
        BY <1>1 DEF ScrobblersInv, CallsStand, CallStands
      <3>3. Accepted(r)' \ call'[r].left \subseteq stored'[u]
        BY <1>1, <3>1, <3>2
      <3>4. call'[r].left \cap call'[r].unused = {}
        BY <1>1, <1>3
      <3> QED
        BY <1>1, <2>1, <3>3, <3>4 DEF CallStands
    <2>2. CASE q # r
      <3>1. CallStands(q) /\ call'[q] = call[q]
        BY <1>1, <2>2 DEF ScrobblersInv, CallsStand
      <3>2. \A v \in Users : stored[v] \subseteq stored'[v]
        BY <1>1
      <3>3. Accepted(q)' = Accepted(q)
        BY <3>1 DEF Accepted, Usable
      <3> QED
        BY <3>1, <3>2, <3>3 DEF CallStands
    <2> QED
      BY <2>1, <2>2
  <1>7. Traded'
    <2>1. \A q \in Submitters : call'[q].at = "trusted" =>
             call[q].at = "trusted" /\ call'[q].token = call[q].token
      BY <1>1
    <2> QED
      BY <1>1, <2>1, TradedKept DEF access
  <1>8. ASSUME NEW v \in Users \ uncounted'
        PROVE  /\ Cardinality(charged'[v]) + Total(HeldOf(call', v)) <= allowance'[v]
               /\ Cardinality(charged'[v]) + Total(LeftOf(call', v)) <= DAILY_LIMIT
    <2>1. /\ Cardinality(charged[v]) + Total(HeldOf(call, v)) <= allowance[v]
          /\ Cardinality(charged[v]) + Total(LeftOf(call, v)) <= DAILY_LIMIT
          /\ allowance'[v] = allowance[v]
      BY <1>1 DEF ScrobblersInv, Counted
    <2>2. /\ Total(HeldOf(call', v)) + Cardinality(HeldOf(call, v)[r])
               = Total(HeldOf(call, v)) + Cardinality(HeldOf(call', v)[r])
          /\ Total(LeftOf(call', v)) + Cardinality(LeftOf(call, v)[r])
               = Total(LeftOf(call, v)) + Cardinality(LeftOf(call', v)[r])
      BY <1>1, <1>2, OneCallMoves
    <2>3. /\ Total(HeldOf(call', v)) \in Nat /\ Total(HeldOf(call, v)) \in Nat
          /\ Total(LeftOf(call', v)) \in Nat /\ Total(LeftOf(call, v)) \in Nat
      BY <1>2, SharesAreSets
    <2>4. /\ IsFiniteSet(charged[v]) /\ Cardinality(charged[v]) \in Nat
          /\ IsFiniteSet(L) /\ Cardinality(L) \in Nat
          /\ IsFiniteSet(L \cup U) /\ Cardinality(L \cup U) \in Nat
          /\ allowance[v] \in Int /\ DAILY_LIMIT \in Nat
      <3>1. charged[v] \in SUBSET Played /\ L \in SUBSET Played /\ L \cup U \in SUBSET Played
        BY <1>2, <1>3
      <3>2. allowance[v] \in Int /\ DAILY_LIMIT \in Nat
        BY <1>2, ScrobblersConstants
      <3> QED
        BY <3>1, <3>2, PlaysAreFinite
    <2>5. CASE ~(v = u /\ call[r].today)
      <3>1. /\ HeldOf(call', v)[r] = HeldOf(call, v)[r] /\ LeftOf(call', v)[r] = LeftOf(call, v)[r]
            /\ Cardinality(HeldOf(call, v)[r]) \in Nat /\ Cardinality(LeftOf(call, v)[r]) \in Nat
        BY <1>1, <1>2, <2>5, SharesAreSets DEF HeldOf, LeftOf
      <3>2. charged'[v] = charged[v]
        BY <1>1, <2>5
      <3>3. /\ Total(HeldOf(call', v)) = Total(HeldOf(call, v))
            /\ Total(LeftOf(call', v)) = Total(LeftOf(call, v))
        BY <2>2, <2>3, <3>1
      <3> QED
        BY <2>1, <3>2, <3>3
    <2>6. CASE v = u /\ call[r].today /\ new
      <3>1. /\ HeldOf(call, v)[r] = L \cup U /\ LeftOf(call, v)[r] = L
            /\ HeldOf(call', v)[r] = (L \cup U) \ {p} /\ LeftOf(call', v)[r] = L \ {p}
        <4>1. call[r].user = v /\ call'[r].user = v /\ call[r].today /\ call'[r].today
          BY <1>1, <2>6
        <4>2. HeldOf(call, v)[r] = L \cup U /\ LeftOf(call, v)[r] = L
          BY <4>1 DEF HeldOf, LeftOf
        <4>3. /\ HeldOf(call', v)[r] = call'[r].left \cup call'[r].unused
              /\ LeftOf(call', v)[r] = call'[r].left
          BY <4>1 DEF HeldOf, LeftOf
        <4>4. call'[r].left = L \ {p} /\ call'[r].unused = U /\ p \in L /\ p \notin U
          BY <1>1, <1>4, <2>6
        <4> HIDE DEF L, U, p
        <4> QED
          BY <4>2, <4>3, <4>4
      <3>2. /\ Cardinality((L \cup U) \ {p}) = Cardinality(L \cup U) - 1
            /\ Cardinality(L \ {p}) = Cardinality(L) - 1
        BY <1>1, <2>4, FS_RemoveElement
      <3>3. Cardinality(charged'[v]) = Cardinality(charged[v]) + 1
        <4>1. charged'[v] = charged[v] \cup {p}
          BY <1>1, <2>6
        <4>2. p \notin charged[v]
          BY <1>4, <2>6 DEF ScrobblersInv, StoredStands
        <4> QED
          BY <2>4, <4>1, <4>2, FS_AddElement
      <3>4. /\ Total(HeldOf(call', v)) = Total(HeldOf(call, v)) - 1
            /\ Total(LeftOf(call', v)) = Total(LeftOf(call, v)) - 1
        <4> HIDE DEF L, U, p, new
        <4>1. /\ Cardinality(HeldOf(call', v)[r]) = Cardinality(L \cup U) - 1
              /\ Cardinality(HeldOf(call, v)[r]) = Cardinality(L \cup U)
              /\ Cardinality(LeftOf(call', v)[r]) = Cardinality(L) - 1
              /\ Cardinality(LeftOf(call, v)[r]) = Cardinality(L)
          BY <3>1, <3>2
        <4> QED
          BY <2>2, <2>3, <2>4, <4>1
      <3> QED
        BY <2>1, <2>3, <2>4, <3>3, <3>4
    <2>7. CASE v = u /\ call[r].today /\ ~new
      <3>1. /\ HeldOf(call, v)[r] = L \cup U /\ LeftOf(call, v)[r] = L
            /\ HeldOf(call', v)[r] = L \cup U /\ LeftOf(call', v)[r] = L \ {p}
        <4>1. call[r].user = v /\ call'[r].user = v /\ call[r].today /\ call'[r].today
          BY <1>1, <2>7
        <4>2. HeldOf(call, v)[r] = L \cup U /\ LeftOf(call, v)[r] = L
          BY <4>1 DEF HeldOf, LeftOf
        <4>3. /\ HeldOf(call', v)[r] = call'[r].left \cup call'[r].unused
              /\ LeftOf(call', v)[r] = call'[r].left
          BY <4>1 DEF HeldOf, LeftOf
        <4>4. call'[r].left = L \ {p} /\ call'[r].unused = U \cup {p} /\ p \in L
          BY <1>1, <2>7
        <4> HIDE DEF L, U, p
        <4> QED
          BY <4>2, <4>3, <4>4
      <3>2. Cardinality(L \ {p}) = Cardinality(L) - 1
        BY <1>1, <2>4, FS_RemoveElement
      <3>3. charged'[v] = charged[v]
        BY <1>1, <2>7
      <3>4. /\ Total(HeldOf(call', v)) = Total(HeldOf(call, v))
            /\ Total(LeftOf(call', v)) = Total(LeftOf(call, v)) - 1
        BY <2>2, <2>3, <2>4, <3>1, <3>2
      <3> QED
        BY <2>1, <2>3, <2>4, <3>3, <3>4
    <2> QED
      BY <2>5, <2>6, <2>7
  <1> QED
    BY <1>1, <1>5, <1>6, <1>7, <1>8 DEF ScrobblersInv, Counted

(***************************************************************************)
(* A new day.                                                              *)
(***************************************************************************)
LEMMA MidnightHolds ==
  ASSUME ScrobblersInv, Midnight
  PROVE  ScrobblersInv'
  <1>1. ScrobblersTypeOK /\ call \in [Submitters -> Calls]
    BY DEF ScrobblersInv, ScrobblersTypeOK
  <1>2. /\ compatEvents' = compatEvents + 1
        /\ allowance' = [u \in Users |-> 0] /\ charged' = [u \in Users |-> {}] /\ uncounted' = {}
        /\ call' = [r \in Submitters |->
                       IF call[r].at = "granted" THEN [call[r] EXCEPT !.today = FALSE] ELSE call[r]]
        /\ UNCHANGED <<access, stored, outbox, failures, told>>
    BY DEF Midnight, CompatEvent
  <1>3. ASSUME NEW c \in Calls
        PROVE  LET d == [c EXCEPT !.today = FALSE] IN
               /\ d \in Calls /\ d.at = c.at /\ d.user = c.user /\ d.left = c.left
               /\ d.unused = c.unused /\ d.batch = c.batch /\ d.refused = c.refused
               /\ d.today = FALSE
    BY DEF Calls
  <1>4. \A r \in Submitters :
          /\ call'[r] \in Calls /\ call'[r].at = call[r].at /\ call'[r].user = call[r].user
          /\ call'[r].left = call[r].left /\ call'[r].unused = call[r].unused
          /\ call'[r].batch = call[r].batch /\ call'[r].refused = call[r].refused
          /\ call[r].at = "granted" => call'[r].today = FALSE
          /\ call[r].at # "granted" => call'[r] = call[r]
    <2> TAKE r \in Submitters
    <2>1. call[r] \in Calls
      BY <1>1
    <2>2. CASE call[r].at = "granted"
      <3>1. call'[r] = [call[r] EXCEPT !.today = FALSE]
        BY <1>2, <2>2
      <3> QED
        BY <1>3, <2>1, <2>2, <3>1
    <2>3. CASE call[r].at # "granted"
      BY <1>2, <2>1, <2>3
    <2> QED
      BY <2>2, <2>3
  <1>5. ScrobblersTypeOK' /\ call' \in [Submitters -> Calls]
    <2>1. call' \in [Submitters -> Calls]
      BY <1>2, <1>4
    <2>2. allowance' \in [Users -> Int] /\ charged' \in [Users -> SUBSET Played]
      BY <1>2
    <2> QED
      BY <1>1, <1>2, <2>1, <2>2 DEF ScrobblersTypeOK, access
  <1>6. CallsStand'
    <2> SUFFICES ASSUME NEW r \in Submitters PROVE CallStands(r)'
      BY DEF CallsStand
    <2>1. CallStands(r) /\ stored' = stored
      BY <1>2 DEF ScrobblersInv, CallsStand
    <2>2. Accepted(r)' = Accepted(r)
      BY <1>4 DEF Accepted, Usable
    <2> QED
      BY <1>4, <2>1, <2>2 DEF CallStands
  <1>7. StoredStands' /\ RowsOwned'
    BY <1>2 DEF ScrobblersInv, StoredStands, RowsOwned, Row, access
  <1>8. Traded'
    <2>1. \A q \in Submitters : call'[q].at = "trusted" =>
             call[q].at = "trusted" /\ call'[q].token = call[q].token
      BY <1>4
    <2> QED
      BY <1>2, <2>1, TradedKept DEF access
  <1>9. \A u : Total(HeldOf(call', u)) = 0 /\ Total(LeftOf(call', u)) = 0
    <2> TAKE u
    <2>1. \A r \in Submitters : HeldOf(call', u)[r] = {} /\ LeftOf(call', u)[r] = {}
      <3>1. \A r \in Submitters : call[r].at # "granted" => call[r].left = {} /\ call[r].unused = {}
        BY DEF ScrobblersInv, CallsStand, CallStands
      <3> QED
        BY <1>4, <3>1 DEF HeldOf, LeftOf
    <2> QED
      BY <1>5, <2>1, SharesAreSets, NothingHeld
  <1>10. Counted'
    <2>1. Cardinality({}) = 0
      BY FS_EmptySet
    <2>2. \A u \in Users : allowance'[u] = 0 /\ charged'[u] = {}
      BY <1>2
    <2>3. DAILY_LIMIT \in Nat
      BY ScrobblersConstants
    <2>4. \A u \in Users \ uncounted' :
            /\ Cardinality(charged'[u]) + Total(HeldOf(call', u)) <= allowance'[u]
            /\ Cardinality(charged'[u]) + Total(LeftOf(call', u)) <= DAILY_LIMIT
      <3> TAKE u \in Users \ uncounted'
      <3>1. /\ Cardinality(charged'[u]) = 0 /\ allowance'[u] = 0
            /\ Total(HeldOf(call', u)) = 0 /\ Total(LeftOf(call', u)) = 0
        BY <1>9, <2>1, <2>2
      <3> QED
        BY <2>3, <3>1
    <2> QED
      BY <2>4 DEF Counted
  <1> QED
    BY <1>5, <1>6, <1>7, <1>8, <1>10 DEF ScrobblersInv

(***************************************************************************)
(* The theorem.                                                            *)
(***************************************************************************)
LEMMA ScrobblersBegin == ScrobblersInit => ScrobblersInv
  <1> SUFFICES ASSUME ScrobblersInit PROVE ScrobblersInv
    OBVIOUS
  <1>1. Undrawn \in Authorizations /\ NoCredential \in Credentials /\ NoCredential.is = "undrawn"
    BY DEF Undrawn, Authorizations, NoCredential, Credentials
  <1>2. ScrobblersTypeOK /\ call \in [Submitters -> Calls]
    <2>1. /\ authorizations \in [AuthTokens -> Authorizations]
          /\ scrobblerCredentials \in [CredentialIds -> Credentials]
          /\ players \in [PlayerSessions -> CredentialIds \cup {"none"}]
          /\ burnt = {} /\ leaving = {} /\ uncounted = {}
      BY <1>1 DEF ScrobblersInit
    <2>2. /\ call \in [Submitters -> Calls] /\ outbox \in [Submitters -> SUBSET Played]
          /\ compatEvents = 0 /\ failures = 0
      BY CallTypes DEF ScrobblersInit
    <2>3. /\ allowance \in [Users -> Int] /\ stored \in [Users -> SUBSET Played]
          /\ charged \in [Users -> SUBSET Played] /\ told \in [Users -> SUBSET Played]
          /\ sessionsOf \in [AuthTokens -> Nat]
      BY DEF ScrobblersInit
    <2> QED
      BY <2>1, <2>2, <2>3 DEF ScrobblersTypeOK
  <1>3. CallsStand
    BY NothingSubmitted DEF ScrobblersInit, CallsStand, CallStands
  <1>4. StoredStands /\ RowsOwned
    BY <1>1 DEF ScrobblersInit, StoredStands, RowsOwned, Row
  <1>5. Traded
    BY NothingSubmitted DEF ScrobblersInit, Traded, Taken
  <1>6. \A u : Total(HeldOf(call, u)) = 0 /\ Total(LeftOf(call, u)) = 0
    <2> TAKE u
    <2>1. \A r \in Submitters : HeldOf(call, u)[r] = {} /\ LeftOf(call, u)[r] = {}
      BY NothingSubmitted DEF ScrobblersInit, HeldOf, LeftOf
    <2> QED
      BY <1>2, <2>1, SharesAreSets, NothingHeld
  <1>7. Counted
    <2>1. Cardinality({}) = 0
      BY FS_EmptySet
    <2>2. \A u \in Users : allowance[u] = 0 /\ charged[u] = {}
      BY DEF ScrobblersInit
    <2>3. DAILY_LIMIT \in Nat
      BY ScrobblersConstants
    <2> QED
      BY <1>6, <2>1, <2>2, <2>3 DEF Counted
  <1> QED
    BY <1>2, <1>3, <1>4, <1>5, <1>7 DEF ScrobblersInv

LEMMA ScrobblersStep ==
  ASSUME ScrobblersInv, ScrobblersNext
  PROVE  ScrobblersInv'
  <1>1. CASE AccessSteps
    BY <1>1, AccessStepsHold
  <1>2. ASSUME NEW r \in Submitters, NEW t \in AuthTokens, NEW k \in ApiKeys,
               TakeAuthorization(r, t, k)
        PROVE  ScrobblersInv'
    BY <1>2, TakesHold
  <1>3. ASSUME NEW r \in Submitters, NEW u \in Users, NEW k \in ApiKeys, LogIn(r, u, k)
        PROVE  ScrobblersInv'
    BY <1>3, LogInsHold
  <1>4. ASSUME NEW r \in Submitters, NEW c \in CredentialIds, IssueSession(r, c)
        PROVE  ScrobblersInv'
    BY <1>4, IssuesHold
  <1>5. \A r \in Submitters : outbox[r] \in SUBSET Played /\ Listened(r) \in SUBSET Played
    BY DEF ScrobblersInv, ScrobblersTypeOK, Listened
  <1>6. ASSUME NEW r \in Submitters, NEW c \in CredentialIds, NEW k \in ApiKeys,
               LastfmScrobble(r, c, k)
        PROVE  ScrobblersInv'
    BY <1>5, <1>6, BeginsHold DEF LastfmScrobble, LastfmEntries
  <1>7. ASSUME NEW r \in Submitters, NEW c \in CredentialIds, SubmitListens(r, c)
        PROVE  ScrobblersInv'
    BY <1>5, <1>7, BeginsHold DEF SubmitListens
  <1>8. ASSUME NEW r \in Submitters, NEW s \in PlayerSessions, Submissions(r, s)
        PROVE  ScrobblersInv'
    <2>1. players[s] \in CredentialIds /\ BeginSubmission(r, players[s], Listened(r), TRUE)
      BY <1>8 DEF Submissions, ScrobblersInv, ScrobblersTypeOK
    <2> QED
      BY <1>5, <2>1, BeginsHold
  <1>9. ASSUME NEW r \in Submitters,
               \/ Reserve(r) \/ ReserveUncounted(r) \/ StoreNext(r) \/ StoreFails(r)
               \/ AnswerClient(r) \/ AnswerLost(r) \/ ServerStops(r)
        PROVE  ScrobblersInv'
    BY <1>9, ReservesHold, UncountedReservesHold, StoresHold, StoreFailuresHold, AnswersHold,
       LostAnswersHold, StopsHold
  <1>10. CASE Midnight
    BY <1>10, MidnightHolds
  <1> QED
    BY <1>1, <1>2, <1>3, <1>4, <1>6, <1>7, <1>8, <1>9, <1>10 DEF ScrobblersNext, AccessSteps

LEMMA ScrobblersIdle ==
  ASSUME ScrobblersInv, UNCHANGED scrobblersVars
  PROVE  ScrobblersInv'
  <1>1. UNCHANGED <<access, books, call, outbox, compatEvents, failures, told>>
    BY DEF scrobblersVars
  <1>2. ScrobblersTypeOK' /\ CallsStand' /\ StoredStands' /\ RowsOwned' /\ Traded'
    BY <1>1 DEF ScrobblersInv, ScrobblersTypeOK, CallsStand, CallStands, Accepted, Usable,
       StoredStands, RowsOwned, Row, Traded, Taken, access, books
  <1>3. Counted'
    BY <1>1, <1>2, CountedKept
  <1> QED
    BY <1>2, <1>3 DEF ScrobblersInv

LEMMA SubmissionsFollow == ScrobblersInv => SubmissionsHold
  <1> SUFFICES ASSUME ScrobblersInv PROVE SubmissionsHold
    OBVIOUS
  <1>1. ScrobblersTypeOK
    BY DEF ScrobblersInv
  <1>2. ASSUME NEW u \in Users \ uncounted PROVE Cardinality(charged[u]) <= DAILY_LIMIT
    <2>1. Cardinality(charged[u]) + Total(LeftOf(call, u)) <= DAILY_LIMIT
      BY DEF ScrobblersInv, Counted
    <2>2. charged[u] \in SUBSET Played /\ call \in [Submitters -> Calls]
      BY <1>1 DEF ScrobblersTypeOK
    <2>3. Cardinality(charged[u]) \in Nat /\ Total(LeftOf(call, u)) \in Nat
      BY <2>2, PlaysAreFinite, SharesAreSets
    <2>4. DAILY_LIMIT \in Nat
      BY ScrobblersConstants
    <2> QED
      BY <2>1, <2>3, <2>4
  <1> QED
    BY <1>1, <1>2 DEF ScrobblersInv, StoredStands, Traded, SubmissionsHold, DailyLimitHolds,
       ToldIsStored, OneSessionPerToken

\* Whatever is retried, lost, given back or in flight at midnight, an account
\* has no more plays recorded on a day's counter than the limit, unless a
\* count failed; what a client was told was accepted is stored; and an
\* authorization is traded for one session at most (limits.rs,
\* reserve_scrobbles and Quota; compat/; scrobblers.rs, take_authorization).
THEOREM ScrobblersAreSafe == ScrobblersSpec => []SubmissionsHold
  <1>1. ScrobblersInv /\ [ScrobblersNext]_scrobblersVars => ScrobblersInv'
    BY ScrobblersStep, ScrobblersIdle
  <1> QED
    BY <1>1, ScrobblersBegin, SubmissionsFollow, PTL DEF ScrobblersSpec

===============================================================================
