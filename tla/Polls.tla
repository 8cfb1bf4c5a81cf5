-------------------------------- MODULE Polls --------------------------------
(* One user's Spotify connection and the worker that polls it: it lists the *)
(* connections, works from the copy it listed, refreshes the token when     *)
(* Spotify rejects it, records what was played since the cursor, and writes *)
(* the outcome back by the connection's id, whatever became of the row.     *)
EXTENDS Integers, FiniteSets

CONSTANTS
    Profiles,      \* the user's Spotify accounts
    Unusable,      \* times of the plays that ingest_scrobble refuses
    RecentPlays,   \* plays a recently-played answer holds, 50
    MaxPlays,      \* bound: plays, whose numbers are their times
    MaxLinks,      \* bound: connections and authorizations
    MaxPollFaults  \* bound: provider and database errors, crashes

ASSUME PollsConstants == MaxPlays \in Nat /\ MaxLinks \in Nat /\ MaxPollFaults \in Nat

VARIABLES
    link,          \* the row of connected_accounts, or NoLink
    links,         \* authorizations so far: the number of the next
    revoked,       \* authorizations the user took back at Spotify
    streamed,      \* streamed[p]: times of the plays of a Spotify account
    recorded,      \* plays in scrobbles: <<profile, time>>
    poll,          \* the poll in progress
    pollFaults,
    excused        \* history: plays no poll could have taken; see below

pollVars == <<link, links, revoked, streamed, recorded, poll, pollFaults, excused>>

NoProfile == "nobody"
\* An authorization is its number and the account that gave it; the refresh
\* token stands for it, the access token for the account it reads.
NoLink == [id |-> 0, profile |-> NoProfile, refresh |-> <<0, NoProfile>>, access |-> NoProfile,
           active |-> FALSE, cursor |-> 0]
NoPoll == [at |-> "idle", link |-> NoLink, items |-> {}, cursor |-> 0, refreshed |-> FALSE]

PollInit ==
    /\ link = NoLink
    /\ links = 0
    /\ revoked = {}
    /\ streamed = [p \in Profiles |-> {}]
    /\ recorded = {}
    /\ poll = NoPoll
    /\ pollFaults = 0
    /\ excused = {}

Clock == Cardinality(UNION {streamed[p] : p \in Profiles})
PlaysUpTo(p, t) == {<<p, u>> : u \in {v \in streamed[p] : v <= t}}

-----------------------------------------------------------------------------
(* The user, and Spotify.                                                   *)

Listen(p) ==
    /\ Clock < MaxPlays
    /\ streamed' = [streamed EXCEPT ![p] = @ \cup {Clock + 1}]
    /\ UNCHANGED <<link, links, revoked, recorded, poll, pollFaults, excused>>

\* link_spotify and upsert_connected_account: a new row, or the row with its
\* tokens replaced. The cursor stays, and a play of another account that is
\* behind it is not taken.
Connect(p) ==
    /\ links < MaxLinks
    /\ links' = links + 1
    /\ link' = [id |-> IF link.id = 0 THEN links + 1 ELSE link.id, profile |-> p,
                refresh |-> <<links + 1, p>>, access |-> p, active |-> TRUE, cursor |-> link.cursor]
    /\ excused' = excused \cup (IF link.profile = p THEN {} ELSE PlaysUpTo(p, link.cursor))
    /\ UNCHANGED <<revoked, streamed, recorded, poll, pollFaults>>

\* disconnect; schedule_deletion deletes the row as well.
Disconnect ==
    /\ link # NoLink
    /\ link' = NoLink
    /\ UNCHANGED <<links, revoked, streamed, recorded, poll, pollFaults, excused>>

Revoke ==
    /\ link # NoLink /\ link.refresh \notin revoked
    /\ revoked' = revoked \cup {link.refresh}
    /\ UNCHANGED <<link, links, streamed, recorded, poll, pollFaults, excused>>

-----------------------------------------------------------------------------
(* The poll. Its statements name the row by its id.                         *)

SameRow == link.id = poll.link.id
Fails == pollFaults < MaxPollFaults /\ pollFaults' = pollFaults + 1

\* list_accounts_to_poll: a read and not a claim
ListAccounts ==
    /\ poll.at = "idle"
    /\ link.active
    /\ poll' = [NoPoll EXCEPT !.at = "fetch", !.link = link]
    /\ UNCHANGED <<link, links, revoked, streamed, recorded, pollFaults, excused>>

\* The plays Spotify has not told of where it told of a later one
Overtaken(kept, told) == {t \in kept \ told : \E u \in told : t < u}

NewestOf(plays, n) == {t \in plays : Cardinality({u \in plays : u > t}) < n}

\* get_recently_played: what was played after the cursor, of what Spotify
\* still tells of the account the token is of, and of that any part: a play may
\* reach the endpoint late, and even after a later one.
FetchPlays ==
    /\ poll.at = "fetch"
    /\ LET p == poll.link.access
           after == {t \in streamed[p] : t > poll.link.cursor}
           kept == NewestOf(streamed[p], RecentPlays) \cap after IN
       \E told \in SUBSET kept :
          /\ poll' = [poll EXCEPT !.at = "ingest", !.items = told]
          /\ excused' = excused \cup {<<p, t>> : t \in (after \ kept) \cup Overtaken(kept, told)}
    /\ UNCHANGED <<link, links, revoked, streamed, recorded, pollFaults>>

\* The access token has expired, or the authorization was taken back.
TokenRejected ==
    /\ poll.at = "fetch" /\ ~poll.refreshed
    /\ poll' = [poll EXCEPT !.at = "refresh"]
    /\ UNCHANGED <<link, links, revoked, streamed, recorded, pollFaults, excused>>

\* refresh and update_tokens: an access token of the authorization the poll
\* listed, and its refresh token if Spotify issued a new one. A poll refreshes
\* for the plays, and again for what is playing.
RefreshToken ==
    /\ poll.at \in {"refresh", "playing"}
    /\ poll.link.refresh \notin revoked
    /\ \E kept \in {link.refresh, poll.link.refresh} :
          link' = IF SameRow /\ link # NoLink
                  THEN [link EXCEPT !.access = poll.link.refresh[2], !.refresh = kept]
                  ELSE link
    /\ poll' = IF poll.at = "playing" THEN NoPoll
               ELSE [poll EXCEPT !.at = "fetch", !.refreshed = TRUE,
                                 !.link.access = poll.link.refresh[2]]
    /\ UNCHANGED <<links, revoked, streamed, recorded, pollFaults, excused>>

\* refresh and deactivate: the authorization is gone. The failed poll is marked
\* without a cursor, which changes nothing kept here.
RefreshRejected ==
    /\ poll.at \in {"refresh", "playing"}
    /\ poll.link.refresh \in revoked
    /\ link' = IF SameRow /\ link # NoLink THEN [link EXCEPT !.active = FALSE] ELSE link
    /\ poll' = NoPoll
    /\ UNCHANGED <<links, revoked, streamed, recorded, pollFaults, excused>>

\* items.iter().rev(): Spotify's are newest first
OldestItem == CHOOSE t \in poll.items : \A u \in poll.items : t <= u

\* ingest_scrobble: recorded now, already, or never to be; the cursor may pass.
IngestItem ==
    /\ poll.at = "ingest" /\ poll.items # {}
    /\ LET t == OldestItem IN
       /\ recorded' = IF t \in Unusable THEN recorded ELSE recorded \cup {<<poll.link.access, t>>}
       /\ poll' = [poll EXCEPT !.items = @ \ {t}, !.cursor = t]
    /\ UNCHANGED <<link, links, revoked, streamed, pollFaults, excused>>

\* A database error: the rest is left to the next poll.
IngestFails ==
    /\ poll.at = "ingest" /\ poll.items # {}
    /\ Fails
    /\ poll' = [poll EXCEPT !.at = "mark", !.items = {}]
    /\ UNCHANGED <<link, links, revoked, streamed, recorded, excused>>

IngestDone ==
    /\ poll.at = "ingest" /\ poll.items = {}
    /\ poll' = [poll EXCEPT !.at = "mark"]
    /\ UNCHANGED <<link, links, revoked, streamed, recorded, pollFaults, excused>>

Later(a, b) == IF a < b THEN b ELSE a

\* mark_polled: GREATEST(history_cursor_at, cursor). The plays of another
\* account, connected meanwhile, that it passes are not taken.
MarkPolled ==
    /\ poll.at = "mark"
    /\ LET cursor == Later(link.cursor, poll.cursor) IN
       IF SameRow /\ link # NoLink
       THEN /\ link' = [link EXCEPT !.cursor = cursor]
            /\ excused' = excused \cup UNION {PlaysUpTo(p, cursor) :
                                              p \in Profiles \ {poll.link.access}}
       ELSE UNCHANGED <<link, excused>>
    /\ poll' = [NoPoll EXCEPT !.at = "playing", !.link = poll.link]
    /\ UNCHANGED <<links, revoked, streamed, recorded, pollFaults>>

\* poll_now_playing has its answer; what it shows is LiveStreams' matter.
PlayingTold ==
    /\ poll.at = "playing"
    /\ poll' = NoPoll
    /\ UNCHANGED <<link, links, revoked, streamed, recorded, pollFaults, excused>>

\* Spotify answers with anything else, the worker dies, or a statement fails:
\* the cursor stays.
PollLost ==
    /\ poll.at # "idle"
    /\ Fails
    /\ poll' = NoPoll
    /\ UNCHANGED <<link, links, revoked, streamed, recorded, excused>>

-----------------------------------------------------------------------------
PollNext ==
    \/ \E p \in Profiles : Listen(p) \/ Connect(p)
    \/ Disconnect \/ Revoke
    \/ ListAccounts \/ FetchPlays \/ TokenRejected \/ RefreshToken \/ RefreshRejected
    \/ IngestItem \/ IngestFails \/ IngestDone \/ MarkPolled \/ PlayingTold \/ PollLost

PollSpec == PollInit /\ [][PollNext]_pollVars

PollTypeOK ==
    /\ link.profile \in Profiles \cup {NoProfile}
    /\ link.id \in 0 .. MaxLinks
    /\ link.cursor \in 0 .. MaxPlays
    /\ links \in 0 .. MaxLinks /\ revoked \subseteq (1 .. MaxLinks) \X Profiles
    /\ streamed \in [Profiles -> SUBSET (1 .. MaxPlays)]
    /\ recorded \subseteq Profiles \X (1 .. MaxPlays)
    /\ poll.at \in {"idle", "fetch", "refresh", "ingest", "mark", "playing"}
    /\ pollFaults \in 0 .. MaxPollFaults

\* The cursor leaves nothing behind: every play of the connected account up to
\* it is recorded, or is one ingest_scrobble refuses, or was out of reach: more
\* plays since the last poll than Spotify tells of, a play Spotify told of only
\* after a later one, or plays of another account behind a cursor that was not
\* its own. A play that is merely late is not (worker/src/connected_accounts.rs,
\* poll_account; db connected_accounts.rs, mark_polled).
NothingSkipped == link # NoLink =>
        \A play \in PlaysUpTo(link.profile, link.cursor) :
        play \in recorded \cup excused \/ play[2] \in Unusable
=============================================================================
