----------------------------- MODULE AlbumVotes -----------------------------
(* Which album one track belongs to: the accounts' votes, the queue entry   *)
(* that asks for a decision, the worker's deciding transaction, and the     *)
(* operator's backfill. Weights are in half accounts.                       *)
EXTENDS Integers, FiniteSets, FiniteSetsExt

CONSTANTS
    Albums,      \* album ids, naturals: ties go to the oldest
    Voters,      \* accounts, naturals in the order of their creation
    LastPlay,    \* bound: times of plays are 1 .. LastPlay
    MaxChanges   \* bound: changes of accounts and releases

ASSUME AlbumConstants ==
    /\ Albums \subseteq Nat \ {0} /\ IsFiniteSet(Albums)
    /\ Voters \subseteq Nat \ {0} /\ IsFiniteSet(Voters)
    /\ LastPlay \in Nat /\ MaxChanges \in Nat

NoAlbum == 0
FULL == 2
CONFIRMED_FACTOR == 2
SWITCH_RATIO_PCT == 150
MIN_LEAD == FULL

VARIABLES
    album,       \* tracks.album_id
    votes,       \* votes[u]: the row of track_album_votes, or NoVote
    reading,     \* a vote's statement under way: its account (0 for none), the row it read
    account,     \* account[u]: "young", "counts", "leaving" or "gone"
    factor,      \* factor[u]: its lowest coordination factor, FULL if unflagged
    confirmed,   \* albums whose title is among mb_release_titles
    dueAt,       \* the queue entry: Absent, DueNow, DueSoon, or OfAge(u): due when the
                 \* young account u starts to count
    decider,     \* the worker's transaction, holding the entry's lock
    backfill,    \* the backfill: what it decided, before it settles
    changes,
    outrun,      \* history: something counted changed while a backfill ran, and
                 \* no decision of the worker has replaced the backfill's
    lapsed       \* history: a suspicious day of a counted voter left the window, and
                 \* the worker has not decided since

albumVars == <<album, votes, reading, account, factor, confirmed, dueAt, decider, backfill,
               changes, outrun, lapsed>>

NoVote == [album |-> NoAlbum, at |-> 0]
NotReading == [by |-> 0, row |-> NoVote]
Entry(at, waits) == [at |-> at, waits |-> waits]
Absent == Entry("absent", 0)
DueNow == Entry("now", 0)
DueSoon == Entry("soon", 0)
OfAge(u) == Entry("age", u)
NoDecision == [at |-> "idle", from |-> NoAlbum, to |-> NoAlbum, recheck |-> 0]

AlbumInit ==
    /\ album \in Albums \cup {NoAlbum}
    /\ votes = [u \in Voters |-> NoVote] /\ reading = NotReading
    /\ account \in [Voters -> {"young", "counts"}]
    /\ \A u, v \in Voters : u < v /\ account[u] = "young" => account[v] = "young"
    /\ factor = [u \in Voters |-> FULL]
    /\ confirmed = {}
    /\ dueAt = Absent
    /\ decider = NoDecision /\ backfill = NoDecision
    /\ changes = 0 /\ outrun = FALSE /\ lapsed = FALSE

-----------------------------------------------------------------------------
(* The decision, a pure function of what the candidates query returns.      *)

Weight(u) == IF account[u] = "counts" THEN factor[u] ELSE 0

\* candidates(..): the albums voted for, with the weight of those who count
Backers(a) == {u \in Voters : votes[u].album = a}
Candidates == {a \in Albums : Backers(a) # {}}
WeightOf(a) == Cardinality({half \in Backers(a) \X (1 .. FULL) : half[2] <= Weight(half[1])})

Score(a) == IF a \in confirmed THEN WeightOf(a) * CONFIRMED_FACTOR ELSE WeightOf(a)

\* Best score, then most weight, then the oldest album.
Beats(a, b) ==
    \/ Score(a) > Score(b)
    \/ Score(a) = Score(b) /\ WeightOf(a) > WeightOf(b)
    \/ Score(a) = Score(b) /\ WeightOf(a) = WeightOf(b) /\ a < b

Weighed == {a \in Candidates : WeightOf(a) > 0}
Foremost == {a \in Weighed : \A b \in Weighed \ {a} : Beats(a, b)}
TheOne(set) == CHOOSE a \in set : TRUE

\* choose(..): the album `current` gives way to, or NoAlbum.
Choose(current) ==
    LET best == TheOne(Foremost)
        held == IF current \in Candidates THEN Score(current) ELSE 0
    IN IF Weighed = {} THEN NoAlbum
       ELSE IF current = NoAlbum THEN best
       ELSE IF /\ best # current
               /\ Score(best) * 100 >= held * SWITCH_RATIO_PCT
               /\ Score(best) - held >= MIN_LEAD
            THEN best ELSE NoAlbum

YoungVoters == {u \in Voters : votes[u].album # NoAlbum /\ account[u] = "young"}

\* The first account behind an album that comes of age; 0 for none.
Youngest == IF YoungVoters = {} THEN 0 ELSE Min(YoungVoters)

-----------------------------------------------------------------------------
(* The queue: an entry only ever becomes due earlier. The 30 seconds of a    *)
(* vote end before any later coming of age; one within them leaves the entry *)
(* due soon as well.                                                         *)

Sooner(new) ==
    LET either == {dueAt, new} IN
    IF DueNow \in either THEN DueNow
    ELSE IF DueSoon \in either THEN DueSoon
    ELSE IF dueAt = Absent THEN new
    ELSE OfAge(Min({dueAt.waits, new.waits}))

\* A statement that queues the track waits for a transaction that holds the
\* entry's lock, so it happens before it or after it.
Enqueue(due) == decider.at = "idle" /\ dueAt' = Sooner(due)

Counted == outrun' = (outrun \/ backfill.at # "idle")

\* record_vote, record_votes: a first vote, or a later play naming another.
\* `current` is the row the statement read.
RecordVote(u, current, a, at) ==
    /\ \/ current = NoVote /\ votes[u] = NoVote
       \/ current # NoVote /\ votes[u] # NoVote /\ current.album # a /\ current.at < at
    /\ votes' = [votes EXCEPT ![u] = [album |-> a, at |-> at]]
    /\ Enqueue(DueSoon)

Vote(u, a, at) ==
    /\ account[u] \in {"young", "counts"}
    /\ RecordVote(u, votes[u], a, at)
    /\ Counted
    /\ UNCHANGED <<album, reading, account, factor, confirmed, decider, backfill, changes,
                   lapsed>>

\* record_vote beside another play of the account: the statement has read its
\* row and writes by that, after others. A first vote that comes second is
\* dropped, and a move may put an older play's album back.
ReadVote(u) ==
    /\ reading = NotReading
    /\ changes < MaxChanges /\ changes' = changes + 1
    /\ account[u] \in {"young", "counts"}
    /\ reading' = [by |-> u, row |-> votes[u]]
    /\ UNCHANGED <<album, votes, account, factor, confirmed, dueAt, decider, backfill,
                   outrun, lapsed>>

VoteByRead(u) ==
    /\ reading.by = u
    /\ reading' = NotReading
    /\ \/ /\ account[u] # "gone"
          /\ \E a \in Albums, at \in 1 .. LastPlay : RecordVote(u, reading.row, a, at)
          /\ Counted
       \/ UNCHANGED <<votes, dueAt, outrun>>
    /\ UNCHANGED <<album, account, factor, confirmed, decider, backfill, changes, lapsed>>

\* enqueue_voted: the track is due if the account voted on it.
EnqueueVoted(u) ==
    IF votes[u] = NoVote THEN UNCHANGED dueAt ELSE Enqueue(DueNow)

Change == changes < MaxChanges /\ changes' = changes + 1 /\ Counted

\* An account asks to be deleted, or a login restores it.
ScheduleOrRestore(u) ==
    /\ Change
    /\ \/ /\ account[u] \in {"young", "counts"}
          /\ account' = [account EXCEPT ![u] = "leaving"]
       \/ /\ account[u] = "leaving"
          /\ \E a \in {"young", "counts"} :
                /\ a = "young" => \A v \in Voters : v > u => account[v] # "counts"
                /\ a = "counts" => \A v \in Voters : v < u => account[v] # "young"
                /\ account' = [account EXCEPT ![u] = a]
    /\ EnqueueVoted(u)
    /\ UNCHANGED <<album, votes, reading, factor, confirmed, decider, backfill, lapsed>>

\* delete_user_row: the votes go with the account.
EraseVoter(u) ==
    /\ Change
    /\ account[u] = "leaving"
    /\ account' = [account EXCEPT ![u] = "gone"]
    /\ votes' = [votes EXCEPT ![u] = NoVote]
    /\ EnqueueVoted(u)
    /\ UNCHANGED <<album, reading, factor, confirmed, decider, backfill, lapsed>>

\* A coordination run stores other factors, or clear_factors removes them.
StoreFactors(u) ==
    /\ Change
    /\ account[u] # "gone"
    /\ factor' = [factor EXCEPT ![u] = IF @ = FULL THEN 1 ELSE FULL]
    /\ EnqueueVoted(u)
    /\ UNCHANGED <<album, votes, reading, account, confirmed, decider, backfill, lapsed>>

\* The last suspicious day of an account is older than the days a decision
\* looks back. No row changes at that midnight, so nothing queues the track;
\* a run at work on the queue reads the new weight or the old one.
FactorLapses(u) ==
    /\ Change
    /\ account[u] # "gone" /\ factor[u] # FULL
    /\ factor' = [factor EXCEPT ![u] = FULL]
    /\ lapsed' = (lapsed \/ (votes[u] # NoVote /\ account[u] = "counts"))
    /\ UNCHANGED <<album, votes, reading, account, confirmed, dueAt, decider, backfill>>

\* record_releases, or the review that takes a match back.
ReleasesChange ==
    /\ Change
    /\ confirmed' \in {{}} \cup {{a} : a \in Albums}
    /\ confirmed' # confirmed
    /\ Enqueue(DueNow)
    /\ UNCHANGED <<album, votes, reading, account, factor, decider, backfill, lapsed>>

\* An account is old enough: what waited for it is due.
ComesOfAge(u) ==
    /\ account[u] = "young"
    /\ \A v \in Voters : v < u => account[v] # "young"
    /\ decider.at = "idle"
    /\ account' = [account EXCEPT ![u] = "counts"]
    /\ dueAt' = IF dueAt = OfAge(u) THEN DueNow ELSE dueAt
    /\ Counted
    /\ UNCHANGED <<album, votes, reading, factor, confirmed, decider, backfill, changes,
                   lapsed>>

\* An entry's time comes: the settle is over, or the account it waited for
\* came of age while it was not to be counted.
BecomesDueNow ==
    /\ \/ dueAt = DueSoon
       \/ dueAt.at = "age" /\ account[dueAt.waits] # "young"
    /\ dueAt' = DueNow
    /\ UNCHANGED <<album, votes, reading, account, factor, confirmed, decider, backfill,
                   changes, outrun, lapsed>>

-----------------------------------------------------------------------------
(* decide_due: one transaction, three reads and three writes.               *)

Decision == [at |-> "decided", from |-> album, to |-> Choose(album), recheck |-> Youngest]

\* claim_due locks the entry.
ClaimDue ==
    /\ decider.at = "idle" /\ dueAt = DueNow
    /\ decider' = [NoDecision EXCEPT !.at = "claimed"]
    /\ UNCHANGED <<album, votes, reading, account, factor, confirmed, dueAt, backfill,
                   changes, outrun, lapsed>>

\* decide_tracks: the album and the candidates as committed now.
DecideTrack ==
    /\ decider.at = "claimed"
    /\ decider' = Decision
    /\ lapsed' = FALSE
    /\ UNCHANGED <<album, votes, reading, account, factor, confirmed, dueAt, backfill,
                   changes, outrun>>

\* apply: the track moves if its album is still the one decided from.
Apply(d) == IF d.to # NoAlbum /\ album = d.from THEN d.to ELSE album

\* dequeue, then settle's recheck
Requeue(d) == dueAt' = IF d.recheck = 0 THEN Absent ELSE OfAge(d.recheck)

CommitDecision ==
    /\ decider.at = "decided"
    /\ album' = Apply(decider)
    /\ Requeue(decider)
    /\ decider' = NoDecision
    /\ outrun' = (outrun /\ (backfill.at # "idle" \/ album # decider.from))
    /\ UNCHANGED <<votes, reading, account, factor, confirmed, backfill, changes, lapsed>>

\* The transaction is lost: nothing of it is left, the entry neither.
DecisionLost ==
    /\ decider.at # "idle"
    /\ changes < MaxChanges
    /\ changes' = changes + 1
    /\ decider' = NoDecision
    /\ UNCHANGED <<album, votes, reading, account, factor, confirmed, dueAt, backfill,
                   outrun, lapsed>>

\* `worker albums backfill` copies the votes and decides from the copy,
\* outside of any transaction (votes already hold what scrobbles name).
BackfillDecides ==
    /\ backfill.at = "idle"
    /\ changes < MaxChanges
    /\ changes' = changes + 1
    /\ backfill' = Decision
    /\ UNCHANGED <<album, votes, reading, account, factor, confirmed, dueAt, decider,
                   outrun, lapsed>>

\* Then it moves the track, if it is where it was, and queues the recheck.
BackfillSettles ==
    /\ backfill.at = "decided"
    /\ album' = Apply(backfill)
    /\ IF backfill.recheck = 0 THEN UNCHANGED dueAt ELSE Enqueue(OfAge(backfill.recheck))
    /\ backfill' = NoDecision
    /\ UNCHANGED <<votes, reading, account, factor, confirmed, decider, changes, outrun,
                   lapsed>>

AlbumNext ==
    \/ \E u \in Voters :
          \/ \E a \in Albums, at \in 1 .. LastPlay : Vote(u, a, at)
          \/ ReadVote(u) \/ VoteByRead(u)
          \/ ScheduleOrRestore(u) \/ EraseVoter(u) \/ ComesOfAge(u)
          \/ StoreFactors(u) \/ FactorLapses(u)
    \/ ReleasesChange \/ BecomesDueNow
    \/ ClaimDue \/ DecideTrack \/ CommitDecision \/ DecisionLost
    \/ BackfillDecides \/ BackfillSettles

AlbumSpec == AlbumInit /\ [][AlbumNext]_albumVars

-----------------------------------------------------------------------------
AlbumTypeOK ==
    /\ album \in Albums \cup {NoAlbum}
    /\ votes \in [Voters -> [album : Albums \cup {NoAlbum}, at : 0 .. LastPlay]]
    /\ reading \in [by : Voters \cup {0},
                    row : [album : Albums \cup {NoAlbum}, at : 0 .. LastPlay]]
    /\ account \in [Voters -> {"young", "counts", "leaving", "gone"}]
    /\ factor \in [Voters -> 1 .. FULL]
    /\ confirmed \subseteq Albums
    /\ dueAt \in {Absent, DueNow, DueSoon} \cup {OfAge(u) : u \in Voters}
    /\ decider.at \in {"idle", "claimed", "decided"}
    /\ lapsed \in BOOLEAN

\* Whenever nothing asks for a decision before an account comes of age, the
\* track is where its accounts' votes put it: deciding again from the votes,
\* ages, factors and releases of this moment would not move it. Every row that
\* changes what is counted queues the track, a vote committed while the worker
\* decides included, and one decision never undoes another. Two exceptions. A
\* suspicious day that leaves the window of a decision changes a voter's factor
\* and no row, and asks for nothing: the track stays until the worker decides
\* it for another reason. And a backfill decides from what it read long before,
\* so a change while it ran is missed until the worker decides again.
AlbumFollowsVotes ==
    /\ \/ dueAt = Absent
       \/ dueAt.at = "age" /\ account[dueAt.waits] = "young"
    /\ decider.at = "idle"
    /\ ~outrun /\ ~lapsed
    => Choose(album) = NoAlbum

=============================================================================
