------------------------------- MODULE Social -------------------------------
(* Follows, blocks and removed followers, and loved tracks: request handlers *)
(* that check before they open a transaction, transactions that read before  *)
(* they write, and statements that take no lock at all.                      *)
EXTENDS Integers, FiniteSets

CONSTANTS
    People,        \* accounts, naturals
    Pairs,         \* who may act on whom: a set of <<actor, other>>
    Sessions,      \* requests in flight at once
    MAX_FOLLOWING, \* handlers/users.rs
    MAX_BLOCKS,    \* handlers/blocks.rs
    Tracks,        \* tracks one account may love
    MAX_LOVED_TRACKS,
    MaxPairTimes   \* bound: pair_attempt's count of follows and blocks

ASSUME SocialAssumption ==
    /\ Pairs \subseteq Nat \X Nat
    /\ IsFiniteSet(Tracks)
    /\ MAX_FOLLOWING \in Nat /\ MAX_BLOCKS \in Nat /\ MAX_LOVED_TRACKS \in Nat
    /\ MaxPairTimes \in Nat

VARIABLES
    follows,       \* user_follows: <<follower, followee>>
    blocks,        \* user_blocks: <<blocker, blocked>>
    removals,      \* follower_removals still in force: <<user, follower>>
    departing,     \* accounts with delete_after
    loved,         \* loved_tracks of one account
    request,       \* request[s]: a handler and its transaction
    pairTimes      \* the day's counters of pair_attempt

socialVars == <<follows, blocks, removals, departing, loved, request, pairTimes>>

NoRequest == [at |-> "idle", op |-> "none", by |-> 0, on |-> 0, tracks |-> {}, go |-> FALSE]

SocialInit ==
    /\ follows = {} /\ blocks = {} /\ removals = {} /\ departing = {}
    /\ loved = {}
    /\ request = [s \in Sessions |-> NoRequest]
    /\ pairTimes = 0

-----------------------------------------------------------------------------
(* The advisory locks. A transaction takes its own lock and then the pair's. *)

\* "follow:<id>", "block:<id>", "loves:<id>"
OwnLock(r) == <<r.op, r.by>>

\* Variant: a lock for each direction of a pair.
DirectedPair(r) == <<r.by, r.on>>

\* lock_pair: one lock for two accounts, whichever acts
PairLock(r) == {r.by, r.on}

HoldsOwn(r) == r.at \in {"own", "pair", "read"} /\ r.op # "remove"
HoldsPair(r) == r.at \in {"pair", "read"} /\ r.op # "love"

-----------------------------------------------------------------------------
(* Handlers. What they check is read before the transaction begins.         *)

\* target(..): not leaving, and not blocking the user
Reachable(by, on) == on \notin departing /\ <<on, by>> \notin blocks

\* pair_attempt counts follows and blocks of one account by another.
PairAttempt == pairTimes < MaxPairTimes /\ pairTimes' = pairTimes + 1

Opens(s, r) ==
    /\ request[s] = NoRequest
    /\ request' = [request EXCEPT ![s] = r]

\* handlers/users.rs follow
Follow(s, by, on) ==
    /\ Reachable(by, on) /\ <<by, on>> \notin blocks
    /\ <<by, on>> \notin follows
    /\ PairAttempt
    /\ Opens(s, [NoRequest EXCEPT !.at = "begun", !.op = "follow", !.by = by, !.on = on])
    /\ UNCHANGED <<follows, blocks, removals, departing, loved>>

\* handlers/blocks.rs block
Block(s, by, on) ==
    /\ Reachable(by, on)
    /\ <<by, on>> \notin blocks
    /\ PairAttempt
    /\ Opens(s, [NoRequest EXCEPT !.at = "begun", !.op = "block", !.by = by, !.on = on])
    /\ UNCHANGED <<follows, blocks, removals, departing, loved>>

\* handlers/blocks.rs remove_follower: its transaction has no lock of its own
RemoveFollower(s, by, on) ==
    /\ Reachable(by, on)
    /\ Opens(s, [NoRequest EXCEPT !.at = "own", !.op = "remove", !.by = by, !.on = on])
    /\ UNCHANGED <<follows, blocks, removals, departing, loved, pairTimes>>

\* handlers/loves.rs love, and a page of an import's loves
Love(s, tracks) ==
    /\ Opens(s, [NoRequest EXCEPT !.at = "begun", !.op = "love", !.tracks = tracks])
    /\ UNCHANGED <<follows, blocks, removals, departing, loved, pairTimes>>

-----------------------------------------------------------------------------
(* The transactions.                                                        *)

TakeOwnLock(s) ==
    LET r == request[s] IN
    /\ r.at = "begun"
    /\ \A t \in Sessions : HoldsOwn(request[t]) => OwnLock(request[t]) # OwnLock(r)
    /\ request' = [request EXCEPT ![s].at = "own"]
    /\ UNCHANGED <<follows, blocks, removals, departing, loved, pairTimes>>

TakePairLock(s) ==
    LET r == request[s] IN
    /\ r.at = "own"
    /\ r.op # "love"
    /\ \A t \in Sessions : HoldsPair(request[t]) => PairLock(request[t]) # PairLock(r)
    /\ request' = [request EXCEPT ![s].at = "pair"]
    /\ UNCHANGED <<follows, blocks, removals, departing, loved, pairTimes>>

Following(u) == {f \in follows : f[1] = u}
Blocking(u) == {b \in blocks : b[1] = u}

\* follow_user's SELECT
MayFollow(by, on) ==
    /\ <<on, by>> \notin blocks /\ <<by, on>> \notin blocks
    /\ <<by, on>> \notin follows
    /\ <<on, by>> \notin removals
    /\ Cardinality(Following(by)) < MAX_FOLLOWING

\* block's SELECT
MayBlock(by, on) ==
    /\ <<by, on>> \notin blocks
    /\ Cardinality(Blocking(by)) < MAX_BLOCKS

ReadRelation(s) ==
    LET r == request[s] IN
    /\ r.at = "pair"
    /\ request' = [request EXCEPT ![s].at = "read",
          ![s].go = CASE r.op = "follow" -> MayFollow(r.by, r.on)
                      [] r.op = "block" -> MayBlock(r.by, r.on)
                      [] r.op = "remove" -> <<r.on, r.by>> \in follows]
    /\ UNCHANGED <<follows, blocks, removals, departing, loved, pairTimes>>

Ends(s) == request' = [request EXCEPT ![s] = NoRequest]

\* follow_user's INSERT, or nothing
WriteFollow(s) ==
    LET r == request[s] IN
    /\ r.at = "read" /\ r.op = "follow"
    /\ follows' = IF r.go THEN follows \cup {<<r.by, r.on>>} ELSE follows
    /\ Ends(s)
    /\ UNCHANGED <<blocks, removals, departing, loved, pairTimes>>

\* block's INSERT and DELETEs, which nobody sees apart
WriteBlock(s) ==
    LET r == request[s] IN
    /\ r.at = "read" /\ r.op = "block"
    /\ IF r.go
       THEN /\ blocks' = blocks \cup {<<r.by, r.on>>}
            /\ follows' = follows \ {<<r.by, r.on>>, <<r.on, r.by>>}
       ELSE UNCHANGED <<blocks, follows>>
    /\ Ends(s)
    /\ UNCHANGED <<removals, departing, loved, pairTimes>>

\* remove_follower's DELETE and the cooldown it leaves
WriteRemoval(s) ==
    LET r == request[s] IN
    /\ r.at = "read" /\ r.op = "remove"
    /\ follows' = follows \ {<<r.on, r.by>>}
    /\ removals' = IF r.go THEN removals \cup {<<r.by, r.on>>} ELSE removals
    /\ Ends(s)
    /\ UNCHANGED <<blocks, departing, loved, pairTimes>>

\* love, record_loves: the count is made under the lock
RoomCounted(r) == r.at = "own"

\* The tracks there was room for, as many as fit; one already loved stays.
ReadLoves(s) ==
    LET r == request[s]
        fresh == r.tracks \ loved
        room == MAX_LOVED_TRACKS - Cardinality(loved) IN
    /\ r.op = "love" /\ RoomCounted(r)
    /\ \E fit \in SUBSET fresh :
          /\ Cardinality(fit) = IF room < Cardinality(fresh)
                                THEN (IF room < 0 THEN 0 ELSE room) ELSE Cardinality(fresh)
          /\ request' = [request EXCEPT ![s].at = "read", ![s].tracks = fit]
    /\ UNCHANGED <<follows, blocks, removals, departing, loved, pairTimes>>

WriteLoves(s) ==
    LET r == request[s] IN
    /\ r.at = "read" /\ r.op = "love"
    /\ loved' = loved \cup r.tracks
    /\ Ends(s)
    /\ UNCHANGED <<follows, blocks, removals, departing, pairTimes>>

-----------------------------------------------------------------------------
(* Single statements, which wait for nobody.                                *)

Unfollow(by, on) ==
    /\ <<by, on>> \in follows
    /\ follows' = follows \ {<<by, on>>}
    /\ UNCHANGED <<blocks, removals, departing, loved, request, pairTimes>>

Unblock(by, on) ==
    /\ <<by, on>> \in blocks
    /\ blocks' = blocks \ {<<by, on>>}
    /\ UNCHANGED <<follows, removals, departing, loved, request, pairTimes>>

Unlove(t) ==
    /\ t \in loved
    /\ loved' = loved \ {t}
    /\ UNCHANGED <<follows, blocks, removals, departing, request, pairTimes>>

\* A cooldown ends; purge_expired_removals deletes what no longer counts.
RemovalEnds(r) ==
    /\ r \in removals
    /\ removals' = removals \ {r}
    /\ UNCHANGED <<follows, blocks, departing, loved, request, pairTimes>>

\* An account asks to be deleted: its rows stay until it is erased.
Departs(u) ==
    /\ u \notin departing
    /\ departing' = departing \cup {u}
    /\ UNCHANGED <<follows, blocks, removals, loved, request, pairTimes>>

SocialNext ==
    \/ \E s \in Sessions :
          \/ \E p \in Pairs : Follow(s, p[1], p[2]) \/ Block(s, p[1], p[2])
                              \/ RemoveFollower(s, p[1], p[2])
          \/ \E tracks \in SUBSET Tracks : tracks # {} /\ Love(s, tracks)
          \/ TakeOwnLock(s) \/ TakePairLock(s) \/ ReadRelation(s)
          \/ WriteFollow(s) \/ WriteBlock(s) \/ WriteRemoval(s)
          \/ ReadLoves(s) \/ WriteLoves(s)
    \/ \E p \in Pairs : Unfollow(p[1], p[2]) \/ Unblock(p[1], p[2])
    \/ \E t \in Tracks : Unlove(t)
    \/ \E r \in removals : RemovalEnds(r)
    \/ \E u \in People : Departs(u)

SocialSpec == SocialInit /\ [][SocialNext]_socialVars

-----------------------------------------------------------------------------
SocialRequests ==
    [at : {"idle", "begun", "own", "pair", "read"},
     op : {"none", "follow", "block", "remove", "love"},
     by : Nat, on : Nat, tracks : SUBSET Tracks, go : BOOLEAN]

SocialTypeOK ==
    /\ follows \subseteq Pairs /\ blocks \subseteq Pairs /\ removals \subseteq Pairs
    /\ departing \subseteq People /\ loved \subseteq Tracks
    /\ request \in [Sessions -> SocialRequests]
    /\ \A s \in Sessions :
          /\ (request[s].at = "idle") = (request[s].op = "none")
          /\ request[s].op \in {"follow", "block", "remove"} =>
                <<request[s].by, request[s].on>> \in Pairs
    /\ pairTimes \in 0..MaxPairTimes

\* A block and a follow never stand between the same two accounts, in either
\* direction, although a follow may have been checked before the block and is
\* written after it.
NoFollowAcrossBlock ==
    \A b \in blocks : b \notin follows /\ <<b[2], b[1]>> \notin follows

\* Nobody follows or blocks more accounts, nor loves more tracks, than the
\* most allowed, however many requests and imports count at once and whatever
\* is taken back beside them without a lock.
CapsHold ==
    /\ \A u \in People : Cardinality(Following(u)) <= MAX_FOLLOWING
    /\ \A u \in People : Cardinality(Blocking(u)) <= MAX_BLOCKS
    /\ Cardinality(loved) <= MAX_LOVED_TRACKS

\* A removed follower does not follow again while the cooldown lasts.
RemovedStaysOut ==
    \A r \in removals : <<r[2], r[1]>> \notin follows

\* What the lock over the pair, and the one over the account, give whatever
\* requests run at once (users.rs, follow; blocks.rs; loves.rs).
BlocksAndCapsHold == SocialTypeOK /\ NoFollowAcrossBlock /\ CapsHold /\ RemovedStaysOut

=============================================================================
