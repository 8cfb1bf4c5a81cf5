---------------------------- MODULE CommunityProofs ---------------------------
(* Theorems about what accounts do to each other and to what all of them see:  *)
(* Social, Tags, Bios and Images, for every value of their constants.          *)
EXTENDS Social, Tags, Bios, Images, FiniteSetTheorems, SequenceTheorems,
    WellFoundedInduction, TLAPS

(****** Follows, blocks and loves (Social). ******)

(***************************************************************************)
(* None of the invariants is inductive: a transaction writes by what it    *)
(* read some steps before.  What it read stays true because of the locks   *)
(* it holds, so the invariant says which transactions exclude each other   *)
(* and what each one that is about to write relies on.                     *)
(***************************************************************************)
ValidRequest(r) ==
    /\ r \in SocialRequests
    /\ (r.at = "idle") = (r.op = "none")
    /\ r.op \in {"follow", "block", "remove"} => <<r.by, r.on>> \in Pairs
    /\ r.op = "love" => r.by = 0
    /\ r.at = "pair" => r.op # "love"

Apart(q, r) ==
    /\ HoldsOwn(q) /\ HoldsOwn(r) => OwnLock(q) # OwnLock(r)
    /\ HoldsPair(q) /\ HoldsPair(r) => PairLock(q) # PairLock(r)

(* The rows of u among those of a table.                                   *)
Own(rows, u) == {x \in rows : x[1] = u}

(* What a transaction that has read relies on until it writes.             *)
Promise(r, followed, blocked, removed, loves) ==
    r.at = "read" =>
        /\ r.op = "follow" /\ r.go =>
             /\ <<r.on, r.by>> \notin blocked /\ <<r.by, r.on>> \notin blocked
             /\ <<r.on, r.by>> \notin removed
             /\ Cardinality(Own(followed, r.by)) < MAX_FOLLOWING
        /\ r.op = "block" /\ r.go => Cardinality(Own(blocked, r.by)) < MAX_BLOCKS
        /\ r.op = "love" => Cardinality(loves \cup r.tracks) <= MAX_LOVED_TRACKS

Rows ==
    /\ follows \subseteq Pairs /\ blocks \subseteq Pairs /\ removals \subseteq Pairs
    /\ departing \subseteq People /\ loved \subseteq Tracks
    /\ IsFiniteSet(follows) /\ IsFiniteSet(blocks)
    /\ pairTimes \in 0..MaxPairTimes

AllCaps ==
    /\ \A u : Cardinality(Own(follows, u)) <= MAX_FOLLOWING
    /\ \A u : Cardinality(Own(blocks, u)) <= MAX_BLOCKS
    /\ Cardinality(loved) <= MAX_LOVED_TRACKS

Requested ==
    /\ request \in [Sessions -> SocialRequests]
    /\ \A s \in Sessions : ValidRequest(request[s])
    /\ \A s, t \in Sessions : s # t => Apart(request[s], request[t])

Relied == \A s \in Sessions : Promise(request[s], follows, blocks, removals, loved)

SocialInv == Rows /\ AllCaps /\ Requested /\ Relied /\ NoFollowAcrossBlock /\ RemovedStaysOut

(***************************************************************************)
(* Sets of rows.                                                           *)
(***************************************************************************)
LEMMA FewerRows ==
  ASSUME NEW S, IsFiniteSet(S), NEW T \in SUBSET S
  PROVE  IsFiniteSet(T) /\ Cardinality(T) \in Nat /\ Cardinality(S) \in Nat
         /\ Cardinality(T) <= Cardinality(S)
  BY FS_Subset, FS_CardinalityType

LEMMA OneMoreRow ==
  ASSUME NEW S, IsFiniteSet(S), NEW x, NEW n \in Nat, Cardinality(S) < n
  PROVE  IsFiniteSet(S \cup {x}) /\ Cardinality(S \cup {x}) <= n
  <1>1. Cardinality(S) \in Nat
    BY FS_CardinalityType
  <1>2. /\ IsFiniteSet(S \cup {x})
        /\ Cardinality(S \cup {x}) = IF x \in S THEN Cardinality(S) ELSE Cardinality(S) + 1
    BY FS_AddElement
  <1> QED
    BY <1>1, <1>2

LEMMA FiniteOwn ==
  ASSUME NEW S, IsFiniteSet(S), NEW T \in SUBSET S, NEW u
  PROVE  /\ IsFiniteSet(Own(S, u)) /\ Cardinality(Own(S, u)) \in Nat
         /\ Cardinality(Own(T, u)) \in Nat /\ Cardinality(Own(T, u)) <= Cardinality(Own(S, u))
  <1>1. Own(S, u) \in SUBSET S /\ Own(T, u) \in SUBSET Own(S, u)
    BY DEF Own
  <1>2. IsFiniteSet(Own(S, u))
    BY <1>1, FewerRows
  <1> QED
    BY <1>1, <1>2, FewerRows

LEMMA FiniteLoves ==
  ASSUME NEW L \in SUBSET Tracks, NEW tracks \in SUBSET Tracks
  PROVE  IsFiniteSet(L) /\ Cardinality(L) \in Nat /\ Cardinality(L \cup tracks) \in Nat
  BY FewerRows, SocialAssumption

(***************************************************************************)
(* Statements that only delete rows break no promise and no cap.           *)
(***************************************************************************)
LEMMA RowsLeave ==
  ASSUME SocialInv, follows' \subseteq follows, blocks' \subseteq blocks,
         removals' \subseteq removals, loved' \subseteq loved, departing' \subseteq People,
         UNCHANGED <<request, pairTimes>>
  PROVE  SocialInv'
  <1>1. Rows'
    BY FewerRows DEF SocialInv, Rows
  <1>2. \A u : /\ Cardinality(Own(follows', u)) <= Cardinality(Own(follows, u))
               /\ Cardinality(Own(blocks', u)) <= Cardinality(Own(blocks, u))
               /\ Cardinality(Own(follows', u)) \in Nat /\ Cardinality(Own(follows, u)) \in Nat
               /\ Cardinality(Own(blocks', u)) \in Nat /\ Cardinality(Own(blocks, u)) \in Nat
    BY FiniteOwn DEF SocialInv, Rows
  <1>3. ASSUME NEW tracks \in SUBSET Tracks
        PROVE  /\ Cardinality(loved' \cup tracks) <= Cardinality(loved \cup tracks)
               /\ Cardinality(loved' \cup tracks) \in Nat /\ Cardinality(loved \cup tracks) \in Nat
    <2>1. /\ loved \cup tracks \in SUBSET Tracks
          /\ loved' \cup tracks \in SUBSET (loved \cup tracks)
      BY DEF SocialInv, Rows
    <2>2. IsFiniteSet(loved \cup tracks)
      BY <2>1, FewerRows, SocialAssumption
    <2> QED
      BY <2>1, <2>2, FewerRows
  <1>4. /\ Cardinality(loved') <= Cardinality(loved)
        /\ Cardinality(loved') \in Nat /\ Cardinality(loved) \in Nat
    <2>1. loved \in SUBSET Tracks /\ loved' \in SUBSET loved
      BY DEF SocialInv, Rows
    <2>2. IsFiniteSet(loved)
      BY <2>1, FewerRows, SocialAssumption
    <2> QED
      BY <2>1, <2>2, FewerRows
  <1>5. AllCaps'
    BY <1>2, <1>4, SocialAssumption DEF SocialInv, AllCaps
  <1>6. Requested'
    BY DEF SocialInv, Requested, ValidRequest, Apart, HoldsOwn, HoldsPair, OwnLock, PairLock
  <1>7. Relied'
    <2> SUFFICES ASSUME NEW s \in Sessions
                 PROVE  Promise(request[s], follows', blocks', removals', loved')
      BY DEF Relied
    <2> DEFINE r == request[s]
    <2>1. r.tracks \in SUBSET Tracks /\ Promise(r, follows, blocks, removals, loved)
      BY DEF SocialInv, Requested, SocialRequests, Relied
    <2> HIDE DEF r
    <2>2. r.at = "read" /\ r.op = "follow" /\ r.go =>
            Cardinality(Own(follows', r.by)) < MAX_FOLLOWING
      BY <1>2, <2>1, SocialAssumption DEF Promise
    <2>3. r.at = "read" /\ r.op = "block" /\ r.go =>
            Cardinality(Own(blocks', r.by)) < MAX_BLOCKS
      BY <1>2, <2>1, SocialAssumption DEF Promise
    <2>4. r.at = "read" /\ r.op = "love" =>
            Cardinality(loved' \cup r.tracks) <= MAX_LOVED_TRACKS
      <3>1. r.tracks \in SUBSET Tracks
        BY <2>1
      <3>2. /\ Cardinality(loved' \cup r.tracks) <= Cardinality(loved \cup r.tracks)
            /\ Cardinality(loved' \cup r.tracks) \in Nat
            /\ Cardinality(loved \cup r.tracks) \in Nat
        BY <1>3, <3>1
      <3>3. r.at = "read" /\ r.op = "love" =>
              Cardinality(loved \cup r.tracks) <= MAX_LOVED_TRACKS
        BY <2>1 DEF Promise
      <3> QED
        BY <3>2, <3>3, SocialAssumption
    <2>5. Promise(r, follows', blocks', removals', loved')
      BY <2>1, <2>2, <2>3, <2>4 DEF Promise
    <2> QED
      BY <2>5 DEF r
  <1> QED
    BY <1>1, <1>5, <1>6, <1>7 DEF SocialInv, NoFollowAcrossBlock, RemovedStaysOut

(***************************************************************************)
(* The request in s goes on to r.                                          *)
(***************************************************************************)
LEMMA RequestsValid ==
  ASSUME Requested, NEW s \in Sessions, NEW r, ValidRequest(r),
         \A t \in Sessions \ {s} : Apart(r, request[t]),
         request' = [request EXCEPT ![s] = r]
  PROVE  Requested' /\ \A t \in Sessions : request'[t] = IF t = s THEN r ELSE request[t]
  <1>1. \A t \in Sessions : request'[t] = IF t = s THEN r ELSE request[t]
    BY DEF Requested
  <1>2. \A q, t : Apart(q, t) <=> Apart(t, q)
    BY DEF Apart
  <1>3. request' \in [Sessions -> SocialRequests]
    BY DEF Requested, ValidRequest
  <1>4. \A t \in Sessions : ValidRequest(request'[t])
    BY <1>1 DEF Requested
  <1>5. \A t, u \in Sessions : t # u => Apart(request'[t], request'[u])
    BY <1>1, <1>2 DEF Requested
  <1> QED
    BY <1>1, <1>3, <1>4, <1>5
    DEF Requested, ValidRequest, Apart, HoldsOwn, HoldsPair, OwnLock, PairLock

(* No row changes.                                                         *)
LEMMA RequestMoves ==
  ASSUME SocialInv, NEW s \in Sessions, NEW r, ValidRequest(r),
         Promise(r, follows, blocks, removals, loved),
         \A t \in Sessions \ {s} : Apart(r, request[t]),
         request' = [request EXCEPT ![s] = r], pairTimes' \in 0..MaxPairTimes,
         UNCHANGED <<follows, blocks, removals, departing, loved>>
  PROVE  SocialInv'
  <1>1. Requested' /\ \A t \in Sessions : request'[t] = IF t = s THEN r ELSE request[t]
    BY RequestsValid DEF SocialInv
  <1>2. \A t \in Sessions : Promise(request'[t], follows, blocks, removals, loved)
    BY <1>1 DEF SocialInv, Relied
  <1>3. Relied'
    BY <1>2 DEF Relied
  <1>4. Rows' /\ AllCaps' /\ NoFollowAcrossBlock' /\ RemovedStaysOut'
    BY DEF SocialInv, Rows, AllCaps, NoFollowAcrossBlock, RemovedStaysOut
  <1> QED
    BY <1>1, <1>3, <1>4 DEF SocialInv

(***************************************************************************)
(* A request that ends keeps nobody out and promises nothing.              *)
(***************************************************************************)
LEMMA RequestEnds ==
  ASSUME SocialInv, NEW s \in Sessions, Ends(s)
  PROVE  /\ Requested'
         /\ \A t \in Sessions : request'[t] = IF t = s THEN NoRequest ELSE request[t]
  <1>1. ValidRequest(NoRequest)
    BY DEF ValidRequest, NoRequest, SocialRequests
  <1>2. \A q : Apart(NoRequest, q)
    BY DEF Apart, NoRequest, HoldsOwn, HoldsPair
  <1> QED
    BY <1>1, <1>2, RequestsValid DEF SocialInv, Ends

LEMMA NothingPromised ==
  ASSUME NEW F, NEW B, NEW R, NEW L
  PROVE  Promise(NoRequest, F, B, R, L)
  BY DEF Promise, NoRequest

(***************************************************************************)
(* INSERT of a follow: no other transaction counts the same account's      *)
(* follows.                                                                *)
(***************************************************************************)
LEMMA FollowsWritten ==
  ASSUME SocialInv, NEW s \in Sessions, WriteFollow(s)
  PROVE  SocialInv'
  <1> DEFINE r == request[s]
  <1>1. /\ ValidRequest(r) /\ r.at = "read" /\ r.op = "follow"
        /\ Promise(r, follows, blocks, removals, loved)
        /\ \A t \in Sessions \ {s} : Apart(r, request[t])
    BY DEF WriteFollow, SocialInv, Requested, Relied
  <1>2. /\ Requested'
        /\ \A t \in Sessions : request'[t] = IF t = s THEN NoRequest ELSE request[t]
    BY RequestEnds DEF WriteFollow
  <1>3. CASE ~r.go
    <2>1. /\ Rows' /\ AllCaps' /\ NoFollowAcrossBlock' /\ RemovedStaysOut'
          /\ UNCHANGED <<follows, blocks, removals, loved>>
      BY <1>3 DEF WriteFollow, SocialInv, Rows, AllCaps, NoFollowAcrossBlock, RemovedStaysOut
    <2>2. \A t \in Sessions : Promise(request'[t], follows, blocks, removals, loved)
      BY <1>2, NothingPromised DEF SocialInv, Relied
    <2> QED
      BY <1>2, <2>1, <2>2 DEF SocialInv, Relied
  <1>4. CASE r.go
    <2>1. /\ follows' = follows \cup {<<r.by, r.on>>}
          /\ UNCHANGED <<blocks, removals, departing, loved, pairTimes>>
      BY <1>4 DEF WriteFollow
    <2>2. /\ <<r.on, r.by>> \notin blocks /\ <<r.by, r.on>> \notin blocks
          /\ <<r.on, r.by>> \notin removals
          /\ Cardinality(Own(follows, r.by)) < MAX_FOLLOWING
          /\ <<r.by, r.on>> \in Pairs
      BY <1>1, <1>4 DEF Promise, ValidRequest
    <2> HIDE DEF r
    <2>3. Rows'
      BY <2>1, <2>2, FS_AddElement DEF SocialInv, Rows
    <2>4. \A u : /\ Cardinality(Own(follows', u)) <= MAX_FOLLOWING
                 /\ u # r.by => Own(follows', u) = Own(follows, u)
      <3> DEFINE a == r.by  b == r.on
      <3>1. /\ IsFiniteSet(follows) /\ MAX_FOLLOWING \in Nat
            /\ \A u : Cardinality(Own(follows, u)) <= MAX_FOLLOWING
            /\ Cardinality(Own(follows, a)) < MAX_FOLLOWING
        BY <2>2, SocialAssumption DEF SocialInv, Rows, AllCaps
      <3>2. follows' = follows \cup {<<a, b>>}
        BY <2>1
      <3> HIDE DEF a, b
      <3>3. \A u : u # a => Own(follows', u) = Own(follows, u)
        BY <3>2 DEF Own
      <3>4. Own(follows', a) = Own(follows, a) \cup {<<a, b>>}
        BY <3>2 DEF Own
      <3>5. Cardinality(Own(follows', a)) <= MAX_FOLLOWING
        BY <3>1, <3>4, FiniteOwn, OneMoreRow
      <3> QED
        BY <3>1, <3>3, <3>5 DEF a
    <2>5. AllCaps'
      BY <2>1, <2>4 DEF SocialInv, AllCaps
    <2>6. NoFollowAcrossBlock'
      <3>1. \A b \in blocks : b = <<b[1], b[2]>>
        BY SocialAssumption DEF SocialInv, Rows
      <3> QED
        BY <2>1, <2>2, <3>1 DEF SocialInv, NoFollowAcrossBlock
    <2>7. RemovedStaysOut'
      <3>1. \A x \in removals : x = <<x[1], x[2]>>
        BY SocialAssumption DEF SocialInv, Rows
      <3> QED
        BY <2>1, <2>2, <3>1 DEF SocialInv, RemovedStaysOut
    <2>8. Relied'
      <3> SUFFICES ASSUME NEW t \in Sessions, t # s
                   PROVE  Promise(request[t], follows', blocks', removals', loved')
        BY <1>2, NothingPromised DEF Relied
      <3>1. /\ Apart(r, request[t]) /\ Promise(request[t], follows, blocks, removals, loved)
        BY <1>1 DEF SocialInv, Relied
      <3>2. request[t].at = "read" /\ request[t].op = "follow" => request[t].by # r.by
        BY <1>1, <3>1 DEF Apart, HoldsOwn, OwnLock
      <3> QED
        BY <2>1, <2>4, <3>1, <3>2 DEF Promise
    <2> QED
      BY <1>2, <2>3, <2>5, <2>6, <2>7, <2>8 DEF SocialInv
  <1> QED
    BY <1>1, <1>3, <1>4 DEF ValidRequest, SocialRequests

(***************************************************************************)
(* INSERT of a block: whoever may still follow across it has the lock of   *)
(* the same pair.                                                          *)
(***************************************************************************)
LEMMA BlocksWritten ==
  ASSUME SocialInv, NEW s \in Sessions, WriteBlock(s)
  PROVE  SocialInv'
  <1> DEFINE r == request[s]
  <1>1. /\ ValidRequest(r) /\ r.at = "read" /\ r.op = "block"
        /\ Promise(r, follows, blocks, removals, loved)
        /\ \A t \in Sessions \ {s} : Apart(r, request[t])
    BY DEF WriteBlock, SocialInv, Requested, Relied
  <1>2. /\ Requested'
        /\ \A t \in Sessions : request'[t] = IF t = s THEN NoRequest ELSE request[t]
    BY RequestEnds DEF WriteBlock
  <1>3. CASE ~r.go
    <2>1. /\ Rows' /\ AllCaps' /\ NoFollowAcrossBlock' /\ RemovedStaysOut'
          /\ UNCHANGED <<follows, blocks, removals, loved>>
      BY <1>3 DEF WriteBlock, SocialInv, Rows, AllCaps, NoFollowAcrossBlock, RemovedStaysOut
    <2>2. \A t \in Sessions : Promise(request'[t], follows, blocks, removals, loved)
      BY <1>2, NothingPromised DEF SocialInv, Relied
    <2> QED
      BY <1>2, <2>1, <2>2 DEF SocialInv, Relied
  <1>4. CASE r.go
    <2>1. /\ blocks' = blocks \cup {<<r.by, r.on>>}
          /\ follows' = follows \ {<<r.by, r.on>>, <<r.on, r.by>>}
          /\ UNCHANGED <<removals, departing, loved, pairTimes>>
      BY <1>4 DEF WriteBlock
    <2>2. /\ Cardinality(Own(blocks, r.by)) < MAX_BLOCKS
          /\ <<r.by, r.on>> \in Pairs
      BY <1>1, <1>4 DEF Promise, ValidRequest
    <2> HIDE DEF r
    <2>3. Rows'
      <3>1. follows' \in SUBSET follows /\ IsFiniteSet(follows')
        BY <2>1, FewerRows DEF SocialInv, Rows
      <3> QED
        BY <2>1, <2>2, <3>1, FS_AddElement DEF SocialInv, Rows
    <2>4. \A u : /\ Cardinality(Own(blocks', u)) <= MAX_BLOCKS
                 /\ u # r.by => Own(blocks', u) = Own(blocks, u)
      <3> DEFINE a == r.by  b == r.on
      <3>1. /\ IsFiniteSet(blocks) /\ MAX_BLOCKS \in Nat
            /\ \A u : Cardinality(Own(blocks, u)) <= MAX_BLOCKS
            /\ Cardinality(Own(blocks, a)) < MAX_BLOCKS
        BY <2>2, SocialAssumption DEF SocialInv, Rows, AllCaps
      <3>2. blocks' = blocks \cup {<<a, b>>}
        BY <2>1
      <3> HIDE DEF a, b
      <3>3. \A u : u # a => Own(blocks', u) = Own(blocks, u)
        BY <3>2 DEF Own
      <3>4. Own(blocks', a) = Own(blocks, a) \cup {<<a, b>>}
        BY <3>2 DEF Own
      <3>5. Cardinality(Own(blocks', a)) <= MAX_BLOCKS
        BY <3>1, <3>4, FiniteOwn, OneMoreRow
      <3> QED
        BY <3>1, <3>3, <3>5 DEF a
    <2>5. \A u : /\ Cardinality(Own(follows', u)) <= Cardinality(Own(follows, u))
                 /\ Cardinality(Own(follows', u)) \in Nat
                 /\ Cardinality(Own(follows, u)) \in Nat
      BY <2>1, FiniteOwn DEF SocialInv, Rows
    <2>6. AllCaps'
      <3>1. \A u : Cardinality(Own(follows', u)) <= MAX_FOLLOWING
        BY <2>5, SocialAssumption DEF SocialInv, AllCaps
      <3> QED
        BY <2>1, <2>4, <3>1 DEF SocialInv, AllCaps
    <2>7. NoFollowAcrossBlock' /\ RemovedStaysOut'
      BY <2>1 DEF SocialInv, NoFollowAcrossBlock, RemovedStaysOut
    <2>8. Relied'
      <3> SUFFICES ASSUME NEW t \in Sessions, t # s
                   PROVE  Promise(request[t], follows', blocks', removals', loved')
        BY <1>2, NothingPromised DEF Relied
      <3> DEFINE q == request[t]
      <3>1. /\ Apart(r, q) /\ Promise(q, follows, blocks, removals, loved)
        BY <1>1 DEF SocialInv, Relied
      <3> HIDE DEF q
      <3>2. q.at = "read" /\ q.op = "block" => q.by # r.by
        BY <1>1, <3>1 DEF Apart, HoldsOwn, OwnLock
      <3>3. q.at = "read" /\ q.op = "follow" =>
              <<q.on, q.by>> # <<r.by, r.on>> /\ <<q.by, q.on>> # <<r.by, r.on>>
        BY <1>1, <3>1 DEF Apart, HoldsPair, PairLock
      <3>4. q.at = "read" /\ q.op = "follow" /\ q.go =>
              /\ <<q.on, q.by>> \notin blocks' /\ <<q.by, q.on>> \notin blocks'
              /\ <<q.on, q.by>> \notin removals'
        BY <2>1, <3>1, <3>3 DEF Promise
      <3>5. q.at = "read" /\ q.op = "follow" /\ q.go =>
              Cardinality(Own(follows', q.by)) < MAX_FOLLOWING
        BY <2>5, <3>1, SocialAssumption DEF Promise
      <3>6. Promise(q, follows', blocks', removals', loved')
        BY <2>1, <2>4, <3>1, <3>2, <3>4, <3>5 DEF Promise
      <3> QED
        BY <3>6 DEF q
    <2> QED
      BY <1>2, <2>3, <2>6, <2>7, <2>8 DEF SocialInv
  <1> QED
    BY <1>1, <1>3, <1>4 DEF ValidRequest, SocialRequests

(***************************************************************************)
(* The cooldown of a removed follower, under the same lock of the pair.    *)
(***************************************************************************)
LEMMA RemovalsWritten ==
  ASSUME SocialInv, NEW s \in Sessions, WriteRemoval(s)
  PROVE  SocialInv'
  <1> DEFINE r == request[s]
  <1>1. /\ ValidRequest(r) /\ r.at = "read" /\ r.op = "remove"
        /\ \A t \in Sessions \ {s} : Apart(r, request[t])
    BY DEF WriteRemoval, SocialInv, Requested
  <1>2. /\ Requested'
        /\ \A t \in Sessions : request'[t] = IF t = s THEN NoRequest ELSE request[t]
    BY RequestEnds DEF WriteRemoval
  <1>3. /\ follows' = follows \ {<<r.on, r.by>>}
        /\ removals' \subseteq removals \cup {<<r.by, r.on>>}
        /\ UNCHANGED <<blocks, departing, loved, pairTimes>>
    BY DEF WriteRemoval
  <1>4. <<r.by, r.on>> \in Pairs
    BY <1>1 DEF ValidRequest
  <1> HIDE DEF r
  <1>5. Rows'
    <2>1. follows' \in SUBSET follows /\ IsFiniteSet(follows')
      BY <1>3, FewerRows DEF SocialInv, Rows
    <2> QED
      BY <1>3, <1>4, <2>1 DEF SocialInv, Rows
  <1>6. \A u : /\ Cardinality(Own(follows', u)) <= Cardinality(Own(follows, u))
               /\ Cardinality(Own(follows', u)) \in Nat
               /\ Cardinality(Own(follows, u)) \in Nat
    BY <1>3, FiniteOwn DEF SocialInv, Rows
  <1>7. AllCaps'
    <2>1. \A u : Cardinality(Own(follows', u)) <= MAX_FOLLOWING
      BY <1>6, SocialAssumption DEF SocialInv, AllCaps
    <2> QED
      BY <1>3, <2>1 DEF SocialInv, AllCaps
  <1>8. NoFollowAcrossBlock' /\ RemovedStaysOut'
    BY <1>3 DEF SocialInv, NoFollowAcrossBlock, RemovedStaysOut
  <1>9. Relied'
    <2> SUFFICES ASSUME NEW t \in Sessions, t # s
                 PROVE  Promise(request[t], follows', blocks', removals', loved')
      BY <1>2, NothingPromised DEF Relied
    <2> DEFINE q == request[t]
    <2>1. /\ Apart(r, q) /\ Promise(q, follows, blocks, removals, loved)
      BY <1>1 DEF SocialInv, Relied
    <2> HIDE DEF q
    <2>2. q.at = "read" /\ q.op = "follow" => <<q.on, q.by>> # <<r.by, r.on>>
      BY <1>1, <2>1 DEF Apart, HoldsPair, PairLock
    <2>3. q.at = "read" /\ q.op = "follow" /\ q.go => <<q.on, q.by>> \notin removals'
      BY <1>3, <2>1, <2>2 DEF Promise
    <2>4. q.at = "read" /\ q.op = "follow" /\ q.go =>
            Cardinality(Own(follows', q.by)) < MAX_FOLLOWING
      BY <1>6, <2>1, SocialAssumption DEF Promise
    <2>5. Promise(q, follows', blocks', removals', loved')
      BY <1>3, <2>1, <2>3, <2>4 DEF Promise
    <2> QED
      BY <2>5 DEF q
  <1> QED
    BY <1>2, <1>5, <1>7, <1>8, <1>9 DEF SocialInv

(***************************************************************************)
(* INSERT of loves: the account's lock keeps the others from counting.     *)
(***************************************************************************)
LEMMA LovesWritten ==
  ASSUME SocialInv, NEW s \in Sessions, WriteLoves(s)
  PROVE  SocialInv'
  <1> DEFINE r == request[s]
  <1>1. /\ ValidRequest(r) /\ r.at = "read" /\ r.op = "love"
        /\ Promise(r, follows, blocks, removals, loved)
        /\ \A t \in Sessions \ {s} : ValidRequest(request[t]) /\ Apart(r, request[t])
    BY DEF WriteLoves, SocialInv, Requested, Relied
  <1>2. /\ Requested'
        /\ \A t \in Sessions : request'[t] = IF t = s THEN NoRequest ELSE request[t]
    BY RequestEnds DEF WriteLoves
  <1>3. /\ loved' = loved \cup r.tracks
        /\ UNCHANGED <<follows, blocks, removals, departing, pairTimes>>
    BY DEF WriteLoves
  <1> HIDE DEF r
  <1>4. /\ Cardinality(loved') <= MAX_LOVED_TRACKS
        /\ r.tracks \in SUBSET Tracks
    BY <1>1, <1>3 DEF Promise, ValidRequest, SocialRequests
  <1>5. Rows' /\ AllCaps' /\ NoFollowAcrossBlock' /\ RemovedStaysOut'
    BY <1>3, <1>4 DEF SocialInv, Rows, AllCaps, NoFollowAcrossBlock, RemovedStaysOut
  <1>6. Relied'
    <2> SUFFICES ASSUME NEW t \in Sessions, t # s
                 PROVE  Promise(request[t], follows', blocks', removals', loved')
      BY <1>2, NothingPromised DEF Relied
    <2>1. Promise(request[t], follows, blocks, removals, loved)
      BY DEF SocialInv, Relied
    <2>2. ~(request[t].at = "read" /\ request[t].op = "love")
      BY <1>1 DEF Apart, HoldsOwn, OwnLock, ValidRequest
    <2> QED
      BY <1>3, <2>1, <2>2 DEF Promise
  <1> QED
    BY <1>2, <1>5, <1>6 DEF SocialInv

(***************************************************************************)
(* Handlers that open a request.                                           *)
(***************************************************************************)
LEMMA RequestsOpen ==
  ASSUME SocialInv, NEW s \in Sessions,
         \/ \E p \in Pairs : \/ Follow(s, p[1], p[2]) \/ Block(s, p[1], p[2])
                            \/ RemoveFollower(s, p[1], p[2])
         \/ \E tracks \in SUBSET Tracks : Love(s, tracks)
  PROVE  SocialInv'
  <1>1. \A p \in Pairs : p = <<p[1], p[2]>> /\ p[1] \in Nat /\ p[2] \in Nat
    BY SocialAssumption
  <1>2. pairTimes' \in 0..MaxPairTimes
    <2>1. PairAttempt \/ pairTimes' = pairTimes
      BY DEF Follow, Block, RemoveFollower, Love
    <2> QED
      BY <2>1, SocialAssumption DEF PairAttempt, SocialInv, Rows
  <1>3. ASSUME NEW r, Opens(s, r), ValidRequest(r),
               \A q : Apart(r, q), Promise(r, follows, blocks, removals, loved),
               UNCHANGED <<follows, blocks, removals, departing, loved>>
        PROVE  SocialInv'
    BY <1>2, <1>3, RequestMoves DEF Opens
  <1>4. ASSUME NEW p \in Pairs, Follow(s, p[1], p[2])
        PROVE  SocialInv'
    <2> DEFINE r == [NoRequest EXCEPT !.at = "begun", !.op = "follow", !.by = p[1], !.on = p[2]]
    <2>1. ValidRequest(r) /\ Promise(r, follows, blocks, removals, loved) /\ \A q : Apart(r, q)
      BY <1>1 DEF ValidRequest, NoRequest, SocialRequests, Promise, Apart, HoldsOwn, HoldsPair
    <2>2. Opens(s, r) /\ UNCHANGED <<follows, blocks, removals, departing, loved>>
      BY <1>4 DEF Follow
    <2> HIDE DEF r
    <2> QED
      BY <1>3, <2>1, <2>2
  <1>5. ASSUME NEW p \in Pairs, Block(s, p[1], p[2])
        PROVE  SocialInv'
    <2> DEFINE r == [NoRequest EXCEPT !.at = "begun", !.op = "block", !.by = p[1], !.on = p[2]]
    <2>1. ValidRequest(r) /\ Promise(r, follows, blocks, removals, loved) /\ \A q : Apart(r, q)
      BY <1>1 DEF ValidRequest, NoRequest, SocialRequests, Promise, Apart, HoldsOwn, HoldsPair
    <2>2. Opens(s, r) /\ UNCHANGED <<follows, blocks, removals, departing, loved>>
      BY <1>5 DEF Block
    <2> HIDE DEF r
    <2> QED
      BY <1>3, <2>1, <2>2
  <1>6. ASSUME NEW p \in Pairs, RemoveFollower(s, p[1], p[2])
        PROVE  SocialInv'
    <2> DEFINE r == [NoRequest EXCEPT !.at = "own", !.op = "remove", !.by = p[1], !.on = p[2]]
    <2>1. ValidRequest(r) /\ Promise(r, follows, blocks, removals, loved) /\ \A q : Apart(r, q)
      BY <1>1 DEF ValidRequest, NoRequest, SocialRequests, Promise, Apart, HoldsOwn, HoldsPair
    <2>2. Opens(s, r) /\ UNCHANGED <<follows, blocks, removals, departing, loved>>
      BY <1>6 DEF RemoveFollower
    <2> HIDE DEF r
    <2> QED
      BY <1>3, <2>1, <2>2
  <1>7. ASSUME NEW tracks \in SUBSET Tracks, Love(s, tracks)
        PROVE  SocialInv'
    <2> DEFINE r == [NoRequest EXCEPT !.at = "begun", !.op = "love", !.tracks = tracks]
    <2>1. ValidRequest(r) /\ Promise(r, follows, blocks, removals, loved) /\ \A q : Apart(r, q)
      BY DEF ValidRequest, NoRequest, SocialRequests, Promise, Apart, HoldsOwn, HoldsPair
    <2>2. Opens(s, r) /\ UNCHANGED <<follows, blocks, removals, departing, loved>>
      BY <1>7 DEF Love
    <2> HIDE DEF r
    <2> QED
      BY <1>3, <2>1, <2>2
  <1> QED
    BY <1>4, <1>5, <1>6, <1>7

(***************************************************************************)
(* Locks, and what is read under them.                                     *)
(***************************************************************************)
LEMMA LocksTaken ==
  ASSUME SocialInv, NEW s \in Sessions, TakeOwnLock(s) \/ TakePairLock(s)
  PROVE  SocialInv'
  <1> DEFINE r == request[s]
             next(at) == [r EXCEPT !.at = at]
  <1>1. /\ ValidRequest(r) /\ request \in [Sessions -> SocialRequests]
        /\ \A t \in Sessions \ {s} : Apart(r, request[t])
        /\ pairTimes' \in 0..MaxPairTimes
        /\ UNCHANGED <<follows, blocks, removals, departing, loved>>
    BY DEF TakeOwnLock, TakePairLock, SocialInv, Requested, Rows
  <1>2. CASE TakeOwnLock(s)
    <2>1. /\ ValidRequest(next("own")) /\ Promise(next("own"), follows, blocks, removals, loved)
          /\ request' = [request EXCEPT ![s] = next("own")]
      BY <1>1, <1>2 DEF TakeOwnLock, ValidRequest, SocialRequests, Promise
    <2>2. \A t \in Sessions \ {s} : Apart(next("own"), request[t])
      BY <1>1, <1>2
      DEF TakeOwnLock, ValidRequest, SocialRequests, Apart, HoldsOwn, HoldsPair, OwnLock
    <2> HIDE DEF next
    <2> QED
      BY <1>1, <2>1, <2>2, RequestMoves
  <1>3. CASE TakePairLock(s)
    <2>1. /\ ValidRequest(next("pair")) /\ Promise(next("pair"), follows, blocks, removals, loved)
          /\ request' = [request EXCEPT ![s] = next("pair")]
      BY <1>1, <1>3 DEF TakePairLock, ValidRequest, SocialRequests, Promise
    <2>2. \A t \in Sessions \ {s} : Apart(next("pair"), request[t])
      BY <1>1, <1>3
      DEF TakePairLock, ValidRequest, SocialRequests, Apart, HoldsOwn, HoldsPair, OwnLock, PairLock
    <2> HIDE DEF next
    <2> QED
      BY <1>1, <2>1, <2>2, RequestMoves
  <1> QED
    BY <1>2, <1>3

LEMMA RelationsRead ==
  ASSUME SocialInv, NEW s \in Sessions, ReadRelation(s)
  PROVE  SocialInv'
  <1> DEFINE r == request[s]
             go == CASE r.op = "follow" -> MayFollow(r.by, r.on)
                     [] r.op = "block" -> MayBlock(r.by, r.on)
                     [] r.op = "remove" -> <<r.on, r.by>> \in follows
             next(g) == [r EXCEPT !.at = "read", !.go = g]
  <1>1. /\ ValidRequest(r) /\ request \in [Sessions -> SocialRequests] /\ r.at = "pair"
        /\ \A t \in Sessions \ {s} : Apart(r, request[t])
        /\ pairTimes' \in 0..MaxPairTimes
        /\ UNCHANGED <<follows, blocks, removals, departing, loved>>
    BY DEF ReadRelation, SocialInv, Requested, Rows
  <1>2. r.op \in {"follow", "block", "remove"}
    BY <1>1 DEF ValidRequest, SocialRequests
  <1>3. request' = [request EXCEPT ![s].at = "read", ![s].go = go]
    BY DEF ReadRelation
  <1>4. /\ go \in BOOLEAN
        /\ r.op = "follow" /\ go => MayFollow(r.by, r.on)
        /\ r.op = "block" /\ go => MayBlock(r.by, r.on)
    <2>1. CASE r.op = "follow"
      <3>1. go = MayFollow(r.by, r.on)
        BY <2>1
      <3> QED
        BY <2>1, <3>1 DEF MayFollow
    <2>2. CASE r.op = "block"
      <3>1. go = MayBlock(r.by, r.on)
        BY <2>2
      <3> QED
        BY <2>2, <3>1 DEF MayBlock
    <2>3. CASE r.op = "remove"
      <3>1. go = (<<r.on, r.by>> \in follows)
        BY <2>3
      <3> QED
        BY <2>3, <3>1
    <2> QED
      BY <1>2, <2>1, <2>2, <2>3
  <1> HIDE DEF go
  <1>5. request' = [request EXCEPT ![s] = next(go)]
    BY <1>1, <1>3
  <1>6. ValidRequest(next(go)) /\ \A t \in Sessions \ {s} : Apart(next(go), request[t])
    <2>1. ValidRequest(next(go))
      BY <1>1, <1>4 DEF ValidRequest, SocialRequests
    <2>2. \A t \in Sessions \ {s} : Apart(next(go), request[t])
      BY <1>1 DEF ValidRequest, SocialRequests, Apart, HoldsOwn, HoldsPair, OwnLock, PairLock
    <2> QED
      BY <2>1, <2>2
  <1>7. Promise(next(go), follows, blocks, removals, loved)
    <2>1. \A u : Following(u) = Own(follows, u) /\ Blocking(u) = Own(blocks, u)
      BY DEF Following, Blocking, Own
    <2>2. /\ next(go).op = r.op /\ next(go).by = r.by /\ next(go).on = r.on /\ next(go).go = go
      BY <1>1 DEF ValidRequest, SocialRequests
    <2> HIDE DEF next
    <2> QED
      BY <1>2, <1>4, <2>1, <2>2 DEF Promise, MayFollow, MayBlock
  <1> HIDE DEF next
  <1> QED
    BY <1>1, <1>5, <1>6, <1>7, RequestMoves

LEMMA LovesRead ==
  ASSUME SocialInv, NEW s \in Sessions, ReadLoves(s)
  PROVE  SocialInv'
  <1> DEFINE r == request[s]
             room == MAX_LOVED_TRACKS - Cardinality(loved)
             next(fit) == [r EXCEPT !.at = "read", !.tracks = fit]
  <1>1. /\ ValidRequest(r) /\ request \in [Sessions -> SocialRequests]
        /\ r.at = "own" /\ r.op = "love"
        /\ \A t \in Sessions \ {s} : Apart(r, request[t])
        /\ pairTimes' \in 0..MaxPairTimes
        /\ UNCHANGED <<follows, blocks, removals, departing, loved>>
    BY DEF ReadLoves, RoomCounted, SocialInv, Requested, Rows
  <1>2. PICK fit \in SUBSET (r.tracks \ loved) :
          /\ Cardinality(fit) = IF room < Cardinality(r.tracks \ loved)
                                THEN (IF room < 0 THEN 0 ELSE room)
                                ELSE Cardinality(r.tracks \ loved)
          /\ request' = [request EXCEPT ![s].at = "read", ![s].tracks = fit]
    BY DEF ReadLoves
  <1>3. request' = [request EXCEPT ![s] = next(fit)]
    BY <1>1, <1>2
  <1>4. /\ fit \in SUBSET Tracks /\ loved \in SUBSET Tracks /\ r.tracks \ loved \in SUBSET Tracks
        /\ fit \cap loved = {}
    BY <1>1, <1>2 DEF ValidRequest, SocialRequests, SocialInv, Rows
  <1>5. Cardinality(loved \cup fit) <= MAX_LOVED_TRACKS
    <2>1. /\ IsFiniteSet(loved) /\ Cardinality(loved) \in Nat
          /\ IsFiniteSet(fit) /\ Cardinality(fit) \in Nat
          /\ Cardinality(r.tracks \ loved) \in Nat
      BY <1>4, FiniteLoves
    <2>2. Cardinality(loved) <= MAX_LOVED_TRACKS
      BY DEF SocialInv, AllCaps
    <2>3. Cardinality(fit) <= MAX_LOVED_TRACKS - Cardinality(loved)
      BY <1>2, <2>1, <2>2, SocialAssumption
    <2>4. Cardinality(loved \cup fit) = Cardinality(loved) + Cardinality(fit)
      <3>1. Cardinality(loved \cup fit)
              = Cardinality(loved) + Cardinality(fit) - Cardinality(loved \cap fit)
        BY <2>1, FS_Union
      <3>2. loved \cap fit = {}
        BY <1>4
      <3>3. Cardinality(loved \cap fit) = 0
        BY <3>2, FS_EmptySet
      <3> QED
        BY <2>1, <3>1, <3>3
    <2> QED
      BY <2>1, <2>3, <2>4, SocialAssumption
  <1>6. ValidRequest(next(fit))
    BY <1>1, <1>4 DEF ValidRequest, SocialRequests
  <1>7. \A t \in Sessions \ {s} : Apart(next(fit), request[t])
    BY <1>1 DEF ValidRequest, SocialRequests, Apart, HoldsOwn, HoldsPair, OwnLock
  <1>8. Promise(next(fit), follows, blocks, removals, loved)
    BY <1>1, <1>5 DEF Promise, ValidRequest, SocialRequests
  <1> HIDE DEF next
  <1> QED
    BY <1>1, <1>3, <1>6, <1>7, <1>8, RequestMoves

(***************************************************************************)
(* Every step.                                                             *)
(***************************************************************************)
LEMMA SocialStarts ==
  ASSUME SocialInit
  PROVE  SocialInv
  <1>1. ValidRequest(NoRequest) /\ Apart(NoRequest, NoRequest) /\ NoRequest \in SocialRequests
    BY DEF ValidRequest, NoRequest, SocialRequests, Apart, HoldsOwn, HoldsPair
  <1>2. Requested
    BY <1>1 DEF SocialInit, Requested
  <1>3. Relied
    BY NothingPromised DEF SocialInit, Relied
  <1>4. \A u : Own({}, u) = {}
    BY DEF Own
  <1>5. Rows /\ AllCaps
    BY <1>4, FS_EmptySet, SocialAssumption DEF SocialInit, Rows, AllCaps
  <1> QED
    BY <1>2, <1>3, <1>5 DEF SocialInv, SocialInit, NoFollowAcrossBlock, RemovedStaysOut

LEMMA SocialStep ==
  ASSUME SocialInv, [SocialNext]_socialVars
  PROVE  SocialInv'
  <1>1. ASSUME NEW s \in Sessions, NEW p \in Pairs,
               Follow(s, p[1], p[2]) \/ Block(s, p[1], p[2]) \/ RemoveFollower(s, p[1], p[2])
        PROVE  SocialInv'
    BY <1>1, RequestsOpen
  <1>2. ASSUME NEW s \in Sessions, NEW tracks \in SUBSET Tracks, Love(s, tracks)
        PROVE  SocialInv'
    BY <1>2, RequestsOpen
  <1>3. ASSUME NEW s \in Sessions,
               \/ TakeOwnLock(s) \/ TakePairLock(s) \/ ReadRelation(s)
               \/ WriteFollow(s) \/ WriteBlock(s) \/ WriteRemoval(s)
               \/ ReadLoves(s) \/ WriteLoves(s)
        PROVE  SocialInv'
    BY <1>3, LocksTaken, RelationsRead, FollowsWritten, BlocksWritten, RemovalsWritten,
       LovesRead, LovesWritten
  <1>4. ASSUME NEW p \in Pairs, Unfollow(p[1], p[2]) \/ Unblock(p[1], p[2])
        PROVE  SocialInv'
    BY <1>4, RowsLeave DEF Unfollow, Unblock, SocialInv, Rows
  <1>5. ASSUME NEW t \in Tracks, Unlove(t)
        PROVE  SocialInv'
    BY <1>5, RowsLeave DEF Unlove, SocialInv, Rows
  <1>6. ASSUME NEW r \in removals, RemovalEnds(r)
        PROVE  SocialInv'
    BY <1>6, RowsLeave DEF RemovalEnds, SocialInv, Rows
  <1>7. ASSUME NEW u \in People, Departs(u)
        PROVE  SocialInv'
    BY <1>7, RowsLeave DEF Departs, SocialInv, Rows
  <1>8. CASE UNCHANGED socialVars
    BY <1>8, RowsLeave DEF socialVars, SocialInv, Rows
  <1> QED
    BY <1>1, <1>2, <1>3, <1>4, <1>5, <1>6, <1>7, <1>8 DEF SocialNext

LEMMA SocialInvHolds == SocialSpec => []SocialInv
  <1>1. SocialInit => SocialInv
    BY SocialStarts
  <1>2. SocialInv /\ [SocialNext]_socialVars => SocialInv'
    BY SocialStep
  <1> QED
    BY <1>1, <1>2, PTL DEF SocialSpec

(* Blocks, follows, removals and loves, whatever requests run at once: no  *)
(* follow stands beside a block between the same two accounts, nobody has  *)
(* more rows than the caps allow, and a removed follower stays out         *)
(* (queries/users.rs, queries/blocks.rs and queries/loves.rs).             *)
THEOREM BlocksAndCapsStand == SocialSpec => []BlocksAndCapsHold
  <1>1. SocialInv => BlocksAndCapsHold
    <2> SUFFICES ASSUME SocialInv
                 PROVE  BlocksAndCapsHold
      OBVIOUS
    <2>1. SocialTypeOK
      BY DEF SocialInv, Rows, Requested, ValidRequest, SocialTypeOK
    <2>2. \A u : Following(u) = Own(follows, u) /\ Blocking(u) = Own(blocks, u)
      BY DEF Following, Blocking, Own
    <2>3. CapsHold
      BY <2>2 DEF SocialInv, AllCaps, CapsHold
    <2> QED
      BY <2>1, <2>3 DEF SocialInv, BlocksAndCapsHold
  <1> QED
    BY <1>1, SocialInvHolds, PTL

-------------------------------------------------------------------------------

(****** Tags. ******)

(***************************************************************************)
(* TagsHold is not inductive.  A tag is written some statements after the  *)
(* caps were counted: what was counted stays an upper bound because only   *)
(* one transaction at a time puts a tag on.  And the counts are the tags'  *)
(* whenever no recount is owed, because whoever changes what the tags      *)
(* weigh finds the queue row, inserts it, or is noted by the recount that  *)
(* has taken it.                                                           *)
(***************************************************************************)

(* What an account wears, what the entity wears, what the tags weigh.      *)
Wears(rows, u) == {t \in TagNames : <<u, t>> \in rows}
Worn(rows) == {t \in TagNames : \E u \in Taggers : <<u, t>> \in rows}
By(rows, t) == {u \in Taggers : <<u, t>> \in rows}
Tally(rows, stand) ==
    [t \in TagNames |-> [taggers |-> Cardinality(By(rows, t)),
                         weight |-> Cardinality({u \in By(rows, t) : stand[u] = "counts"})]]

WithinCapsOf(rows) ==
    /\ Cardinality(Worn(rows)) <= MAX_ENTITY_TAGS
    /\ \A u \in Taggers : /\ Cardinality(Wears(rows, u)) <= MAX_TAGS_PER_ENTITY
                          /\ Cardinality(Wears(rows, u)) <= MAX_TAGGINGS

Adds(tx) == tx.at # "idle" /\ tx.op = "add"

(* What a transaction that puts a tag on relies on until it commits.       *)
Fits(tx, rows) ==
    Adds(tx) =>
        /\ Cardinality(Worn(rows) \cup {tx.tag}) <= MAX_ENTITY_TAGS
        /\ Cardinality(Wears(rows, tx.u) \cup {tx.tag}) <= MAX_TAGS_PER_ENTITY
        /\ Cardinality(Wears(rows, tx.u) \cup {tx.tag}) <= MAX_TAGGINGS

Capped ==
    /\ WithinCapsOf(tagged)
    /\ \A r \in TagRequests : Fits(tagTx[r], tagged)
    /\ \A q, r \in TagRequests : Adds(tagTx[q]) /\ Adds(tagTx[r]) => q = r

(* A transaction's row, and who may have inserted the queue's.             *)
Enqueued ==
    /\ \A r \in TagRequests :
         /\ tagTx[r].at # "idle" => tagTx[r].u \in Taggers /\ tagTx[r].tag \in TagNames
         /\ tagTx[r].at = "queued" <=> tagTx[r].row # "none"
         /\ tagTx[r].row = "inserted" => queue = "absent" /\ recount.at = "idle"
    /\ \A q, r \in TagRequests : tagTx[q].row = "inserted" /\ tagTx[r].row = "inserted" => q = r

(* What the worker is about to write is what the tags weigh, or it knows.  *)
Recounting ==
    /\ recount.at # "idle" => queue = "due"
    /\ recount.at = "counted" =>
         /\ recount.counts \in TagCounts
         /\ recount.counts = Tally(tagged, standing) \/ recount.missed \/ recount.aged

FollowingTag ==
    queue = "absent" /\ recount.at = "idle" /\ ~drifted /\ ~unqueued
        => counts = Tally(tagged, standing)

TagsInv == TagsTypeOK /\ Capped /\ Enqueued /\ Recounting /\ FollowingTag

(***************************************************************************)
(* Sets of tags.                                                           *)
(***************************************************************************)
LEMMA FewerTags ==
  ASSUME NEW S \in SUBSET TagNames, NEW T \in SUBSET S, NEW t
  PROVE  /\ Cardinality(T) <= Cardinality(S) /\ Cardinality(T \cup {t}) <= Cardinality(S \cup {t})
         /\ Cardinality(T) \in Nat /\ Cardinality(S) \in Nat
         /\ Cardinality(T \cup {t}) \in Nat /\ Cardinality(S \cup {t}) \in Nat
  <1>1. IsFiniteSet(S) /\ IsFiniteSet(S \cup {t})
    BY FS_Subset, FS_AddElement, TagsAssumption
  <1>2. T \cup {t} \in SUBSET (S \cup {t})
    OBVIOUS
  <1>3. IsFiniteSet(T) /\ IsFiniteSet(T \cup {t})
    BY <1>1, <1>2, FS_Subset
  <1> QED
    BY <1>1, <1>2, <1>3, FS_Subset, FS_CardinalityType

LEMMA FewerFit ==
  ASSUME NEW S \in SUBSET TagNames, NEW T \in SUBSET S, NEW t, NEW n \in Nat
  PROVE  /\ Cardinality(S) <= n => Cardinality(T) <= n
         /\ Cardinality(S \cup {t}) <= n => Cardinality(T \cup {t}) <= n
  <1>1. /\ Cardinality(T) <= Cardinality(S) /\ Cardinality(T \cup {t}) <= Cardinality(S \cup {t})
        /\ Cardinality(T) \in Nat /\ Cardinality(S) \in Nat
        /\ Cardinality(T \cup {t}) \in Nat /\ Cardinality(S \cup {t}) \in Nat
    BY FewerTags
  <1> QED
    BY <1>1

LEMMA TallyIsACount ==
  ASSUME NEW rows, NEW stand
  PROVE  /\ Tally(rows, stand) \in TagCounts
         /\ \A t \in TagNames : Tally(rows, stand)[t].weight <= Tally(rows, stand)[t].taggers
  <1> SUFFICES ASSUME NEW t \in TagNames
               PROVE  /\ Cardinality(By(rows, t)) \in Nat
                      /\ Cardinality({u \in By(rows, t) : stand[u] = "counts"}) \in Nat
                      /\ Cardinality({u \in By(rows, t) : stand[u] = "counts"})
                           <= Cardinality(By(rows, t))
    BY DEF Tally, TagCounts
  <1> DEFINE by == By(rows, t)
             full == {u \in by : stand[u] = "counts"}
  <1>1. by \in SUBSET Taggers /\ full \in SUBSET by
    BY DEF By
  <1> HIDE DEF by, full
  <1>2. IsFiniteSet(by) /\ IsFiniteSet(full) /\ Cardinality(full) <= Cardinality(by)
    BY <1>1, FS_Subset, TagsAssumption
  <1> QED
    BY <1>2, FS_CardinalityType DEF by, full

(* Fewer tags break no cap and nobody's reliance on one.                   *)
LEMMA TagsLeave ==
  ASSUME NEW rows, NEW fewer \in SUBSET rows
  PROVE  /\ WithinCapsOf(rows) => WithinCapsOf(fewer)
         /\ \A tx : Fits(tx, rows) => Fits(tx, fewer)
  <1>1. /\ Worn(rows) \in SUBSET TagNames /\ Worn(fewer) \in SUBSET Worn(rows)
        /\ \A u : Wears(rows, u) \in SUBSET TagNames /\ Wears(fewer, u) \in SUBSET Wears(rows, u)
    BY DEF Worn, Wears
  <1>2. WithinCapsOf(rows) => WithinCapsOf(fewer)
    <2> SUFFICES ASSUME WithinCapsOf(rows)
                 PROVE  WithinCapsOf(fewer)
      OBVIOUS
    <2>1. Cardinality(Worn(fewer)) <= MAX_ENTITY_TAGS
      BY <1>1, FewerFit, TagsAssumption DEF WithinCapsOf
    <2>2. ASSUME NEW u \in Taggers
          PROVE  /\ Cardinality(Wears(fewer, u)) <= MAX_TAGS_PER_ENTITY
                 /\ Cardinality(Wears(fewer, u)) <= MAX_TAGGINGS
      BY <1>1, FewerFit, TagsAssumption DEF WithinCapsOf
    <2> QED
      BY <2>1, <2>2 DEF WithinCapsOf
  <1>3. ASSUME NEW tx, Fits(tx, rows), Adds(tx)
        PROVE  /\ Cardinality(Worn(fewer) \cup {tx.tag}) <= MAX_ENTITY_TAGS
               /\ Cardinality(Wears(fewer, tx.u) \cup {tx.tag}) <= MAX_TAGS_PER_ENTITY
               /\ Cardinality(Wears(fewer, tx.u) \cup {tx.tag}) <= MAX_TAGGINGS
    <2>1. Cardinality(Worn(fewer) \cup {tx.tag}) <= MAX_ENTITY_TAGS
      BY <1>1, <1>3, FewerFit, TagsAssumption DEF Fits
    <2>2. /\ Wears(rows, tx.u) \in SUBSET TagNames
          /\ Wears(fewer, tx.u) \in SUBSET Wears(rows, tx.u)
      BY <1>1
    <2>3. Cardinality(Wears(fewer, tx.u) \cup {tx.tag}) <= MAX_TAGS_PER_ENTITY
      BY <1>3, <2>2, FewerFit, TagsAssumption DEF Fits
    <2>4. Cardinality(Wears(fewer, tx.u) \cup {tx.tag}) <= MAX_TAGGINGS
      BY <1>3, <2>2, FewerFit, TagsAssumption DEF Fits
    <2> QED
      BY <2>1, <2>3, <2>4
  <1> QED
    BY <1>2, <1>3 DEF Fits

(***************************************************************************)
(* Transactions move one at a time.                                        *)
(***************************************************************************)
LEMMA TxMoves ==
  ASSUME TagsTypeOK, NEW r \in TagRequests, NEW tx \in TagTxs, tagTx' = [tagTx EXCEPT ![r] = tx]
  PROVE  /\ tagTx' \in [TagRequests -> TagTxs] /\ tagTx'[r] = tx
         /\ \A q \in TagRequests \ {r} : tagTx'[q] = tagTx[q]
  BY DEF TagsTypeOK

LEMMA NoTxIsIdle == NoTx \in TagTxs /\ NoTx.at = "idle" /\ NoTx.row = "none" /\ NoTx.op = "add"
  BY DEF NoTx, TagTxs

(* add and the removal of a tag: their row is written, nothing queued.     *)
LEMMA TagWritten ==
  ASSUME TagsTypeOK, NEW r \in TagRequests, NEW u \in Taggers, NEW t \in TagNames,
         AddTag(r, u, t) \/ RemoveTag(r, u, t)
  PROVE  /\ tagTx[r].at = "idle"
         /\ tagTx' \in [TagRequests -> TagTxs]
         /\ tagTx'[r].at = "wrote" /\ tagTx'[r].row = "none"
         /\ tagTx'[r].u = u /\ tagTx'[r].tag = t
         /\ AddTag(r, u, t) => tagTx'[r].op = "add"
         /\ RemoveTag(r, u, t) => tagTx'[r].op = "remove"
         /\ \A q \in TagRequests \ {r} : tagTx'[q] = tagTx[q]
  <1> DEFINE add == [NoTx EXCEPT !.at = "wrote", !.u = u, !.tag = t]
             remove == [NoTx EXCEPT !.at = "wrote", !.op = "remove", !.u = u, !.tag = t]
  <1>1. /\ add \in TagTxs /\ add.at = "wrote" /\ add.row = "none" /\ add.op = "add"
        /\ add.u = u /\ add.tag = t
    BY DEF NoTx, TagTxs
  <1>2. /\ remove \in TagTxs /\ remove.at = "wrote" /\ remove.row = "none"
        /\ remove.op = "remove" /\ remove.u = u /\ remove.tag = t
    BY DEF NoTx, TagTxs
  <1>3. /\ AddTag(r, u, t) => tagTx' = [tagTx EXCEPT ![r] = add]
        /\ RemoveTag(r, u, t) => tagTx' = [tagTx EXCEPT ![r] = remove]
        /\ tagTx[r].at = "idle"
    BY DEF AddTag, RemoveTag
  <1> HIDE DEF add, remove
  <1>4. add # remove
    BY <1>1, <1>2
  <1>5. ~(AddTag(r, u, t) /\ RemoveTag(r, u, t))
    BY <1>1, <1>2, <1>3, <1>4, TxMoves
  <1> QED
    BY <1>1, <1>2, <1>3, <1>5, TxMoves

LEMMA EntityQueued ==
  ASSUME TagsTypeOK, NEW r \in TagRequests, QueueEntity(r)
  PROVE  /\ tagTx' \in [TagRequests -> TagTxs]
         /\ tagTx'[r].at = "queued" /\ tagTx'[r].op = tagTx[r].op
         /\ tagTx'[r].u = tagTx[r].u /\ tagTx'[r].tag = tagTx[r].tag
         /\ tagTx'[r].row = IF queue = "absent" THEN "inserted" ELSE "found"
         /\ \A q \in TagRequests \ {r} : tagTx'[q] = tagTx[q]
  <1> DEFINE row == IF queue = "absent" THEN "inserted" ELSE "found"
             tx == [tagTx[r] EXCEPT !.at = "queued", !.row = row]
  <1>1. tagTx[r] \in TagTxs /\ row \in {"found", "inserted"}
    BY DEF TagsTypeOK
  <1>2. tagTx' = [tagTx EXCEPT ![r] = tx]
    BY DEF QueueEntity, TagsTypeOK
  <1> HIDE DEF row
  <1>3. /\ tx \in TagTxs /\ tx.at = "queued" /\ tx.op = tagTx[r].op /\ tx.u = tagTx[r].u
        /\ tx.tag = tagTx[r].tag /\ tx.row = row
    BY <1>1 DEF TagTxs
  <1> HIDE DEF tx
  <1> QED
    BY <1>2, <1>3, TxMoves DEF row

LEMMA TxEnds ==
  ASSUME TagsTypeOK, NEW r \in TagRequests, CommitTag(r) \/ TagTxLost(r)
  PROVE  /\ tagTx' \in [TagRequests -> TagTxs] /\ tagTx'[r] = NoTx
         /\ \A q \in TagRequests \ {r} : tagTx'[q] = tagTx[q]
  BY TxMoves, NoTxIsIdle DEF CommitTag, TagTxLost

(***************************************************************************)
(* The caps: only one transaction at a time puts a tag on, under the locks *)
(* of may_tag, and everything else takes tags off.                         *)
(***************************************************************************)
LEMMA CapsKept ==
  ASSUME TagsInv, TagsNext
  PROVE  Capped'
  <1>1. ASSUME UNCHANGED tagTx, tagged' \subseteq tagged
        PROVE  Capped'
    BY <1>1, TagsLeave DEF TagsInv, Capped, Fits, Adds
  <1>2. ASSUME NEW r \in TagRequests, NEW u \in Taggers, NEW t \in TagNames, AddTag(r, u, t)
        PROVE  Capped'
    <2>0. /\ tagTx'[r].op = "add" /\ tagTx'[r].u = u /\ tagTx'[r].tag = t
          /\ \A q \in TagRequests \ {r} : tagTx'[q] = tagTx[q]
      BY <1>2, TagWritten DEF TagsInv
    <2>1. /\ tagTx'[r].op = "add" /\ tagTx'[r].u = u /\ tagTx'[r].tag = t /\ tagged' = tagged
          /\ \A q \in TagRequests \ {r} : tagTx'[q] = tagTx[q]
      BY <1>2, <2>0 DEF AddTag
    <2>2. \A q \in TagRequests : ~Adds(tagTx[q])
      BY <1>2 DEF AddTag, TagLockFree, Adds
    <2>3. /\ Cardinality(Worn(tagged) \cup {t}) <= MAX_ENTITY_TAGS
          /\ Cardinality(Wears(tagged, u)) + 1 <= MAX_TAGS_PER_ENTITY
          /\ Cardinality(Wears(tagged, u)) + 1 <= MAX_TAGGINGS
      BY <1>2 DEF AddTag, WithinCaps, TagsOf, OnEntity, Wears, Worn
    <2>4. Cardinality(Wears(tagged, u) \cup {t}) <= Cardinality(Wears(tagged, u)) + 1
      <3>0. Wears(tagged, u) \in SUBSET TagNames
        BY DEF Wears
      <3>1. IsFiniteSet(Wears(tagged, u))
        BY <3>0, FS_Subset, TagsAssumption
      <3>2. Cardinality(Wears(tagged, u)) \in Nat
        BY <3>1, FS_CardinalityType
      <3>3. Cardinality(Wears(tagged, u) \cup {t})
              = IF t \in Wears(tagged, u) THEN Cardinality(Wears(tagged, u))
                ELSE Cardinality(Wears(tagged, u)) + 1
        BY <3>1, FS_AddElement
      <3> QED
        BY <3>2, <3>3
    <2>5. /\ Cardinality(Wears(tagged, u)) \in Nat
          /\ Cardinality(Wears(tagged, u) \cup {t}) \in Nat
      BY FewerTags DEF Wears
    <2>6. Fits(tagTx'[r], tagged)
      BY <2>1, <2>3, <2>4, <2>5, TagsAssumption DEF Fits
    <2>7. \A q \in TagRequests : Fits(tagTx'[q], tagged)
      BY <2>1, <2>2, <2>6 DEF Fits
    <2> QED
      BY <2>1, <2>2, <2>7 DEF TagsInv, Capped
  <1>3. ASSUME NEW r \in TagRequests, NEW u \in Taggers, NEW t \in TagNames, RemoveTag(r, u, t)
        PROVE  Capped'
    <2>1. /\ tagTx'[r].op = "remove"
          /\ \A q \in TagRequests \ {r} : tagTx'[q] = tagTx[q]
      BY <1>3, TagWritten DEF TagsInv
    <2>2. tagged' = tagged
      BY <1>3 DEF RemoveTag
    <2> QED
      BY <2>1, <2>2 DEF TagsInv, Capped, Fits, Adds
  <1>4. ASSUME NEW r \in TagRequests, QueueEntity(r)
        PROVE  Capped'
    <2>1. /\ tagTx'[r].op = tagTx[r].op /\ tagTx'[r].u = tagTx[r].u
          /\ tagTx'[r].tag = tagTx[r].tag /\ tagTx[r].at # "idle" /\ tagged' = tagged
          /\ \A q \in TagRequests \ {r} : tagTx'[q] = tagTx[q]
      BY <1>4, EntityQueued DEF TagsInv, QueueEntity
    <2> QED
      BY <2>1 DEF TagsInv, Capped, Fits, Adds
  <1>5. ASSUME NEW r \in TagRequests, TagTxLost(r)
        PROVE  Capped'
    <2>1. /\ ~Adds(tagTx'[r]) /\ tagged' = tagged
          /\ \A q \in TagRequests \ {r} : tagTx'[q] = tagTx[q]
      BY <1>5, TxEnds, NoTxIsIdle DEF TagsInv, TagTxLost, Adds
    <2> QED
      BY <2>1 DEF TagsInv, Capped, Fits
  <1>6. ASSUME NEW r \in TagRequests, CommitTag(r)
        PROVE  Capped'
    <2> DEFINE u == tagTx[r].u
               t == tagTx[r].tag
    <2>1. /\ ~Adds(tagTx'[r])
          /\ \A q \in TagRequests \ {r} : tagTx'[q] = tagTx[q]
      BY <1>6, TxEnds, NoTxIsIdle DEF TagsInv, Adds
    <2>2. CASE tagTx[r].op # "add"
      <3>1. tagged' \subseteq tagged
        BY <1>6, <2>2 DEF CommitTag
      <3> QED
        BY <2>1, <3>1, TagsLeave DEF TagsInv, Capped, Fits
    <2>3. CASE tagTx[r].op = "add"
      <3>1. tagged' = tagged \cup {<<u, t>>} /\ Adds(tagTx[r])
        BY <1>6, <2>3 DEF CommitTag, Adds
      <3>2. \A q \in TagRequests : ~Adds(tagTx'[q])
        BY <2>1, <3>1 DEF TagsInv, Capped
      <3>3. u \in Taggers /\ t \in TagNames
        BY <1>6 DEF TagsInv, Enqueued, CommitTag
      <3>4. /\ Worn(tagged') = Worn(tagged) \cup {t}
            /\ Wears(tagged', u) = Wears(tagged, u) \cup {t}
            /\ \A v \in Taggers \ {u} : Wears(tagged', v) = Wears(tagged, v)
        BY <3>1, <3>3 DEF Worn, Wears
      <3>5. Fits(tagTx[r], tagged)
        BY DEF TagsInv, Capped
      <3>6. WithinCapsOf(tagged')
        BY <3>1, <3>4, <3>5 DEF TagsInv, Capped, WithinCapsOf, Fits
      <3> QED
        BY <3>2, <3>6 DEF Capped, Fits
    <2> QED
      BY <2>2, <2>3
  <1> QED
    BY <1>1, <1>2, <1>3, <1>4, <1>5, <1>6
    DEF TagsNext, ChangeStanding, EraseTagger, WeightDrifts, QueueDue, EnqueueAll, TakeDue,
        Recount, CommitRecount, RecountLost, PurgeLooks, PurgeDeletes

(***************************************************************************)
(* The queue's row.                                                        *)
(***************************************************************************)
LEMMA EnqueuedKept ==
  ASSUME TagsInv, TagsNext
  PROVE  Enqueued'
  <1> DEFINE Free == \A q \in TagRequests : tagTx[q].row # "inserted"
  <1>1. ASSUME UNCHANGED tagTx, Free \/ UNCHANGED <<queue, recount.at>>
        PROVE  Enqueued'
    BY <1>1 DEF TagsInv, Enqueued
  <1>2. ASSUME NEW r \in TagRequests, NEW u \in Taggers, NEW t \in TagNames,
               AddTag(r, u, t) \/ RemoveTag(r, u, t)
        PROVE  Enqueued'
    <2>1. /\ tagTx'[r].at = "wrote" /\ tagTx'[r].row = "none"
          /\ tagTx'[r].u = u /\ tagTx'[r].tag = t
          /\ \A q \in TagRequests \ {r} : tagTx'[q] = tagTx[q]
      BY <1>2, TagWritten DEF TagsInv
    <2>2. UNCHANGED <<queue, recount>>
      BY <1>2 DEF AddTag, RemoveTag
    <2> QED
      BY <2>1, <2>2 DEF TagsInv, Enqueued
  <1>3. ASSUME NEW r \in TagRequests, QueueEntity(r)
        PROVE  Enqueued'
    <2>1. /\ tagTx'[r].at = "queued" /\ tagTx[r].at = "wrote"
          /\ tagTx'[r].u = tagTx[r].u /\ tagTx'[r].tag = tagTx[r].tag
          /\ tagTx'[r].row = IF queue = "absent" THEN "inserted" ELSE "found"
          /\ \A q \in TagRequests \ {r} : tagTx'[q] = tagTx[q]
          /\ Free /\ recount.at = "idle" /\ UNCHANGED <<queue, recount>>
      BY <1>3, EntityQueued DEF TagsInv, QueueEntity
    <2> QED
      BY <2>1 DEF TagsInv, Enqueued
  <1>4. ASSUME NEW r \in TagRequests, TagTxLost(r)
        PROVE  Enqueued'
    BY <1>4, TxEnds, NoTxIsIdle DEF TagsInv, Enqueued, TagTxLost
  <1>5. ASSUME NEW r \in TagRequests, CommitTag(r)
        PROVE  Enqueued'
    <2>1. /\ tagTx'[r] = NoTx /\ \A q \in TagRequests \ {r} : tagTx'[q] = tagTx[q]
          /\ recount'.at = recount.at
          /\ queue' = IF tagTx[r].row = "inserted" THEN "settling" ELSE queue
      BY <1>5, TxEnds DEF TagsInv, TagsTypeOK, CommitTag, QueueAfter
    <2> QED
      BY <2>1, NoTxIsIdle DEF TagsInv, Enqueued
  <1>6. ASSUME NEW u \in Taggers, WeightDrifts(u)
        PROVE  Enqueued'
    <2>1. recount'.at = recount.at
      BY <1>6 DEF WeightDrifts, TagsInv, TagsTypeOK
    <2> QED
      BY <1>1, <1>6, <2>1 DEF WeightDrifts
  <1>7. CASE \/ QueueDue \/ TakeDue \/ Recount \/ CommitRecount \/ RecountLost
    <2>1. Free
      BY <1>7 DEF QueueDue, TakeDue, Recount, CommitRecount, RecountLost, TagsInv, Enqueued
    <2> QED
      BY <1>1, <1>7, <2>1 DEF QueueDue, TakeDue, Recount, CommitRecount, RecountLost
  <1>8. CASE \/ EnqueueAll \/ PurgeLooks \/ PurgeDeletes
             \/ \E u \in Taggers, to \in {"counts", "young", "suspended", "leaving"} :
                  ChangeStanding(u, to) \/ EraseTagger(u)
    <2>1. UNCHANGED tagTx /\ (Free \/ UNCHANGED <<queue, recount>>)
      BY <1>8 DEF EnqueueAll, PurgeLooks, PurgeDeletes, ChangeStanding, EraseTagger, QueueUser
    <2> QED
      BY <1>1, <2>1
  <1> QED
    BY <1>2, <1>3, <1>4, <1>5, <1>6, <1>7, <1>8 DEF TagsNext

(***************************************************************************)
(* The recount.                                                            *)
(***************************************************************************)
LEMMA UntaggedWeighNothing ==
  ASSUME TagsTypeOK, NEW u \in Taggers, TagsOf(u) = {},
         NEW stand, \A v \in Taggers \ {u} : stand[v] = standing[v]
  PROVE  Tally(tagged, stand) = Tally(tagged, standing)
  <1>1. \A t \in TagNames : u \notin By(tagged, t)
    BY DEF TagsOf, By
  <1>2. \A t \in TagNames :
          {v \in By(tagged, t) : stand[v] = "counts"} = {v \in By(tagged, t) : standing[v] = "counts"}
    BY <1>1 DEF By
  <1> QED
    BY <1>2 DEF Tally

LEMMA PurgeKeepsTally ==
  ASSUME TagsTypeOK, PurgeDeletes, counts = Tally(tagged, standing)
  PROVE  counts' = Tally(tagged', standing)
  <1>1. counts' = [t \in TagNames |-> IF t \in purge.tags THEN Uncounted[t] ELSE counts[t]]
    BY DEF PurgeDeletes
  <1>2. ASSUME NEW t \in TagNames
        PROVE  counts'[t] = Tally(tagged', standing)[t]
    <2>1. CASE t \in purge.tags
      <3>1. By(tagged', t) = {}
        BY <2>1 DEF PurgeDeletes, By
      <3>2. {u \in By(tagged', t) : standing[u] = "counts"} = {}
        BY <3>1
      <3> QED
        BY <1>1, <2>1, <3>1, <3>2, FS_EmptySet DEF Tally, Uncounted
    <2>2. CASE t \notin purge.tags
      <3>1. By(tagged', t) = By(tagged, t)
        BY <2>2 DEF PurgeDeletes, By
      <3> QED
        BY <1>1, <2>2, <3>1 DEF Tally
    <2> QED
      BY <2>1, <2>2
  <1> QED
    BY <1>1, <1>2 DEF Tally

LEMMA RecountKept ==
  ASSUME TagsInv, TagsNext
  PROVE  Recounting' /\ FollowingTag'
  <1> USE DEF TagsInv, Recounting, FollowingTag
  <1>1. ASSUME UNCHANGED <<tagged, standing, counts, queue, recount, drifted, unqueued>>
        PROVE  Recounting' /\ FollowingTag'
    BY <1>1
  <1>2. ASSUME NEW r \in TagRequests, CommitTag(r)
        PROVE  Recounting' /\ FollowingTag'
    <2>1. /\ recount'.at = recount.at /\ recount'.counts = recount.counts
          /\ recount'.aged = recount.aged
          /\ recount'.missed = (recount.missed \/ tagTx[r].row = "found")
          /\ queue' = IF tagTx[r].row = "inserted" THEN "settling" ELSE queue
          /\ unqueued' = (unqueued \/ (tagTx[r].row = "found" /\ queue = "absent"))
          /\ UNCHANGED <<counts, standing, drifted>>
      BY <1>2 DEF CommitTag, QueueAfter, TagsTypeOK
    <2>2. tagTx[r].row \in {"found", "inserted"}
      BY <1>2 DEF CommitTag, TagsTypeOK, TagTxs, Enqueued
    <2>3. tagTx[r].row = "inserted" => recount.at = "idle"
      BY DEF Enqueued
    <2>4. Recounting'
      BY <2>1, <2>2, <2>3
    <2>5. FollowingTag'
      BY <2>1, <2>2
    <2> QED
      BY <2>4, <2>5
  <1>3. ASSUME NEW u \in Taggers, NEW to \in {"counts", "young", "suspended", "leaving"},
               ChangeStanding(u, to)
        PROVE  Recounting' /\ FollowingTag'
    <2>1. /\ recount.at = "idle" /\ UNCHANGED <<tagged, counts, recount, drifted, unqueued>>
          /\ queue' = (IF TagsOf(u) = {} THEN queue ELSE "due")
      BY <1>3 DEF ChangeStanding, QueueUser
    <2>2. TagsOf(u) = {} => Tally(tagged, standing') = Tally(tagged, standing)
      BY <1>3, UntaggedWeighNothing DEF ChangeStanding, TagsTypeOK
    <2> QED
      BY <2>1, <2>2
  <1>4. ASSUME NEW u \in Taggers, EraseTagger(u)
        PROVE  Recounting' /\ FollowingTag'
    <2>1. /\ recount.at = "idle" /\ UNCHANGED <<counts, recount, drifted, unqueued>>
          /\ queue' = (IF TagsOf(u) = {} THEN queue ELSE "due")
      BY <1>4 DEF EraseTagger, QueueUser
    <2>2. TagsOf(u) = {} => tagged' = tagged
      BY <1>4 DEF EraseTagger, TagsOf, TagsTypeOK
    <2>3. TagsOf(u) = {} => Tally(tagged, standing') = Tally(tagged, standing)
      BY <1>4, UntaggedWeighNothing DEF EraseTagger, TagsTypeOK
    <2> QED
      BY <2>1, <2>2, <2>3
  <1>5. ASSUME NEW u \in Taggers, WeightDrifts(u)
        PROVE  Recounting' /\ FollowingTag'
    <2>1. /\ recount'.at = recount.at /\ recount'.counts = recount.counts /\ recount'.aged
          /\ drifted' /\ queue' = queue
      BY <1>5 DEF WeightDrifts, TagsTypeOK
    <2> QED
      BY <2>1
  <1>6. CASE QueueDue \/ EnqueueAll \/ TakeDue \/ RecountLost
    BY <1>6 DEF QueueDue, EnqueueAll, TakeDue, RecountLost, NoRecount
  <1>7. CASE Recount
    <2>1. Recounted = Tally(tagged, standing)
      BY DEF Recounted, Tally, By
    <2>2. recount'.at = "counted" /\ recount'.counts = Tally(tagged, standing)
      BY <1>7, <2>1 DEF Recount, NoRecount
    <2> QED
      BY <1>7, <2>2, TallyIsACount DEF Recount
  <1>8. CASE CommitRecount
    BY <1>8 DEF CommitRecount, NoRecount
  <1>9. CASE PurgeDeletes
    <2>1. recount.at = "idle" /\ UNCHANGED <<standing, queue, recount, drifted, unqueued>>
      BY <1>9 DEF PurgeDeletes
    <2> QED
      BY <1>9, <2>1, PurgeKeepsTally
  <1> QED
    BY <1>1, <1>2, <1>3, <1>4, <1>5, <1>6, <1>7, <1>8, <1>9
    DEF TagsNext, AddTag, RemoveTag, QueueEntity, TagTxLost, PurgeLooks

(***************************************************************************)
(* Types, and every step.                                                  *)
(***************************************************************************)
Recounts == [at : {"idle", "took", "counted"}, counts : TagCounts \cup {<<>>},
             missed : BOOLEAN, aged : BOOLEAN]

LEMMA NoRecountIsOne == NoRecount \in Recounts /\ [NoRecount EXCEPT !.at = "took"] \in Recounts
  BY DEF NoRecount, Recounts

LEMMA TagTimesBounded ==
  ASSUME TagsTypeOK, TagTime \/ UNCHANGED tagTimes
  PROVE  tagTimes' \in 0..MaxTagTimes
  BY TagsAssumption DEF TagTime, TagsTypeOK

LEMMA StandingChanges ==
  ASSUME TagsTypeOK, NEW u \in Taggers,
         \/ \E to \in {"counts", "young", "suspended", "leaving"} : ChangeStanding(u, to)
         \/ EraseTagger(u) \/ WeightDrifts(u)
  PROVE  /\ standing' \in [Taggers -> {"counts", "young", "suspended", "leaving", "gone"}]
         /\ tagged' \subseteq Taggers \X TagNames
         /\ queue' \in {"absent", "settling", "due"}
         /\ drifted' \in BOOLEAN
         /\ TagTime \/ UNCHANGED tagTimes
         /\ UNCHANGED <<names, counts, tagTx, purge, unqueued, swept>>
  BY DEF ChangeStanding, EraseTagger, WeightDrifts, QueueUser, TagsTypeOK

LEMMA TagTypesKept ==
  ASSUME TagsInv, TagsNext
  PROVE  TagsTypeOK'
  <1>1. CASE \E r \in TagRequests :
               \/ \E u \in Taggers, t \in TagNames : AddTag(r, u, t) \/ RemoveTag(r, u, t)
               \/ QueueEntity(r) \/ TagTxLost(r)
    <2>1. tagTx' \in [TagRequests -> TagTxs]
      BY <1>1, TagWritten, EntityQueued, TxEnds DEF TagsInv
    <2>2. UNCHANGED <<tagged, names, standing, counts, queue, recount, purge, drifted,
                      unqueued, swept>>
      BY <1>1 DEF AddTag, RemoveTag, QueueEntity, TagTxLost
    <2>3. tagTimes' \in 0..MaxTagTimes
      BY <1>1, TagTimesBounded DEF AddTag, RemoveTag, QueueEntity, TagTxLost, TagsInv
    <2> QED
      BY <2>1, <2>2, <2>3 DEF TagsInv, TagsTypeOK
  <1>2. ASSUME NEW r \in TagRequests, CommitTag(r)
        PROVE  TagsTypeOK'
    <2>1. tagTx' \in [TagRequests -> TagTxs]
      BY <1>2, TxEnds DEF TagsInv
    <2>2. tagTx[r].u \in Taggers /\ tagTx[r].tag \in TagNames
      BY <1>2 DEF CommitTag, TagsInv, Enqueued
    <2>3. /\ tagged' \subseteq Taggers \X TagNames /\ names' \subseteq TagNames
          /\ queue' \in {"absent", "settling", "due"} /\ unqueued' \in BOOLEAN
      BY <1>2, <2>2 DEF CommitTag, QueueAfter, TagsInv, TagsTypeOK
    <2>4. recount' \in [at : {"idle", "took", "counted"}, counts : TagCounts \cup {<<>>},
                        missed : BOOLEAN, aged : BOOLEAN]
      BY <1>2 DEF CommitTag, TagsInv, TagsTypeOK
    <2>5. UNCHANGED <<standing, counts, purge, tagTimes, drifted, swept>>
      BY <1>2 DEF CommitTag
    <2> QED
      BY <2>1, <2>3, <2>4, <2>5 DEF TagsInv, TagsTypeOK
  <1>3. ASSUME NEW u \in Taggers,
               \/ \E to \in {"counts", "young", "suspended", "leaving"} : ChangeStanding(u, to)
               \/ EraseTagger(u) \/ WeightDrifts(u)
        PROVE  TagsTypeOK'
    <2>1. recount' \in [at : {"idle", "took", "counted"}, counts : TagCounts \cup {<<>>},
                        missed : BOOLEAN, aged : BOOLEAN]
      BY <1>3 DEF ChangeStanding, EraseTagger, WeightDrifts, TagsInv, TagsTypeOK
    <2>2. tagTimes' \in 0..MaxTagTimes
      BY <1>3, StandingChanges, TagTimesBounded DEF TagsInv
    <2> QED
      BY <1>3, <2>1, <2>2, StandingChanges DEF TagsInv, TagsTypeOK
  <1>4. CASE Recount
    <2>1. Recounted = Tally(tagged, standing)
      BY DEF Recounted, Tally, By
    <2>2. Recounted \in TagCounts
      BY <2>1, TallyIsACount
    <2> QED
      BY <1>4, <2>2 DEF Recount, NoRecount, TagsInv, TagsTypeOK
  <1>5. CASE \/ QueueDue \/ EnqueueAll \/ TakeDue \/ CommitRecount \/ RecountLost
    <2>1. tagTimes' \in 0..MaxTagTimes
      BY <1>5, TagTimesBounded
      DEF QueueDue, EnqueueAll, TakeDue, CommitRecount, RecountLost, TagsInv
    <2>2. /\ counts' \in TagCounts /\ queue' \in {"absent", "settling", "due"}
          /\ drifted' \in BOOLEAN /\ unqueued' \in BOOLEAN
      BY <1>5 DEF QueueDue, EnqueueAll, TakeDue, CommitRecount, RecountLost, Recounting,
                  TagsInv, TagsTypeOK
    <2>3. recount \in Recounts
      BY DEF Recounts, TagsInv, TagsTypeOK
    <2>4. recount' \in Recounts
      BY <1>5, <2>3, NoRecountIsOne
      DEF QueueDue, EnqueueAll, TakeDue, CommitRecount, RecountLost
    <2> QED
      BY <1>5, <2>1, <2>2, <2>4
      DEF QueueDue, EnqueueAll, TakeDue, CommitRecount, RecountLost, Recounts, TagsInv, TagsTypeOK
  <1>6. CASE PurgeLooks \/ PurgeDeletes
    <2>1. \A t \in TagNames : counts'[t] \in [taggers : Nat, weight : Nat]
      BY <1>6 DEF PurgeLooks, PurgeDeletes, Uncounted, TagCounts, TagsInv, TagsTypeOK
    <2>2. counts' \in TagCounts
      BY <1>6, <2>1 DEF PurgeLooks, PurgeDeletes, TagCounts, TagsInv, TagsTypeOK
    <2>3. tagTimes' \in 0..MaxTagTimes
      BY <1>6, TagTimesBounded DEF PurgeLooks, PurgeDeletes, TagsInv
    <2>4. purge' \in [on : BOOLEAN, tags : SUBSET TagNames]
      <3> DEFINE unused == {t \in names : t \notin OnEntity /\ counts[t].taggers = 0}
      <3>1. unused \in SUBSET TagNames
        BY DEF TagsInv, TagsTypeOK
      <3>2. PurgeLooks => purge' = [on |-> TRUE, tags |-> unused]
        BY DEF PurgeLooks
      <3>3. PurgeDeletes => purge' = [on |-> FALSE, tags |-> {}]
        BY DEF PurgeDeletes, NoPurge
      <3> HIDE DEF unused
      <3>4. \A on \in BOOLEAN, tags \in SUBSET TagNames :
              [on |-> on, tags |-> tags] \in [on : BOOLEAN, tags : SUBSET TagNames]
        OBVIOUS
      <3>5. PurgeLooks => purge' \in [on : BOOLEAN, tags : SUBSET TagNames]
        BY <3>1, <3>2, <3>4
      <3>6. PurgeDeletes => purge' \in [on : BOOLEAN, tags : SUBSET TagNames]
        BY <3>3, <3>4
      <3> QED
        BY <1>6, <3>5, <3>6
    <2>5. /\ tagged' \subseteq Taggers \X TagNames /\ names' \subseteq TagNames
          /\ swept' \subseteq Taggers \X TagNames
      BY <1>6 DEF PurgeLooks, PurgeDeletes, TagsInv, TagsTypeOK
    <2> QED
      BY <1>6, <2>2, <2>3, <2>4, <2>5 DEF PurgeLooks, PurgeDeletes, TagsInv, TagsTypeOK
  <1> QED
    BY <1>1, <1>2, <1>3, <1>4, <1>5, <1>6 DEF TagsNext

LEMMA TagsStart ==
  ASSUME TagsInit
  PROVE  TagsInv
  <1>1. /\ \A t \in TagNames : By({}, t) = {}
        /\ Worn({}) = {} /\ \A u : Wears({}, u) = {}
    BY DEF By, Worn, Wears
  <1>2. Tally({}, standing) = Uncounted
    <2>1. \A t \in TagNames : {u \in By({}, t) : standing[u] = "counts"} = {}
      BY <1>1
    <2> QED
      BY <1>1, <2>1, FS_EmptySet DEF Tally, Uncounted
  <1>3. Uncounted \in TagCounts
    BY DEF Uncounted, TagCounts
  <1>4. TagsTypeOK
    <2>1. standing \in [Taggers -> {"counts", "young", "suspended", "leaving", "gone"}]
      BY DEF TagsInit
    <2>2. tagTx \in [TagRequests -> TagTxs]
      BY NoTxIsIdle DEF TagsInit
    <2>3. purge \in [on : BOOLEAN, tags : SUBSET TagNames]
      BY DEF TagsInit, NoPurge
    <2>4. recount \in Recounts
      BY NoRecountIsOne DEF TagsInit
    <2>5. recount \in [at : {"idle", "took", "counted"}, counts : TagCounts \cup {<<>>},
                       missed : BOOLEAN, aged : BOOLEAN]
      BY <2>4 DEF Recounts
    <2>6. tagTimes \in 0..MaxTagTimes
      BY TagsAssumption DEF TagsInit
    <2> QED
      BY <1>3, <2>1, <2>2, <2>3, <2>5, <2>6 DEF TagsInit, TagsTypeOK
  <1>5. Capped
    BY <1>1, FS_EmptySet, NoTxIsIdle, TagsAssumption DEF TagsInit, Capped, WithinCapsOf, Fits, Adds
  <1>6. Enqueued /\ Recounting /\ FollowingTag
    BY <1>2, NoTxIsIdle DEF TagsInit, Enqueued, Recounting, FollowingTag, NoRecount
  <1> QED
    BY <1>4, <1>5, <1>6 DEF TagsInv

LEMMA TagsStep ==
  ASSUME TagsInv, [TagsNext]_tagVars
  PROVE  TagsInv'
  <1>1. CASE UNCHANGED tagVars
    BY <1>1 DEF tagVars, TagsInv, TagsTypeOK, Capped, Enqueued, Recounting, FollowingTag
  <1>2. CASE TagsNext
    BY <1>2, CapsKept, EnqueuedKept, RecountKept, TagTypesKept DEF TagsInv
  <1> QED
    BY <1>1, <1>2

(* A tag shows when as many accounts that count put it there as it takes.  *)
LEMMA ShownByListeners ==
  ASSUME counts = Tally(tagged, standing), NEW t \in TagNames
  PROVE  Shown(t) <=> Cardinality({u \in Taggers : t \in TagsOf(u) /\ standing[u] = "counts"})
                      >= MIN_LISTENERS
  <1>1. {u \in Taggers : t \in TagsOf(u) /\ standing[u] = "counts"}
          = {u \in By(tagged, t) : standing[u] = "counts"}
    BY DEF TagsOf, By
  <1>2. /\ counts[t].taggers \in Nat /\ counts[t].weight \in Nat
        /\ counts[t].weight <= counts[t].taggers
    <2>1. counts \in TagCounts /\ counts[t].weight <= counts[t].taggers
      BY TallyIsACount
    <2> QED
      BY <2>1 DEF TagCounts
  <1>3. counts[t].weight = Cardinality({u \in By(tagged, t) : standing[u] = "counts"})
    BY DEF Tally
  <1>4. Shown(t) <=> counts[t].weight >= MIN_LISTENERS
    BY <1>2, TagsAssumption DEF Shown
  <1> QED
    BY <1>1, <1>3, <1>4

(* Whatever requests, changes of accounts, recounts and purges run at      *)
(* once, no cap of tags is passed, and with nothing queued the counts that *)
(* everyone sees are what the tags weigh, but for what time alone changed  *)
(* and what relied on a queue row the recount had taken (tags.rs, add,     *)
(* enqueue and recount_due).                                               *)
THEOREM TagsDoHold == TagsSpec => []TagsHold
  <1>1. TagsInit => TagsInv
    BY TagsStart
  <1>2. TagsInv /\ [TagsNext]_tagVars => TagsInv'
    BY TagsStep
  <1>3. TagsInv => TagsHold
    <2> SUFFICES ASSUME TagsInv
                 PROVE  TagsHold
      OBVIOUS
    <2>1. /\ OnEntity = Worn(tagged) /\ \A u : TagsOf(u) = Wears(tagged, u)
          /\ Recounted = Tally(tagged, standing)
      BY DEF OnEntity, Worn, TagsOf, Wears, Recounted, Tally, By
    <2>2. TagCapsHold
      BY <2>1 DEF TagsInv, Capped, WithinCapsOf, TagCapsHold
    <2>3. CountsFollowTags
      BY <2>1, ShownByListeners DEF TagsInv, FollowingTag, CountsFollowTags
    <2> QED
      BY <2>2, <2>3 DEF TagsInv, TagsHold
  <1> QED
    BY <1>1, <1>2, <1>3, PTL DEF TagsSpec

-------------------------------------------------------------------------------

(****** Bios. ******)

(***************************************************************************)
(* A bio shows no hidden revision: hide marks the rows and restores what   *)
(* the bio shows in one transaction, but it chose what to restore before   *)
(* it had the row's lock.  What it chose is still to be seen when it has.  *)
(***************************************************************************)

\* The command hides revisions of its bio, and restores one that stays visible.
RestoresGood ==
  /\ command.at \in {"hides", "restores"} => command.rows \subseteq Of(command.bio)
  /\ command.at = "restores" /\ command.to # 0 =>
       /\ command.to \in Of(command.bio) /\ Visible(command.to)
       /\ command.to \notin command.rows
  /\ command.at = "undoes" => IsFiniteSet(command.heads)

RowsOK ==
  /\ revisions \in Seq(RevisionRows)
  /\ \A r \in RevisionIds : revisions[r].parent < r

ShownOK ==
  /\ shown \in [Entities -> Nat]
  /\ \A b \in Entities : shown[b] # 0 => shown[b] \in Of(b) /\ ~revisions[shown[b]].hidden

RequestsOK ==
  /\ locked \subseteq Entities /\ suspended \subseteq Editors
  /\ change \in [Editors -> {NoChange} \cup Asked \cup Opened]
  /\ importing \in {NoChange} \cup Waiting
  /\ command \in {NoChange} \cup Hiding \cup Restoring \cup Undoing
  /\ commands \in 0 .. MaxCommands

BiosInv == RowsOK /\ ShownOK /\ RequestsOK /\ RestoresGood

LEMMA InvHolds == BiosInv => BiosHold
  BY DEF BiosInv, RowsOK, ShownOK, RequestsOK, BiosHold, BiosTypeOK, HiddenIsNotShown

(***************************************************************************)
(* The operators.                                                          *)
(***************************************************************************)
LEMMA LatestIsOne ==
  ASSUME NEW n \in Nat, NEW S \in SUBSET (1 .. n), S # {}
  PROVE  Max(S) \in S
  <1> DEFINE T == {n - r : r \in S}
  <1>1. T \subseteq Nat /\ T # {}
    <2>1. \A r \in S : r \in 1 .. n /\ n - r \in Nat
      OBVIOUS
    <2> QED
      BY <2>1
  <1>2. PICK m \in T : \A k \in T : ~(<<k, m>> \in OpToRel(<, Nat))
    BY <1>1, NatLessThanWellFounded, WFMin, Zenon
  <1>3. m \in Nat /\ \A k \in T : k \in Nat /\ ~(k < m)
    BY <1>1, <1>2 DEF OpToRel
  <1>4. PICK r \in S : m = n - r
    OBVIOUS
  <1>5. \A s \in S : r >= s
    BY <1>3, <1>4
  <1> QED
    BY <1>5 DEF Max

LEMMA LastGoodIsGood ==
  ASSUME RowsOK, NEW b, NEW before, NEW rows, NEW gone, LastGood(b, before, rows, gone) # 0
  PROVE  LET to == LastGood(b, before, rows, gone) IN
           to \in Of(b) /\ Visible(to) /\ to \notin rows
  <1> DEFINE good == {r \in Of(b) : r < before /\ Visible(r) /\ r \notin rows
                                    /\ revisions[r].by \notin gone}
  <1>1. Len(revisions) \in Nat /\ good \in SUBSET (1 .. Len(revisions))
    BY DEF RowsOK, Of, RevisionIds
  <1>2. good # {} /\ LastGood(b, before, rows, gone) = Max(good)
    BY DEF LastGood
  <1>3. Max(good) \in good
    BY <1>1, <1>2, LatestIsOne
  <1> QED
    BY <1>2, <1>3

LEMMA SetAsSeq ==
  ASSUME NEW S, IsFiniteSet(S)
  PROVE  Cardinality(S) \in Nat /\ SetToSeq(S) \in [1 .. Cardinality(S) -> S]
  <1>1. Cardinality(S) \in Nat /\ ExistsBijection(1 .. Cardinality(S), S)
    BY FS_CardinalityType
  <1>2. PICK f : f \in [1 .. Cardinality(S) -> S] /\ IsInjective(f)
    BY <1>1 DEF ExistsBijection, Bijection, Injection, IsInjective
  <1> QED
    BY <1>1, <1>2 DEF SetToSeq

(***************************************************************************)
(* What a new row leaves as it was.                                        *)
(***************************************************************************)
LEMMA RowWritten ==
  ASSUME RowsOK, NEW row \in RevisionRows, row.parent <= Len(revisions),
         revisions' = Append(revisions, row)
  PROVE  /\ RowsOK'
         /\ Len(revisions) \in Nat /\ Len(revisions)' = Len(revisions) + 1
         /\ revisions'[Len(revisions) + 1] = row
         /\ \A r \in RevisionIds : r \in RevisionIds' /\ revisions'[r] = revisions[r]
  <1>1. revisions \in Seq(RevisionRows) /\ \A r \in RevisionIds : revisions[r].parent < r
    BY DEF RowsOK
  <1>2. /\ revisions' \in Seq(RevisionRows)
        /\ Len(revisions) \in Nat /\ Len(revisions)' = Len(revisions) + 1
        /\ revisions'[Len(revisions) + 1] = row
        /\ \A r \in 1 .. Len(revisions) : revisions'[r] = revisions[r]
    BY <1>1
  <1>3. row.parent \in Nat /\ \A r \in RevisionIds' : r \in RevisionIds \/ r = Len(revisions) + 1
    BY <1>2 DEF RevisionIds, RevisionRows
  <1> QED
    BY <1>1, <1>2, <1>3 DEF RowsOK, RevisionIds

LEMMA RevisionIsRow ==
  ASSUME RowsOK, ShownOK, NEW b \in Entities, NEW text \in Texts,
         NEW by \in Editors \cup {"nobody"},
         NEW kind \in {"edit", "revert", "import", "moderation"},
         NEW status \in {"published", "held", "rejected"}, NEW added \in SUBSET Hosts
  PROVE  LET row == Revision(b, text, by, kind, status, added) IN
           /\ row \in RevisionRows /\ row.parent <= Len(revisions)
           /\ row.bio = b /\ ~row.hidden
  <1>1. shown[b] \in Nat /\ (shown[b] # 0 => shown[b] \in 1 .. Len(revisions))
    BY DEF ShownOK, Of, RevisionIds
  <1>2. Len(revisions) \in Nat
    BY DEF RowsOK
  <1> QED
    BY <1>1, <1>2 DEF Revision, RevisionRows

LEMMA ModeratorRow ==
  ASSUME RowsOK, ShownOK, NEW b \in Entities, NEW text \in Texts
  PROVE  LET row == Revision(b, text, "nobody", "moderation", "published", {}) IN
           row \in RevisionRows /\ row.parent <= Len(revisions) /\ row.bio = b /\ ~row.hidden
  <1>1. {} \in SUBSET Hosts /\ "nobody" \in Editors \cup {"nobody"}
    OBVIOUS
  <1>2. /\ "moderation" \in {"edit", "revert", "import", "moderation"}
        /\ "published" \in {"published", "held", "rejected"}
    OBVIOUS
  <1> QED
    BY <1>1, <1>2, RevisionIsRow

(* A row is written, and its bio may show it.                              *)
LEMMA Shows ==
  ASSUME RowsOK, ShownOK, RestoresGood, NEW row \in RevisionRows, row.parent <= Len(revisions),
         ~row.hidden, row.bio \in Entities, revisions' = Append(revisions, row),
         \/ shown' = shown
         \/ shown' = [shown EXCEPT ![row.bio] = Len(revisions) + 1]
  PROVE  RowsOK' /\ ShownOK' /\ (command' = command => RestoresGood')
  <1>1. /\ RowsOK'
        /\ Len(revisions) \in Nat /\ Len(revisions)' = Len(revisions) + 1
        /\ revisions'[Len(revisions) + 1] = row
        /\ \A r \in RevisionIds : r \in RevisionIds' /\ revisions'[r] = revisions[r]
    BY RowWritten
  <1>2. \A b : Of(b) \subseteq Of(b)'
    BY <1>1 DEF Of
  <1>3. Len(revisions) + 1 \in Of(row.bio)'
    BY <1>1 DEF Of, RevisionIds
  <1>4. ShownOK'
    <2>1. shown' \in [Entities -> Nat]
      BY <1>1 DEF ShownOK
    <2>2. ASSUME NEW b \in Entities, shown'[b] # 0
          PROVE  shown'[b] \in Of(b)' /\ ~revisions'[shown'[b]].hidden
      <3>1. CASE shown'[b] = shown[b]
        <4>1. shown[b] \in Of(b) /\ ~revisions[shown[b]].hidden
          BY <2>2, <3>1 DEF ShownOK
        <4>2. shown[b] \in RevisionIds
          BY <4>1 DEF Of
        <4>3. shown'[b] \in Of(b)' /\ revisions'[shown'[b]] = revisions[shown[b]]
          BY <1>1, <1>2, <3>1, <4>1, <4>2
        <4> QED
          BY <4>1, <4>3
      <3>2. CASE b = row.bio /\ shown'[b] = Len(revisions) + 1
        BY <1>1, <1>3, <3>2 DEF Of
      <3>3. shown'[b] = shown[b] \/ (b = row.bio /\ shown'[b] = Len(revisions) + 1)
        BY DEF ShownOK
      <3> QED
        BY <3>1, <3>2, <3>3
    <2> QED
      BY <2>1, <2>2 DEF ShownOK
  <1>5. command' = command => RestoresGood'
    BY <1>1, <1>2 DEF RestoresGood, Visible, Of
  <1> QED
    BY <1>1, <1>4, <1>5

(* The rows are changed where they are.                                    *)
LEMMA InPlace ==
  ASSUME RowsOK, NEW f \in [RevisionIds -> RevisionRows]
  PROVE  f \in Seq(RevisionRows) /\ Len(f) = Len(revisions) /\ Len(revisions) \in Nat
  <1>1. Len(revisions) \in Nat
    BY DEF RowsOK
  <1>2. f \in [1 .. Len(revisions) -> RevisionRows]
    BY DEF RevisionIds
  <1> QED
    BY <1>1, <1>2

LEMMA RowFields ==
  ASSUME RowsOK, NEW r \in RevisionIds
  PROVE  /\ revisions[r] \in RevisionRows /\ revisions[r].parent < r
         /\ r \in Nat /\ r # 0 /\ r <= Len(revisions)
         /\ revisions[r].text \in Texts /\ TextOf(r) = revisions[r].text
  <1>1. revisions[r] \in RevisionRows /\ revisions[r].parent < r
    BY DEF RowsOK, RevisionIds
  <1>2. r \in Nat /\ r # 0 /\ r <= Len(revisions)
    BY DEF RowsOK, RevisionIds
  <1> QED
    BY <1>1, <1>2 DEF RevisionRows, TextOf

LEMMA MarkedRows ==
  ASSUME RowsOK, NEW rows
  PROVE  /\ Marked(rows) \in [RevisionIds -> RevisionRows]
         /\ \A r \in RevisionIds :
              /\ Marked(rows)[r].bio = revisions[r].bio
              /\ Marked(rows)[r].parent = revisions[r].parent
              /\ Marked(rows)[r].hidden <=> revisions[r].hidden \/ r \in rows
  <1>1. ASSUME NEW r \in RevisionIds
        PROVE  LET row == [revisions[r] EXCEPT !.hidden = @ \/ r \in rows] IN
                 /\ row \in RevisionRows
                 /\ row.bio = revisions[r].bio /\ row.parent = revisions[r].parent
                 /\ row.hidden <=> revisions[r].hidden \/ r \in rows
    <2>1. revisions[r] \in RevisionRows
      BY RowFields
    <2> QED
      BY <2>1 DEF RevisionRows
  <1> QED
    BY <1>1 DEF Marked

(* Neither rows nor what is shown change.                                  *)
LEMMA Still ==
  ASSUME BiosInv, UNCHANGED <<revisions, shown>>, RequestsOK',
         command' = command \/ RestoresGood'
  PROVE  BiosInv'
  <1>1. RowsOK' /\ ShownOK'
    BY DEF BiosInv, RowsOK, ShownOK, Of, RevisionIds
  <1>2. RestoresGood'
    BY DEF BiosInv, RestoresGood, Of, RevisionIds, Visible
  <1> QED
    BY <1>1, <1>2 DEF BiosInv

(***************************************************************************)
(* Edits, reverts and imports.                                             *)
(***************************************************************************)
LEMMA EditsKeepInv ==
  ASSUME BiosInv, NEW e \in Editors,
         AskEdit(e) \/ AskRevert(e) \/ Begin(e) \/ Commit(e) \/ RollBack(e)
  PROVE  BiosInv'
  <1>0. RowsOK /\ ShownOK /\ RequestsOK /\ RestoresGood
    BY DEF BiosInv
  <1>1. ASSUME NEW b \in Entities, NEW text \in Texts, NEW target \in Nat, Ask(e, b, text, target)
        PROVE  BiosInv'
    <2>1. [at |-> "asked", bio |-> b, base |-> shown[b], text |-> text, target |-> target] \in Asked
      BY <1>0 DEF Asked, ShownOK
    <2>2. RequestsOK'
      BY <1>0, <1>1, <2>1 DEF Ask, RequestsOK
    <2> QED
      BY <1>1, <2>2, Still DEF Ask
  <1>2. CASE AskEdit(e)
    BY <1>1, <1>2 DEF AskEdit
  <1>3. CASE AskRevert(e)
    <2>1. PICK b \in Entities : \E target \in Of(b) : Ask(e, b, TextOf(target), target)
      BY <1>3 DEF AskRevert
    <2>2. PICK target \in Of(b) : Ask(e, b, TextOf(target), target)
      BY <2>1
    <2>3. TextOf(target) \in Texts /\ target \in Nat
      BY <1>0, RowFields DEF Of
    <2> QED
      BY <1>1, <2>2, <2>3
  <1>4. CASE Begin(e)
    <2>1. change[e] \in Asked
      BY <1>0, <1>4 DEF Begin, RequestsOK, NoChange, Opened
    <2>2. change'[e] \in {NoChange} \cup Opened /\ \A d \in Editors \ {e} : change'[d] = change[d]
      BY <1>0, <1>4, <2>1 DEF Begin, RequestsOK, Asked, Opened
    <2>3. RequestsOK'
      BY <1>0, <1>4, <2>2 DEF Begin, RequestsOK
    <2> QED
      BY <1>4, <2>3, Still DEF Begin
  <1>5. CASE RollBack(e)
    <2>1. RequestsOK'
      BY <1>0, <1>5 DEF RollBack, RequestsOK
    <2> QED
      BY <1>5, <2>1, Still DEF RollBack
  <1>6. CASE Commit(e)
    <2> DEFINE c == change[e]
               row == Revision(c.bio, c.text, e, c.kind, c.status, Added(c.bio, c.text))
    <2>1. c \in Opened
      BY <1>0, <1>6 DEF Commit, RequestsOK, NoChange, Asked
    <2>2. c.bio \in Entities /\ c.text \in Texts /\ Added(c.bio, c.text) \in SUBSET Hosts
      BY <2>1 DEF Opened, Added, Hosts
    <2>3. row \in RevisionRows /\ row.parent <= Len(revisions) /\ row.bio = c.bio /\ ~row.hidden
      BY <1>0, <2>1, <2>2, RevisionIsRow DEF Opened
    <2>4. RowsOK' /\ ShownOK' /\ RestoresGood'
      BY <1>0, <1>6, <2>2, <2>3, Shows DEF Commit
    <2>5. RequestsOK'
      BY <1>0, <1>6 DEF Commit, RequestsOK
    <2> QED
      BY <2>4, <2>5 DEF BiosInv
  <1> QED
    BY <1>2, <1>3, <1>4, <1>5, <1>6

LEMMA ImportKeepsInv ==
  ASSUME BiosInv, NEW b \in Entities, NEW text \in ImportedTexts, NEW force, NEW edited, NEW body,
         ImportOver(b, text, force, edited, body), importing' \in {NoChange} \cup Waiting
  PROVE  BiosInv'
  <1>0. RowsOK /\ ShownOK /\ RequestsOK /\ RestoresGood /\ text \in Texts
    BY BiosAssumption DEF BiosInv
  <1>1. RequestsOK'
    BY <1>0 DEF ImportOver, RequestsOK
  <1>2. CASE UNCHANGED <<revisions, shown>>
    BY <1>1, <1>2, Still DEF ImportOver
  <1>3. CASE /\ revisions' = Append(revisions,
                                    Revision(b, text, "nobody", "import", "published", {}))
             /\ shown' = [shown EXCEPT ![b] = Len(revisions) + 1]
    <2> DEFINE row == Revision(b, text, "nobody", "import", "published", {})
    <2>1. row \in RevisionRows /\ row.parent <= Len(revisions) /\ row.bio = b /\ ~row.hidden
      BY <1>0, RevisionIsRow
    <2>2. RowsOK' /\ ShownOK' /\ RestoresGood'
      BY <1>0, <1>3, <2>1, Shows DEF ImportOver
    <2> QED
      BY <1>1, <2>2 DEF BiosInv
  <1> QED
    BY <1>2, <1>3 DEF ImportOver

LEMMA ImportsKeepInv ==
  ASSUME BiosInv, Import \/ ImportWaited
  PROVE  BiosInv'
  <1>0. RowsOK /\ ShownOK /\ RequestsOK /\ RestoresGood
    BY DEF BiosInv
  <1>1. CASE Import
    <2>1. PICK b \in Entities, text \in ImportedTexts, force \in Forced :
            IF RowFree(b)
            THEN ImportOver(b, text, force, Edited(b), TextOf(shown[b])) /\ UNCHANGED importing
            ELSE /\ importing' = [at |-> "waits", bio |-> b, text |-> text, force |-> force,
                                  head |-> shown[b], edited |-> Edited(b)]
                 /\ UNCHANGED <<revisions, shown, locked, suspended, change, command, commands>>
      BY <1>1 DEF Import
    <2>2. CASE RowFree(b)
      BY <1>0, <2>1, <2>2, ImportKeepsInv DEF RequestsOK
    <2>3. CASE ~RowFree(b)
      <3>1. importing' \in Waiting
        <4>1. Edited(b) \in BOOLEAN
          BY DEF Edited
        <4>2. shown[b] \in Nat /\ force \in BOOLEAN
          BY <1>0, BiosAssumption DEF ShownOK
        <4> QED
          BY <2>1, <2>3, <4>1, <4>2 DEF Waiting
      <3>2. RequestsOK'
        BY <1>0, <2>1, <2>3, <3>1 DEF RequestsOK
      <3> QED
        BY <2>1, <2>3, <3>2, Still
    <2> QED
      BY <2>2, <2>3
  <1>2. CASE ImportWaited
    <2>1. importing \in Waiting
      <3>1. importing.at = "waits"
        BY <1>2 DEF ImportWaited
      <3> QED
        BY <1>0, <3>1 DEF RequestsOK, NoChange
    <2>2. importing.bio \in Entities /\ importing.text \in ImportedTexts
      BY <2>1 DEF Waiting
    <2> QED
      BY <1>2, <2>2, ImportKeepsInv DEF ImportWaited
  <1> QED
    BY <1>1, <1>2

(***************************************************************************)
(* The moderator's commands.                                               *)
(***************************************************************************)
(* Rows change where they are, and neither their bio nor, while shown, that *)
(* they are visible.                                                        *)
LEMMA Decided ==
  ASSUME RowsOK, ShownOK, NEW f \in [RevisionIds -> RevisionRows], revisions' = f,
         \A r \in RevisionIds : f[r].bio = revisions[r].bio /\ f[r].parent = revisions[r].parent
  PROVE  /\ RowsOK' /\ RevisionIds' = RevisionIds /\ \A b : Of(b)' = Of(b)
         /\ Len(revisions)' = Len(revisions) /\ Len(revisions) \in Nat
  <1>1. f \in Seq(RevisionRows) /\ Len(f) = Len(revisions) /\ Len(revisions) \in Nat
    BY InPlace
  <1>2. RevisionIds' = RevisionIds
    BY <1>1 DEF RevisionIds
  <1>3. RowsOK'
    BY <1>1, <1>2, RowFields DEF RowsOK
  <1> QED
    BY <1>1, <1>2, <1>3 DEF Of

LEMMA GiveCounts ==
  ASSUME RequestsOK, Give
  PROVE  commands' \in 0 .. MaxCommands /\ command.at = "none"
  BY BiosAssumption DEF RequestsOK, Give

LEMMA HideKeepsInv ==
  ASSUME BiosInv, NEW r \in RevisionIds, Hide(r)
  PROVE  BiosInv'
  <1>0. RowsOK /\ ShownOK /\ RequestsOK /\ RestoresGood
    BY DEF BiosInv
  <1> DEFINE rows == {s \in Of(revisions[r].bio) : revisions[s].text = revisions[r].text}
             next == [at |-> "hides", bio |-> revisions[r].bio, rows |-> rows]
  <1>1. rows \in SUBSET Nat /\ revisions[r].bio \in Entities
    BY <1>0, RowFields DEF Of, RevisionRows
  <1>2. next \in Hiding
    BY <1>1 DEF Hiding
  <1>3. command' = next /\ UNCHANGED <<revisions, shown>>
    BY DEF Hide
  <1>4. RequestsOK'
    <2>1. commands' \in 0 .. MaxCommands
      BY <1>0, GiveCounts DEF Hide
    <2> QED
      BY <1>0, <1>2, <1>3, <2>1 DEF RequestsOK, Hide
  <1>5. RestoresGood'
    <2>1. Of(revisions[r].bio)' = Of(revisions[r].bio)
      BY <1>3 DEF Of, RevisionIds
    <2> QED
      BY <1>3, <2>1 DEF RestoresGood, Of, RevisionIds
  <1> QED
    BY <1>3, <1>4, <1>5, Still

LEMMA HideLookKeepsInv ==
  ASSUME BiosInv, HideLook
  PROVE  BiosInv'
  <1>0. RowsOK /\ ShownOK /\ RequestsOK /\ RestoresGood
    BY DEF BiosInv
  <1> DEFINE b == command.bio
             head == shown[b]
             to == LastGood(b, head, command.rows, suspended)
             next == [at |-> "restores", bio |-> b, rows |-> command.rows, to |-> to]
  <1>1. command.at = "hides" /\ shown' = shown
    BY DEF HideLook
  <1>2. command \in Hiding
    BY <1>0, <1>1 DEF RequestsOK, NoChange, Restoring, Undoing
  <1>3. b \in Entities /\ command.rows \in SUBSET Nat /\ command.rows \subseteq Of(b)
    BY <1>0, <1>1, <1>2 DEF Hiding, RestoresGood
  <1>4. CASE head # 0 /\ (head \in command.rows \/ revisions[head].hidden)
    <2>1. /\ command' = next
          /\ UNCHANGED <<revisions, shown, locked, suspended, change, importing, commands>>
      BY <1>4 DEF HideLook
    <2>2. to # 0 => to \in Of(b) /\ Visible(to) /\ to \notin command.rows
      BY <1>0, LastGoodIsGood
    <2>3. to \in Nat
      BY <1>0, <2>2, RowFields DEF Of
    <2>4. next \in Restoring
      BY <1>3, <2>3 DEF Restoring
    <2>5. RequestsOK'
      BY <1>0, <2>1, <2>4 DEF RequestsOK
    <2>6. /\ command'.at = "restores" /\ command'.bio = b /\ command'.rows = command.rows
          /\ command'.to = to
      BY <2>1
    <2>7. RestoresGood'
      BY <1>3, <2>1, <2>2, <2>6 DEF RestoresGood, Of, RevisionIds, Visible
    <2> QED
      BY <2>1, <2>5, <2>7, Still
  <1>5. CASE ~(head # 0 /\ (head \in command.rows \/ revisions[head].hidden))
    <2>1. /\ revisions' = Marked(command.rows) /\ command' = NoChange
          /\ UNCHANGED <<locked, suspended, change, importing, commands>>
      BY <1>5 DEF HideLook
    <2>2. /\ Marked(command.rows) \in [RevisionIds -> RevisionRows]
          /\ \A r \in RevisionIds :
               /\ Marked(command.rows)[r].bio = revisions[r].bio
               /\ Marked(command.rows)[r].parent = revisions[r].parent
               /\ Marked(command.rows)[r].hidden <=> revisions[r].hidden \/ r \in command.rows
      BY <1>0, MarkedRows
    <2>3. RowsOK' /\ \A c : Of(c)' = Of(c)
      BY <1>0, <2>1, <2>2, Decided
    <2>4. ASSUME NEW c \in Entities, shown[c] # 0
          PROVE  ~revisions'[shown[c]].hidden
      <3>1. shown[c] \in Of(c) /\ ~revisions[shown[c]].hidden
        BY <1>0, <2>4 DEF ShownOK
      <3>2. shown[c] \notin command.rows
        BY <1>3, <1>5, <3>1, <2>4 DEF Of
      <3> QED
        BY <2>1, <2>2, <3>1, <3>2 DEF Of
    <2>5. ShownOK'
      BY <1>0, <1>1, <2>3, <2>4 DEF ShownOK
    <2>6. RequestsOK' /\ RestoresGood'
      BY <1>0, <2>1 DEF RequestsOK, RestoresGood, NoChange
    <2> QED
      BY <2>3, <2>5, <2>6 DEF BiosInv
  <1> QED
    BY <1>4, <1>5

LEMMA HideRestoreKeepsInv ==
  ASSUME BiosInv, HideRestore
  PROVE  BiosInv'
  <1>0. RowsOK /\ ShownOK /\ RequestsOK /\ RestoresGood
    BY DEF BiosInv
  <1> DEFINE b == command.bio
             to == command.to
             f == Marked(command.rows)
             row == Revision(b, TextOf(to), "nobody", "moderation", "published", {})
  <1>1. command.at = "restores"
    BY DEF HideRestore
  <1>2. command \in Restoring
    BY <1>0, <1>1 DEF RequestsOK, NoChange, Hiding, Undoing
  <1>3. /\ b \in Entities /\ command.rows \subseteq Of(b)
        /\ to # 0 => to \in Of(b) /\ Visible(to) /\ to \notin command.rows
    BY <1>0, <1>1, <1>2 DEF Restoring, RestoresGood
  <1>4. /\ f \in [RevisionIds -> RevisionRows]
        /\ \A r \in RevisionIds :
             /\ f[r].bio = revisions[r].bio /\ f[r].parent = revisions[r].parent
             /\ f[r].hidden <=> revisions[r].hidden \/ r \in command.rows
    BY <1>0, MarkedRows
  <1>5. f \in Seq(RevisionRows) /\ Len(f) = Len(revisions) /\ Len(revisions) \in Nat
    BY <1>0, <1>4, InPlace
  <1>6. /\ command' = NoChange
        /\ UNCHANGED <<locked, suspended, change, importing, commands>>
        /\ revisions' = IF to # 0 THEN Append(f, row) ELSE f
        /\ shown' = [shown EXCEPT ![b] = IF to = 0 THEN 0 ELSE Len(revisions) + 1]
    BY <1>3 DEF HideRestore
  <1>7. RequestsOK' /\ RestoresGood'
    BY <1>0, <1>6 DEF RequestsOK, RestoresGood, NoChange
  <1>8. ASSUME NEW c \in Entities, c # b, shown[c] # 0
        PROVE  shown[c] \in Of(c) /\ ~f[shown[c]].hidden
    <2>1. shown[c] \in Of(c) /\ ~revisions[shown[c]].hidden
      BY <1>0, <1>8 DEF ShownOK
    <2>2. shown[c] \notin command.rows
      BY <1>3, <1>8, <2>1 DEF Of
    <2> QED
      BY <1>4, <2>1, <2>2 DEF Of
  <1>9. CASE to = 0
    <2>1. RowsOK' /\ \A c : Of(c)' = Of(c)
      BY <1>0, <1>4, <1>6, <1>9, Decided
    <2>2. ASSUME NEW c \in Entities, shown'[c] # 0
          PROVE  shown'[c] \in Of(c)' /\ ~revisions'[shown'[c]].hidden
      <3>1. c # b /\ shown'[c] = shown[c]
        BY <1>0, <1>3, <1>6, <1>9, <2>2 DEF ShownOK
      <3> QED
        BY <1>6, <1>8, <1>9, <2>1, <2>2, <3>1
    <2>3. shown' \in [Entities -> Nat]
      BY <1>0, <1>6, <1>9 DEF ShownOK
    <2>4. ShownOK'
      BY <2>2, <2>3 DEF ShownOK
    <2> QED
      BY <1>7, <2>1, <2>4 DEF BiosInv
  <1>10. CASE to # 0
    <2>1. TextOf(to) \in Texts
      BY <1>0, <1>3, <1>10, RowFields DEF Of
    <2>2. row \in RevisionRows /\ row.parent <= Len(revisions) /\ row.bio = b /\ ~row.hidden
      BY <1>0, <1>3, <2>1, ModeratorRow
    <2>3. /\ revisions' \in Seq(RevisionRows) /\ Len(revisions') = Len(revisions) + 1
          /\ revisions'[Len(revisions) + 1] = row
          /\ \A r \in RevisionIds : revisions'[r] = f[r]
      BY <1>5, <1>6, <1>10, <2>2 DEF RevisionIds
    <2>4. /\ \A r \in RevisionIds : r \in RevisionIds'
          /\ \A r \in RevisionIds' : r \in RevisionIds \/ r = Len(revisions) + 1
          /\ Len(revisions) + 1 \in RevisionIds'
      BY <1>5, <2>3 DEF RevisionIds
    <2>5. RowsOK'
      <3>1. ASSUME NEW r \in RevisionIds'
            PROVE  revisions'[r].parent < r
        <4>1. CASE r \in RevisionIds
          BY <1>0, <1>4, <2>3, <4>1, RowFields
        <4>2. CASE r = Len(revisions) + 1
          BY <1>5, <2>2, <2>3, <4>2 DEF RevisionRows
        <4> QED
          BY <2>4, <4>1, <4>2
      <3> QED
        BY <2>3, <3>1 DEF RowsOK
    <2>6. ASSUME NEW c \in Entities, shown'[c] # 0
          PROVE  shown'[c] \in Of(c)' /\ ~revisions'[shown'[c]].hidden
      <3>1. CASE c = b
        <4>1. shown'[c] = Len(revisions) + 1
          BY <1>0, <1>6, <1>10, <3>1 DEF ShownOK
        <4> QED
          BY <2>2, <2>3, <2>4, <3>1, <4>1 DEF Of
      <3>2. CASE c # b
        <4>1. shown'[c] = shown[c]
          BY <1>0, <1>6, <3>2 DEF ShownOK
        <4>2. shown[c] \in Of(c) /\ ~f[shown[c]].hidden
          BY <1>8, <2>6, <3>2, <4>1
        <4>3. shown[c] \in RevisionIds /\ revisions[shown[c]].bio = c
          BY <4>2 DEF Of
        <4> QED
          BY <1>4, <2>3, <2>4, <4>1, <4>2, <4>3 DEF Of
      <3> QED
        BY <3>1, <3>2
    <2>7. shown' \in [Entities -> Nat]
      <3>1. shown' = [shown EXCEPT ![b] = Len(revisions) + 1]
        BY <1>6, <1>10
      <3>2. Len(revisions) + 1 \in Nat /\ shown \in [Entities -> Nat]
        BY <1>0, <1>5 DEF ShownOK
      <3> QED
        BY <3>1, <3>2
    <2>8. ShownOK'
      BY <2>6, <2>7 DEF ShownOK
    <2> QED
      BY <1>7, <2>5, <2>8 DEF BiosInv
  <1> QED
    BY <1>9, <1>10

(* One row changes in place.                                               *)
LEMMA RowDecided ==
  ASSUME RowsOK, ShownOK, NEW r \in RevisionIds, NEW row \in RevisionRows,
         row.bio = revisions[r].bio, row.parent = revisions[r].parent,
         ~row.hidden \/ row.hidden = revisions[r].hidden,
         revisions' = [revisions EXCEPT ![r] = row],
         \/ shown' = shown
         \/ shown' = [shown EXCEPT ![row.bio] = r] /\ ~row.hidden
  PROVE  RowsOK' /\ ShownOK'
  <1>1. /\ revisions' \in [RevisionIds -> RevisionRows]
        /\ \A s \in RevisionIds : revisions'[s] = IF s = r THEN row ELSE revisions[s]
    <2>1. revisions \in [RevisionIds -> RevisionRows]
      BY DEF RowsOK, RevisionIds
    <2> QED
      BY <2>1
  <1>2. RowsOK' /\ \A c : Of(c)' = Of(c)
    BY <1>1, Decided
  <1>3. row.bio \in Entities /\ r \in Nat /\ r \in Of(row.bio)
    BY RowFields DEF RevisionRows, Of
  <1>4. shown' \in [Entities -> Nat]
    BY <1>3 DEF ShownOK
  <1>5. ASSUME NEW c \in Entities, shown'[c] # 0
        PROVE  shown'[c] \in Of(c) /\ ~revisions'[shown'[c]].hidden
    <2>1. shown'[c] = shown[c] \/ (c = row.bio /\ shown'[c] = r /\ ~row.hidden)
      BY <1>3 DEF ShownOK
    <2>2. CASE shown'[c] = shown[c]
      <3>1. shown[c] \in Of(c) /\ ~revisions[shown[c]].hidden
        BY <1>5, <2>2 DEF ShownOK
      <3> QED
        BY <1>1, <2>2, <3>1 DEF Of
    <2>3. CASE c = row.bio /\ shown'[c] = r /\ ~row.hidden
      BY <1>1, <1>3, <2>3
    <2> QED
      BY <2>1, <2>2, <2>3
  <1> QED
    BY <1>2, <1>4, <1>5 DEF ShownOK

LEMMA DecisionsKeepInv ==
  ASSUME BiosInv, NEW r \in RevisionIds,
         Unhide(r) \/ Reject(r) \/ \E force \in BOOLEAN : Approve(r, force)
  PROVE  BiosInv'
  <1>0. RowsOK /\ ShownOK /\ RequestsOK /\ RestoresGood
    BY DEF BiosInv
  <1>1. /\ Give /\ UNCHANGED <<locked, suspended, change, importing, command>>
    BY DEF Unhide, Reject, Approve
  <1>2. RequestsOK' /\ RestoresGood'
    BY <1>0, <1>1, GiveCounts DEF RequestsOK, RestoresGood
  <1>3. revisions[r] \in RevisionRows
    BY <1>0, RowFields
  <1>4. CASE Unhide(r)
    <2> DEFINE row == [revisions[r] EXCEPT !.hidden = FALSE]
    <2>1. /\ row \in RevisionRows /\ row.bio = revisions[r].bio
          /\ row.parent = revisions[r].parent /\ ~row.hidden
      BY <1>3 DEF RevisionRows
    <2>2. revisions' = [revisions EXCEPT ![r] = row] /\ shown' = shown
      BY <1>4 DEF Unhide
    <2> QED
      BY <1>0, <1>2, <2>1, <2>2, RowDecided DEF BiosInv
  <1>5. CASE Reject(r)
    <2> DEFINE row == [revisions[r] EXCEPT !.status = "rejected"]
    <2>1. /\ row \in RevisionRows /\ row.bio = revisions[r].bio
          /\ row.parent = revisions[r].parent /\ row.hidden = revisions[r].hidden
      BY <1>3 DEF RevisionRows
    <2>2. revisions' = [revisions EXCEPT ![r] = row] /\ shown' = shown
      BY <1>5 DEF Reject
    <2> QED
      BY <1>0, <1>2, <2>1, <2>2, RowDecided DEF BiosInv
  <1>6. CASE \E force \in BOOLEAN : Approve(r, force)
    <2> DEFINE row == [revisions[r] EXCEPT !.status = "published"]
    <2>1. /\ row \in RevisionRows /\ row.bio = revisions[r].bio
          /\ row.parent = revisions[r].parent /\ row.hidden = revisions[r].hidden
      BY <1>3 DEF RevisionRows
    <2>2. /\ revisions' = [revisions EXCEPT ![r] = row]
          /\ shown' = [shown EXCEPT ![row.bio] = r] /\ ~row.hidden
      BY <1>6, <2>1 DEF Approve
    <2> QED
      BY <1>0, <1>2, <2>1, <2>2, RowDecided DEF BiosInv
  <1> QED
    BY <1>4, <1>5, <1>6

LEMMA PutBackKeepsInv ==
  ASSUME BiosInv, NEW r \in RevisionIds, PutBack(revisions[r].bio, r)
  PROVE  BiosInv'
  <1>0. RowsOK /\ ShownOK /\ RequestsOK /\ RestoresGood
    BY DEF BiosInv
  <1> DEFINE b == revisions[r].bio
             row == Revision(b, TextOf(r), "nobody", "moderation", "published", {})
  <1>1. b \in Entities /\ TextOf(r) \in Texts
    BY <1>0, RowFields DEF RevisionRows
  <1>2. row \in RevisionRows /\ row.parent <= Len(revisions) /\ row.bio = b /\ ~row.hidden
    BY <1>0, <1>1, ModeratorRow
  <1>3. RowsOK' /\ ShownOK' /\ RestoresGood'
    BY <1>0, <1>1, <1>2, Shows DEF PutBack
  <1>4. RequestsOK'
    BY <1>0, GiveCounts DEF PutBack, RequestsOK
  <1> QED
    BY <1>3, <1>4 DEF BiosInv

LEMMA StandingsKeepInv ==
  ASSUME BiosInv,
         \/ \E b \in Entities : LockOrUnlock(b)
         \/ \E e \in Editors : Unsuspend(e)
  PROVE  BiosInv'
  <1>1. RequestsOK /\ Give
    BY DEF BiosInv, LockOrUnlock, Unsuspend
  <1>2. RequestsOK'
    BY <1>1, GiveCounts DEF RequestsOK, LockOrUnlock, Unsuspend
  <1> QED
    BY <1>2, Still DEF LockOrUnlock, Unsuspend

LEMMA SuspendKeepsInv ==
  ASSUME BiosInv, NEW e \in Editors, Suspend(e)
  PROVE  BiosInv'
  <1>0. RowsOK /\ ShownOK /\ RequestsOK /\ RestoresGood
    BY DEF BiosInv
  <1> DEFINE bios == {c \in Entities :
                        shown[c] # 0 /\ revisions[shown[c]].by \in suspended \cup {e}}
             heads == {<<b, shown[b]>> : b \in bios}
             next == [at |-> "undoes", who |-> e, heads |-> heads]
  <1>1. /\ command' = next /\ Give
        /\ UNCHANGED <<revisions, shown, locked, suspended, change, importing>>
    BY DEF Suspend
  <1>2. IsFiniteSet(heads)
    <2>1. IsFiniteSet(bios)
      BY BiosAssumption, FS_Subset
    <2> DEFINE f == [b \in bios |-> <<b, shown[b]>>]
    <2>2. f \in Surjection(bios, heads)
      BY DEF Surjection
    <2> HIDE DEF f, bios, heads
    <2> QED
      BY <2>1, <2>2, FS_Surjection
  <1>3. heads \in SUBSET (Entities \X Nat)
    BY <1>0 DEF ShownOK
  <1>4. next \in Undoing
    BY <1>3 DEF Undoing
  <1>5. RequestsOK'
    BY <1>0, <1>1, <1>4, GiveCounts DEF RequestsOK
  <1>6. RestoresGood'
    BY <1>1, <1>2 DEF RestoresGood
  <1> QED
    BY <1>1, <1>5, <1>6, Still

(* What is put back for each bio that showed the account's text.           *)
LEMMA RowsPutBack ==
  ASSUME BiosInv, command.at = "undoes", NEW gone
  PROVE  LET to(h) == LastGood(h[1], h[2], {}, gone)
             back == SetToSeq({h \in command.heads : to(h) # 0})
             rows == [n \in DOMAIN back |->
               Revision(back[n][1], TextOf(to(back[n])), "nobody", "moderation", "published", {})]
         IN
           \E k \in Nat :
             /\ DOMAIN back = 1 .. k /\ rows \in [1 .. k -> RevisionRows]
             /\ \A n \in 1 .. k :
                  /\ rows[n].bio = back[n][1] /\ ~rows[n].hidden
                  /\ rows[n].parent <= Len(revisions)
  <1>0. RowsOK /\ ShownOK /\ RequestsOK /\ RestoresGood
    BY DEF BiosInv
  <1> DEFINE to(h) == LastGood(h[1], h[2], {}, gone)
             kept == {h \in command.heads : to(h) # 0}
             back == SetToSeq(kept)
             rows == [n \in DOMAIN back |->
               Revision(back[n][1], TextOf(to(back[n])), "nobody", "moderation", "published", {})]
  <1>1. command \in Undoing
    BY <1>0 DEF RequestsOK, NoChange, Hiding, Restoring
  <1>2. command.heads \in SUBSET (Entities \X Nat) /\ IsFiniteSet(command.heads)
    BY <1>0, <1>1 DEF Undoing, RestoresGood
  <1>3. IsFiniteSet(kept)
    BY <1>2, FS_Subset
  <1> DEFINE k == Cardinality(kept)
  <1>4. k \in Nat /\ back \in [1 .. k -> kept]
    BY <1>3, SetAsSeq
  <1>5. ASSUME NEW n \in 1 .. k
        PROVE  /\ rows[n] \in RevisionRows /\ rows[n].parent <= Len(revisions)
               /\ rows[n].bio = back[n][1] /\ ~rows[n].hidden
    <2>1. back[n] \in kept
      BY <1>4
    <2>2. back[n][1] \in Entities /\ to(back[n]) \in RevisionIds
      BY <1>0, <1>2, <2>1, LastGoodIsGood DEF Of
    <2>3. TextOf(to(back[n])) \in Texts
      BY <1>0, <2>2, RowFields
    <2>4. rows[n] = Revision(back[n][1], TextOf(to(back[n])), "nobody", "moderation",
                             "published", {})
      BY <1>4
    <2> HIDE DEF back, rows, kept
    <2> QED
      BY <1>0, <2>2, <2>3, <2>4, ModeratorRow
  <1>6. DOMAIN back = 1 .. k /\ rows = [n \in 1 .. k |-> rows[n]]
    BY <1>4
  <1> HIDE DEF back, rows, k
  <1>7. rows \in [1 .. k -> RevisionRows]
    BY <1>5, <1>6
  <1> USE DEF back, rows
  <1> QED
    BY <1>4, <1>5, <1>6, <1>7

LEMMA SuspendUndoKeepsInv ==
  ASSUME BiosInv, SuspendUndo
  PROVE  BiosInv'
  <1>0. RowsOK /\ ShownOK /\ RequestsOK /\ RestoresGood
    BY DEF BiosInv
  <1> DEFINE gone == suspended \cup {command.who}
             to(h) == LastGood(h[1], h[2], {}, gone)
             back == SetToSeq({h \in command.heads : to(h) # 0})
             decided == [r \in RevisionIds |->
               IF revisions[r].by = command.who /\ revisions[r].status = "held"
               THEN [revisions[r] EXCEPT !.status = "rejected"] ELSE revisions[r]]
             rows == [n \in DOMAIN back |->
               Revision(back[n][1], TextOf(to(back[n])), "nobody", "moderation", "published", {})]
  <1>1. /\ command.at = "undoes" /\ revisions' = decided \o rows
        /\ suspended' = gone /\ command' = NoChange
        /\ UNCHANGED <<locked, change, importing, commands>>
    BY DEF SuspendUndo
  <1>2. shown' = [b \in Entities |->
                   IF \E n \in DOMAIN back : back[n][1] = b
                   THEN Len(revisions) + CHOOSE n \in DOMAIN back : back[n][1] = b
                   ELSE IF \E h \in command.heads : h[1] = b THEN 0 ELSE shown[b]]
    BY DEF SuspendUndo
  <1>3. RequestsOK' /\ RestoresGood'
    <2>1. command \in Undoing
      BY <1>0, <1>1 DEF RequestsOK, NoChange, Hiding, Restoring
    <2>2. command.who \in Editors
      BY <2>1 DEF Undoing
    <2> QED
      BY <1>0, <1>1, <2>2 DEF RequestsOK, RestoresGood, NoChange
  <1>4. PICK k \in Nat :
          /\ DOMAIN back = 1 .. k /\ rows \in [1 .. k -> RevisionRows]
          /\ \A n \in 1 .. k :
               /\ rows[n].bio = back[n][1] /\ ~rows[n].hidden
               /\ rows[n].parent <= Len(revisions)
    BY <1>1, RowsPutBack
  <1>5. /\ decided \in [RevisionIds -> RevisionRows]
        /\ \A r \in RevisionIds :
             /\ decided[r].bio = revisions[r].bio /\ decided[r].parent = revisions[r].parent
             /\ decided[r].hidden = revisions[r].hidden
    <2>1. ASSUME NEW r \in RevisionIds
          PROVE  /\ decided[r] \in RevisionRows
                 /\ decided[r].bio = revisions[r].bio /\ decided[r].parent = revisions[r].parent
                 /\ decided[r].hidden = revisions[r].hidden
      <3>1. revisions[r] \in RevisionRows
        BY <1>0, RowFields
      <3> QED
        BY <3>1 DEF RevisionRows
    <2> QED
      BY <2>1
  <1>6. decided \in Seq(RevisionRows) /\ Len(decided) = Len(revisions) /\ Len(revisions) \in Nat
    BY <1>0, <1>5, InPlace
  <1> HIDE DEF decided, rows, back
  <1>7. rows \in Seq(RevisionRows) /\ Len(rows) = k
    BY <1>4
  <1>8. /\ revisions' \in Seq(RevisionRows) /\ Len(revisions') = Len(revisions) + k
        /\ \A r \in 1 .. Len(revisions) : revisions'[r] = decided[r]
        /\ \A n \in 1 .. k : revisions'[Len(revisions) + n] = rows[n]
    <2>1. revisions' = decided \o rows
      BY <1>1
    <2>2. /\ decided \o rows \in Seq(RevisionRows)
          /\ Len(decided \o rows) = Len(decided) + Len(rows)
          /\ \A i \in 1 .. Len(decided) + Len(rows) :
               (decided \o rows)[i] = IF i <= Len(decided) THEN decided[i]
                                      ELSE rows[i - Len(decided)]
      BY <1>6, <1>7, ConcatProperties
    <2>3. \A n \in 1 .. k : /\ Len(revisions) + n \in 1 .. Len(decided) + Len(rows)
                            /\ ~(Len(revisions) + n <= Len(decided))
                            /\ (Len(revisions) + n) - Len(decided) = n
      BY <1>4, <1>6, <1>7
    <2>4. \A r \in 1 .. Len(revisions) : /\ r \in 1 .. Len(decided) + Len(rows)
                                        /\ r <= Len(decided)
      BY <1>4, <1>6, <1>7
    <2> QED
      BY <1>6, <1>7, <2>1, <2>2, <2>3, <2>4
  <1>9. /\ \A r \in RevisionIds : r \in RevisionIds' /\ revisions'[r] = decided[r]
        /\ \A n \in 1 .. k : Len(revisions) + n \in RevisionIds'
        /\ \A r \in RevisionIds' : r \in RevisionIds \/ \E n \in 1 .. k : r = Len(revisions) + n
    <2>1. \A r \in 1 .. Len(revisions) + k :
            r \in 1 .. Len(revisions) \/ (r - Len(revisions) \in 1 .. k
                                       /\ r = Len(revisions) + (r - Len(revisions)))
      BY <1>4, <1>6
    <2>2. RevisionIds = 1 .. Len(revisions) /\ RevisionIds' = 1 .. Len(revisions) + k
      BY <1>8 DEF RevisionIds
    <2>3. \A r \in 1 .. Len(revisions) : r \in 1 .. Len(revisions) + k
      BY <1>4, <1>6
    <2>4. \A n \in 1 .. k : Len(revisions) + n \in 1 .. Len(revisions) + k
      BY <1>4, <1>6
    <2> QED
      BY <1>8, <2>1, <2>2, <2>3, <2>4
  <1>10. RowsOK'
    <2>1. ASSUME NEW r \in RevisionIds'
          PROVE  revisions'[r].parent < r
      <3>1. CASE r \in RevisionIds
        BY <1>0, <1>5, <1>9, <3>1, RowFields
      <3>2. ASSUME NEW n \in 1 .. k, r = Len(revisions) + n
            PROVE  revisions'[r].parent < r
        <4>1. rows[n].parent <= Len(revisions) /\ rows[n].parent \in Nat
          BY <1>4 DEF RevisionRows
        <4> QED
          BY <1>6, <1>8, <3>2, <4>1
      <3> QED
        BY <1>9, <3>1, <3>2
    <2> QED
      BY <1>8, <2>1 DEF RowsOK
  <1>11. ASSUME NEW b \in Entities
         PROVE  /\ shown'[b] \in Nat
                /\ shown'[b] # 0 => shown'[b] \in Of(b)' /\ ~revisions'[shown'[b]].hidden
    <2>1. CASE \E n \in DOMAIN back : back[n][1] = b
      <3> DEFINE n == CHOOSE m \in DOMAIN back : back[m][1] = b
      <3>1. n \in 1 .. k /\ back[n][1] = b
        BY <1>4, <2>1
      <3>2. shown'[b] = Len(revisions) + n
        BY <1>2, <2>1
      <3> HIDE DEF n
      <3>3. revisions'[shown'[b]].bio = b /\ ~revisions'[shown'[b]].hidden
        BY <1>4, <1>8, <3>1, <3>2
      <3>4. shown'[b] \in RevisionIds' /\ shown'[b] \in Nat
        <4>1. Len(revisions) + n \in RevisionIds'
          BY <1>9, <3>1
        <4>2. Len(revisions) + n \in Nat
          BY <1>4, <1>6, <3>1
        <4> QED
          BY <3>2, <4>1, <4>2
      <3> QED
        BY <3>3, <3>4 DEF Of
    <2>2. CASE (~ \E n \in DOMAIN back : back[n][1] = b) /\ \E h \in command.heads : h[1] = b
      BY <1>2, <2>2
    <2>3. CASE (~ \E n \in DOMAIN back : back[n][1] = b) /\ ~ \E h \in command.heads : h[1] = b
      <3>1. shown'[b] = shown[b] /\ shown[b] \in Nat
        BY <1>0, <1>2, <2>3 DEF ShownOK
      <3>2. ASSUME shown[b] # 0
            PROVE  shown'[b] \in Of(b)' /\ ~revisions'[shown'[b]].hidden
        <4>1. shown[b] \in Of(b) /\ ~revisions[shown[b]].hidden
          BY <1>0, <3>2 DEF ShownOK
        <4>2. shown[b] \in RevisionIds /\ revisions[shown[b]].bio = b
          BY <4>1 DEF Of
        <4>3. shown[b] \in RevisionIds' /\ revisions'[shown[b]] = decided[shown[b]]
          BY <1>9, <4>2
        <4> QED
          BY <1>5, <3>1, <4>1, <4>2, <4>3 DEF Of
      <3> QED
        BY <3>1, <3>2
    <2> QED
      BY <2>1, <2>2, <2>3
  <1>12. ShownOK'
    <2>1. shown' \in [Entities -> Nat]
      BY <1>2, <1>11
    <2> QED
      BY <1>11, <2>1 DEF ShownOK
  <1> QED
    BY <1>3, <1>10, <1>12 DEF BiosInv

(***************************************************************************)
(* The theorem.                                                            *)
(***************************************************************************)
LEMMA FirstState == BiosInit => BiosInv
  <1> SUFFICES ASSUME BiosInit PROVE BiosInv
    OBVIOUS
  <1>1. RowsOK
    BY DEF BiosInit, RowsOK, RevisionIds
  <1>2. ShownOK
    BY DEF BiosInit, ShownOK
  <1>3. RequestsOK /\ RestoresGood
    BY BiosAssumption DEF BiosInit, RequestsOK, RestoresGood, NoChange
  <1> QED
    BY <1>1, <1>2, <1>3 DEF BiosInv

LEMMA StepsKeepInv == BiosInv /\ [BiosNext]_biosVars => BiosInv'
  <1> SUFFICES ASSUME BiosInv, [BiosNext]_biosVars PROVE BiosInv'
    OBVIOUS
  <1>1. CASE UNCHANGED biosVars
    <2>1. RequestsOK'
      BY <1>1 DEF BiosInv, RequestsOK, biosVars
    <2> QED
      BY <1>1, <2>1, Still DEF biosVars
  <1>2. ASSUME NEW e \in Editors,
               AskEdit(e) \/ AskRevert(e) \/ Begin(e) \/ Commit(e) \/ RollBack(e)
        PROVE  BiosInv'
    BY <1>2, EditsKeepInv
  <1>3. ASSUME NEW e \in Editors, Suspend(e) PROVE BiosInv'
    BY <1>3, SuspendKeepsInv
  <1>4. CASE Import \/ ImportWaited
    BY <1>4, ImportsKeepInv
  <1>5. ASSUME NEW r \in RevisionIds, Hide(r) PROVE BiosInv'
    BY <1>5, HideKeepsInv
  <1>6. ASSUME NEW r \in RevisionIds, PutBack(revisions[r].bio, r) PROVE BiosInv'
    BY <1>6, PutBackKeepsInv
  <1>7. ASSUME NEW r \in RevisionIds,
               Unhide(r) \/ Reject(r) \/ \E force \in BOOLEAN : Approve(r, force)
        PROVE  BiosInv'
    BY <1>7, DecisionsKeepInv
  <1>8. CASE HideLook
    BY <1>8, HideLookKeepsInv
  <1>9. CASE HideRestore
    BY <1>9, HideRestoreKeepsInv
  <1>10. CASE SuspendUndo
    BY <1>10, SuspendUndoKeepsInv
  <1>11. CASE \/ \E b \in Entities : LockOrUnlock(b)
              \/ \E e \in Editors : Unsuspend(e)
    BY <1>11, StandingsKeepInv
  <1> QED
    BY <1>1, <1>2, <1>3, <1>4, <1>5, <1>6, <1>7, <1>8, <1>9, <1>10, <1>11 DEF BiosNext

(* No bio ever shows a revision that is hidden, in any state, for any       *)
(* number of editors, bios and texts: edits, reverts, imports and the       *)
(* moderator's hide, approve, revert and suspend may come in any order      *)
(* (bios.rs, edit, revert and import; moderation.rs, hide, restore, decide  *)
(* and suspend).                                                            *)
THEOREM BiosDoHold == BiosSpec => []BiosHold
  <1>1. BiosInit => BiosInv
    BY FirstState
  <1>2. BiosInv /\ [BiosNext]_biosVars => BiosInv'
    BY StepsKeepInv
  <1>3. BiosInv => BiosHold
    BY InvHolds
  <1> QED
    BY <1>1, <1>2, <1>3, PTL DEF BiosSpec

-------------------------------------------------------------------------------

(****** Images. ******)

(***************************************************************************)
(* ImagesHold is not inductive.  A file is deleted some steps after it was *)
(* found to be of no use: that it still is of no use then depends on a key *)
(* being in one place at a time, and on nothing ever coming back to a key. *)
(* And the erasure takes off the likes it read before.                     *)
(***************************************************************************)

\* A stored upload whose row isn't written yet.
Fresh(r) == upload[r].at \in {"avatar", "candidate"}

\* A key is in one place at a time: with a request, an avatar or a candidate.
OnePlace ==
  /\ \A r \in ImageRequests : Fresh(r) =>
       /\ upload[r].key \in files \ old
       /\ upload[r].key \notin candidates
       /\ \A u \in Uploaders : avatar[u] # upload[r].key
  /\ \A q, r \in ImageRequests : Fresh(q) /\ Fresh(r) /\ upload[q].key = upload[r].key => q = r
  /\ \A u \in Uploaders : avatar[u] \notin candidates
  /\ \A u, v \in Uploaders : avatar[u] \in Keys /\ avatar[u] = avatar[v] => u = v

\* A key no row refers to, nor will.
Spent(k) ==
  /\ k \in used \ candidates
  /\ \A u \in Uploaders : avatar[u] # k
  /\ \A r \in ImageRequests : Fresh(r) => upload[r].key # k

\* What is about to be deleted is spent, or goes when the erasure commits.
Doomed ==
  /\ \A r \in ImageRequests : upload[r].at = "replaced" => Spent(upload[r].key)
  /\ clearing.at = "taken" =>
       \A k \in clearing.keys :
         Spent(k) \/ k \in Owned(clearing.by) \/ avatar[clearing.by] = k
  /\ clearing.at \in {"looks", "deletes"} => \A k \in clearing.keys : Spent(k)
  /\ gc.at = "deletes" => \A k \in gc.keys : Spent(k)

\* The likes the erasure takes off are the account's, but for those it missed.
Taking ==
  clearing.at \in {"reads", "taken"} =>
    /\ clearing.by \in here
    /\ clearing.likes \subseteq candidates \X {clearing.by}
    /\ \A k \in candidates \ miscounted :
         <<k, clearing.by>> \in clearing.likes
           <=> <<k, clearing.by>> \in likes /\ owner[k] # clearing.by

\* Who writes the artist's image read a candidate.
Writing == \A r \in ImageRequests : upload[r].at = "writes" => upload[r].key \in used

\* No other request is going to write a key that was written unheard.
Unhearing ==
  \A q \in ImageRequests : upload[q].at = "unheard" =>
    /\ upload[q].key \in used
    /\ \A r \in ImageRequests : Fresh(r) => upload[r].key # upload[q].key

ImagesInv ==
  /\ ImagesTypeOK /\ CountsAreLikes /\ ReferencedAreStored
  /\ OnePlace /\ Doomed /\ Taking /\ Writing /\ Unhearing
(***************************************************************************)
(* What a request does next.                                               *)
(***************************************************************************)
LEMMA RestIsIdle == Rest \in Uploads /\ Rest.at = "rest"
  BY DEF Rest, Uploads

LEMMA UploadGoes ==
  ASSUME ImagesTypeOK, NEW r \in ImageRequests, NEW at, NEW u, NEW k,
         [at |-> at, by |-> u, key |-> k] \in Uploads, UploadGoesOn(r, at, u, k)
  PROVE  /\ upload' \in [ImageRequests -> Uploads]
         /\ upload'[r].at = at /\ upload'[r].by = u /\ upload'[r].key = k
         /\ \A q \in ImageRequests \ {r} : upload'[q] = upload[q]
  BY DEF ImagesTypeOK, UploadGoesOn

LEMMA UploadEnds ==
  ASSUME ImagesTypeOK, NEW r \in ImageRequests, UploadDone(r)
  PROVE  /\ upload' \in [ImageRequests -> Uploads] /\ upload'[r].at = "rest"
         /\ \A q \in ImageRequests \ {r} : upload'[q] = upload[q]
  BY RestIsIdle DEF ImagesTypeOK, UploadDone

(***************************************************************************)
(* Types.                                                                  *)
(***************************************************************************)
LEMMA UploadTypes ==
  ASSUME ImagesInv, NEW r \in ImageRequests,
         \/ \E u \in Uploaders : \/ Store(r, u, "avatar") \/ Store(r, u, "candidate")
                                 \/ SetLink(r, u) \/ \E k \in Keys : Vote(r, u, k)
         \/ SetAvatar(r) \/ DeleteReplaced(r) \/ DeleteUnwritten(r) \/ Stop(r)
         \/ WriteUnheard(r) \/ DeleteUnheard(r)
         \/ AddCandidate(r) \/ ReadWinner(r) \/ Promote(r)
  PROVE  /\ upload' \in [ImageRequests -> Uploads]
         /\ \A q \in ImageRequests \ {r} : upload'[q] = upload[q]
  <1>0. ImagesTypeOK
    BY DEF ImagesInv
  <1>00. \A q \in ImageRequests : upload[q] \in Uploads
    BY <1>0 DEF ImagesTypeOK
  <1>1. ASSUME NEW u \in Uploaders, NEW kind \in {"avatar", "candidate"}, Store(r, u, kind)
        PROVE  /\ upload' \in [ImageRequests -> Uploads]
               /\ \A q \in ImageRequests \ {r} : upload'[q] = upload[q]
    <2>1. PICK k \in Keys : UploadGoesOn(r, kind, u, k)
      BY <1>1 DEF Store
    <2> QED
      BY <1>0, <2>1, UploadGoes DEF Uploads
  <1>2. ASSUME NEW u \in Uploaders, NEW v, Replace(r, u, v)
        PROVE  /\ upload' \in [ImageRequests -> Uploads]
               /\ \A q \in ImageRequests \ {r} : upload'[q] = upload[q]
    <2>1. CASE avatar[u] \in Keys
      BY <1>0, <1>2, <2>1, UploadGoes DEF Replace, Uploads
    <2>2. CASE avatar[u] \notin Keys
      BY <1>0, <1>2, <2>2, UploadEnds DEF Replace
    <2> QED
      BY <2>1, <2>2
  <1>3. CASE \E u \in Uploaders, k \in Keys : Vote(r, u, k)
    BY <1>0, <1>3, UploadGoes DEF Vote, Uploads
  <1>4. CASE SetAvatar(r)
    <2>1. Replace(r, upload[r].by, upload[r].key) /\ upload[r].by \in here
      BY <1>4 DEF SetAvatar, Replace
    <2> QED
      BY <1>0, <1>2, <2>1 DEF ImagesTypeOK
  <1>5. CASE \E u \in Uploaders : SetLink(r, u)
    BY <1>2, <1>5 DEF SetLink
  <1>6. CASE DeleteReplaced(r) \/ DeleteUnwritten(r) \/ DeleteUnheard(r) \/ Stop(r) \/ Promote(r)
    BY <1>0, <1>6, UploadEnds DEF DeleteReplaced, DeleteUnwritten, DeleteUnheard, Stop, Promote
  <1>7. CASE AddCandidate(r)
    BY <1>0, <1>7, UploadGoes DEF AddCandidate, Uploads
  <1>8. CASE ReadWinner(r)
    <2>1. UploadDone(r) \/ \E k \in candidates : UploadGoesOn(r, "writes", "none", k)
      BY <1>8 DEF ReadWinner
    <2>2. candidates \subseteq Keys
      BY <1>0 DEF ImagesTypeOK
    <2> QED
      BY <1>0, <2>1, <2>2, UploadGoes, UploadEnds DEF Uploads
  <1>9. CASE WriteUnheard(r)
    <2>1. upload[r].key \in Keys \cup {"none"}
      BY <1>00 DEF Uploads
    <2> QED
      BY <1>0, <1>9, <2>1, UploadGoes DEF WriteUnheard, Uploads
  <1> QED
    BY <1>1, <1>2, <1>3, <1>4, <1>5, <1>6, <1>7, <1>8, <1>9
LEMMA ImagesTypesKept ==
  ASSUME ImagesInv, ImagesNext
  PROVE  ImagesTypeOK'
  <1> USE DEF Files, LikeRows, ArtistRow, Sweeps
  <1>0. ImagesTypeOK /\ OnePlace /\ Writing /\ Unhearing
    BY DEF ImagesInv
  <1>i. imageEvents' \in 0 .. MaxImageEvents
    BY <1>0, ImagesAssumption DEF ImagesTypeOK, ImagesNext
  <1>1. ASSUME NEW r \in ImageRequests, NEW u \in Uploaders, NEW kind \in {"avatar", "candidate"},
               Store(r, u, kind)
        PROVE  ImagesTypeOK'
    BY <1>0, <1>i, <1>1, UploadTypes DEF ImagesTypeOK, Store
  <1>2. ASSUME NEW r \in ImageRequests, NEW u \in Uploaders, SetLink(r, u)
        PROVE  ImagesTypeOK'
    BY <1>0, <1>i, <1>2, UploadTypes DEF ImagesTypeOK, SetLink, Replace
  <1>3. ASSUME NEW r \in ImageRequests, NEW u \in Uploaders, NEW k \in Keys, Vote(r, u, k)
        PROVE  ImagesTypeOK'
    <2>1. /\ likes' \subseteq candidates \X here /\ count' \in [Keys -> Nat]
          /\ miscounted' \subseteq candidates
      BY <1>0, <1>3 DEF ImagesTypeOK, Vote
    <2> QED
      BY <1>0, <1>i, <1>3, <2>1, UploadTypes DEF ImagesTypeOK, Vote
  <1>4. ASSUME NEW u \in Uploaders, NEW k \in Keys, Unvote(u, k)
        PROVE  ImagesTypeOK'
    BY <1>0, <1>i, <1>4 DEF ImagesTypeOK, Unvote, Less
  <1>5. ASSUME NEW r \in ImageRequests, SetAvatar(r)
        PROVE  ImagesTypeOK'
    BY <1>0, <1>i, <1>5, UploadTypes DEF ImagesTypeOK, SetAvatar, Replace, OnePlace, Fresh
  <1>6. ASSUME NEW r \in ImageRequests, DeleteReplaced(r) \/ DeleteUnwritten(r) \/ Stop(r)
        PROVE  ImagesTypeOK'
    <2>1. stops' \in 0 .. MaxStops
      BY <1>0, <1>6, ImagesAssumption
      DEF ImagesTypeOK, DeleteReplaced, DeleteUnwritten, Stop
    <2> QED
      BY <1>0, <1>i, <1>6, <2>1, UploadTypes
      DEF ImagesTypeOK, DeleteReplaced, DeleteUnwritten, Stop, Delete
  <1>7. ASSUME NEW r \in ImageRequests, AddCandidate(r)
        PROVE  ImagesTypeOK'
    <2>1. upload[r].key \in used /\ upload[r].key \in Keys /\ upload[r].by \in here
      BY <1>0, <1>7 DEF ImagesTypeOK, AddCandidate, OnePlace, Fresh
    <2>2. /\ candidates' \subseteq used /\ earlier' \subseteq candidates' \X candidates'
          /\ likes' \subseteq candidates' \X here /\ miscounted' \subseteq candidates'
      BY <1>0, <1>7, <2>1 DEF ImagesTypeOK, AddCandidate, CandidateRow
    <2>3. /\ owner' \in [Keys -> Uploaders \cup {"none"}] /\ count' \in [Keys -> Nat]
          /\ \A k \in candidates' : owner'[k] \in here
      BY <1>0, <1>7, <2>1 DEF ImagesTypeOK, AddCandidate, CandidateRow
    <2> QED
      BY <1>0, <1>i, <1>7, <2>2, <2>3, UploadTypes DEF ImagesTypeOK, AddCandidate
  <1>8. ASSUME NEW r \in ImageRequests, ReadWinner(r)
        PROVE  ImagesTypeOK'
    BY <1>0, <1>i, <1>8, UploadTypes DEF ImagesTypeOK, ReadWinner
  <1>9. ASSUME NEW r \in ImageRequests, Promote(r)
        PROVE  ImagesTypeOK'
    BY <1>0, <1>i, <1>9, UploadTypes DEF ImagesTypeOK, Promote, Writing
  <1>10. CASE Enrich
    BY <1>0, <1>i, <1>10 DEF ImagesTypeOK, Enrich
  <1>11. ASSUME NEW u \in Uploaders, EraseReads(u)
         PROVE  ImagesTypeOK'
    BY <1>0, <1>i, <1>11 DEF ImagesTypeOK, EraseReads, NotClearing, LikesTaken
  <1>12. CASE EraseTakes
    BY <1>0, <1>i, <1>12 DEF ImagesTypeOK, EraseTakes, Owned
  <1>13. CASE EraseRow
    <2>1. /\ candidates' \subseteq used /\ earlier' \subseteq candidates' \X candidates'
          /\ likes' \subseteq candidates' \X here' /\ miscounted' \subseteq candidates'
          /\ here' \subseteq Uploaders
      BY <1>0, <1>13 DEF ImagesTypeOK, EraseRow
    <2>2. /\ owner' \in [Keys -> Uploaders \cup {"none"}]
          /\ \A k \in candidates' : owner'[k] \in here'
      BY <1>0, <1>13 DEF ImagesTypeOK, EraseRow, Owned
    <2>3. count' \in [Keys -> Nat]
      <3>1. \A k \in Keys : Discounted(k) \in Nat
        BY <1>0 DEF ImagesTypeOK, Discounted, Less
      <3> QED
        BY <1>13, <3>1 DEF EraseRow
    <2>4. avatar' \in [Uploaders -> used \cup {"none", "link"}]
      BY <1>0, <1>13 DEF ImagesTypeOK, EraseRow
    <2>5. clearing' \in [at : {"rest", "reads", "taken", "looks", "deletes"},
                         by : Uploaders \cup {"none"}, likes : SUBSET (Keys \X Uploaders),
                         keys : SUBSET Keys]
      BY <1>0, <1>13 DEF ImagesTypeOK, EraseRow
    <2> QED
      BY <1>0, <1>i, <1>13, <2>1, <2>2, <2>3, <2>4, <2>5 DEF ImagesTypeOK, EraseRow
  <1>14. CASE ClearLook \/ ClearDelete \/ EraseLost
    <2>1. stops' \in 0 .. MaxStops
      BY <1>0, <1>14, ImagesAssumption DEF ImagesTypeOK, ClearLook, ClearDelete, EraseLost
    <2>2. CASE ClearLook
      BY <1>0, <1>i, <2>1, <2>2 DEF ImagesTypeOK, ClearLook
    <2>3. CASE ClearDelete
      BY <1>0, <1>i, <2>1, <2>3 DEF ImagesTypeOK, ClearDelete, NotClearing, Delete
    <2>4. CASE EraseLost
      BY <1>0, <1>i, <2>1, <2>4 DEF ImagesTypeOK, EraseLost, NotClearing
    <2> QED
      BY <1>14, <2>2, <2>3, <2>4
  <1>15. CASE GcList \/ GcLook \/ GcDelete
    BY <1>0, <1>i, <1>15 DEF ImagesTypeOK, GcList, GcLook, GcDelete, Orphans, NotCollecting, Delete
  <1>16. ASSUME NEW k \in Keys, Age(k)
         PROVE  ImagesTypeOK'
    BY <1>0, <1>i, <1>16 DEF ImagesTypeOK, Age
  <1>17. ASSUME NEW r \in ImageRequests, WriteUnheard(r)
         PROVE  ImagesTypeOK'
    <2>1. upload[r].key \in used /\ upload[r].key \in Keys /\ upload[r].by \in here
      BY <1>0, <1>17 DEF ImagesTypeOK, WriteUnheard, OnePlace, Fresh
    <2>2. stops' \in 0 .. MaxStops
      BY <1>0, <1>17, ImagesAssumption DEF ImagesTypeOK, WriteUnheard
    <2>3. CASE upload[r].at = "avatar"
      BY <1>0, <1>i, <1>17, <2>1, <2>2, <2>3, UploadTypes DEF ImagesTypeOK, WriteUnheard
    <2>4. CASE upload[r].at = "candidate"
      <3>1. CandidateRow(upload[r].key, upload[r].by) /\ UNCHANGED <<avatar, here, Files>>
        BY <1>17, <2>4 DEF WriteUnheard
      <3>2. /\ candidates' \subseteq used /\ earlier' \subseteq candidates' \X candidates'
            /\ likes' \subseteq candidates' \X here /\ miscounted' \subseteq candidates'
        BY <1>0, <2>1, <3>1 DEF ImagesTypeOK, CandidateRow
      <3>3. /\ owner' \in [Keys -> Uploaders \cup {"none"}] /\ count' \in [Keys -> Nat]
            /\ \A k \in candidates' : owner'[k] \in here
        BY <1>0, <2>1, <3>1 DEF ImagesTypeOK, CandidateRow
      <3> QED
        BY <1>0, <1>i, <1>17, <2>2, <3>1, <3>2, <3>3, UploadTypes DEF ImagesTypeOK, WriteUnheard
    <2> QED
      BY <1>17, <2>3, <2>4 DEF WriteUnheard
  <1>18. ASSUME NEW r \in ImageRequests, DeleteUnheard(r)
         PROVE  ImagesTypeOK'
    <2>1. upload[r].key \in used
      BY <1>0, <1>18 DEF Unhearing, DeleteUnheard
    <2> QED
      BY <1>0, <1>i, <1>18, <2>1, UploadTypes DEF ImagesTypeOK, DeleteUnheard
  <1> QED
    BY <1>1, <1>2, <1>3, <1>4, <1>5, <1>6, <1>7, <1>8, <1>9, <1>10, <1>11, <1>12, <1>13, <1>14,
       <1>15, <1>16, <1>17, <1>18 DEF ImagesNext, ImagesBegin, ImagesGoOn
(***************************************************************************)
(* Files.                                                                  *)
(***************************************************************************)
FilesInv == OnePlace /\ Doomed /\ ReferencedAreStored

(* Steps that change no file and no row that refers to one, and that leave *)
(* requests with nothing to do to a file.                                  *)
LEMMA QuietFiles ==
  ASSUME ImagesInv,
         UNCHANGED <<files, old, used, unheard, avatar, candidates, owner, clearing, gc>>,
         \A r \in ImageRequests :
           upload'[r] = upload[r] \/ upload'[r].at \in {"rest", "promotes", "writes"}
  PROVE  FilesInv'
  <1>1. \A r \in ImageRequests :
          Fresh(r)' => Fresh(r) /\ upload'[r] = upload[r]
    BY DEF Fresh
  <1>2. \A r \in ImageRequests :
          upload'[r].at = "replaced" => upload'[r] = upload[r]
    OBVIOUS
  <1>3. \A k : Spent(k) => Spent(k)'
    BY <1>1 DEF Spent
  <1>4. OnePlace'
    BY <1>1 DEF ImagesInv, OnePlace
  <1>5. Doomed'
    BY <1>2, <1>3 DEF ImagesInv, Doomed, Owned
  <1>6. ReferencedAreStored'
    BY DEF ImagesInv, ReferencedAreStored
  <1> QED
    BY <1>4, <1>5, <1>6 DEF FilesInv

(* Steps that delete only what is spent.                                   *)
LEMMA SpentFiles ==
  ASSUME ImagesInv, NEW ks \in SUBSET Keys, \A k \in ks : Spent(k),
         Delete(ks), UNCHANGED <<avatar, candidates, owner>>,
         \A r \in ImageRequests : upload'[r] = upload[r] \/ upload'[r].at = "rest",
         clearing' = clearing \/ clearing' = NotClearing, gc' = gc \/ gc' = NotCollecting
  PROVE  FilesInv'
  <1>1. \A r \in ImageRequests : Fresh(r)' => Fresh(r) /\ upload'[r] = upload[r]
    BY DEF Fresh
  <1>2. \A k : Spent(k) => Spent(k)'
    BY <1>1 DEF Spent, Delete
  <1>3. \A k \in ks : /\ k \notin candidates /\ \A u \in Uploaders : avatar[u] # k
                      /\ \A r \in ImageRequests : Fresh(r) => upload[r].key # k
    BY DEF Spent
  <1>4. OnePlace'
    BY <1>1, <1>3 DEF ImagesInv, OnePlace, Delete
  <1>5. Doomed'
    BY <1>2 DEF ImagesInv, Doomed, Owned, NotClearing, NotCollecting
  <1>6. ReferencedAreStored'
    BY <1>3 DEF ImagesInv, ReferencedAreStored, Delete
  <1> QED
    BY <1>4, <1>5, <1>6 DEF FilesInv

LEMMA StoreFiles ==
  ASSUME ImagesInv, NEW r \in ImageRequests, NEW u \in Uploaders,
         NEW kind \in {"avatar", "candidate"}, Store(r, u, kind)
  PROVE  FilesInv'
  <1> USE DEF LikeRows, ArtistRow, Sweeps
  <1>0. ImagesTypeOK
    BY DEF ImagesInv
  <1>1. PICK k \in Keys \ used :
          files' = files \cup {k} /\ used' = used \cup {k} /\ UploadGoesOn(r, kind, u, k)
    BY DEF Store
  <1>2. /\ upload'[r].at = kind /\ upload'[r].key = k
        /\ \A q \in ImageRequests \ {r} : upload'[q] = upload[q]
    BY <1>0, <1>1, UploadGoes DEF Uploads
  <1>3. \A q \in ImageRequests : upload[q].key \in Keys \cup {"none"} /\ ~Fresh(r)
    BY <1>0 DEF ImagesTypeOK, Uploads, Store, Fresh
  <1>4. \A q \in ImageRequests \ {r} : Fresh(q)' <=> Fresh(q)
    BY <1>2 DEF Fresh
  <1>5. /\ k \notin files /\ k \notin old /\ k \notin candidates
        /\ \A v \in Uploaders : avatar[v] # k
    BY <1>0, ImagesAssumption DEF ImagesTypeOK
  <1>6. UNCHANGED <<avatar, candidates, owner, old, unheard, clearing, gc>>
    BY DEF Store
  <1>7. \A l : Spent(l) => Spent(l)'
    BY <1>1, <1>2, <1>4, <1>6 DEF Spent
  <1>8. OnePlace'
    BY <1>0, <1>1, <1>2, <1>4, <1>5, <1>6 DEF ImagesInv, OnePlace, ImagesTypeOK
  <1>9. Doomed'
    <2>1. \A q \in ImageRequests : upload'[q].at = "replaced" => upload'[q] = upload[q]
      BY <1>2
    <2> QED
      BY <1>6, <1>7, <2>1 DEF ImagesInv, Doomed, Owned
  <1>10. ReferencedAreStored'
    BY <1>1, <1>6 DEF ImagesInv, ReferencedAreStored
  <1> QED
    BY <1>8, <1>9, <1>10 DEF FilesInv
(* An account's image is replaced by a key of the request's or by a link.  *)
LEMMA ReplaceFiles ==
  ASSUME ImagesInv, NEW r \in ImageRequests,
         \/ SetAvatar(r) \/ \E u \in Uploaders : SetLink(r, u)
         \/ (upload[r].at = "avatar" /\ WriteUnheard(r))
  PROVE  FilesInv'
  <1> USE DEF Files, LikeRows, ArtistRow, Sweeps
  <1>0. ImagesTypeOK /\ OnePlace /\ Doomed /\ ReferencedAreStored
    BY DEF ImagesInv
  <1>1. PICK u \in Uploaders, value \in Keys \cup {"link"} :
          /\ \/ Replace(r, u, value)
             \/ /\ WriteUnheard(r) /\ upload[r].at = "avatar"
                /\ u = upload[r].by /\ value = upload[r].key
          /\ \/ /\ Fresh(r) /\ value = upload[r].key /\ value \in files
                /\ \A k \in Keys : Spent(k) => k # value
             \/ value = "link" /\ ~Fresh(r)
    <2>1. CASE SetAvatar(r) \/ (upload[r].at = "avatar" /\ WriteUnheard(r))
      <3>1. /\ \/ Replace(r, upload[r].by, upload[r].key)
               \/ (WriteUnheard(r) /\ upload[r].at = "avatar")
            /\ upload[r].by \in here /\ Fresh(r)
        BY <2>1 DEF SetAvatar, Replace, WriteUnheard, Fresh
      <3>2. upload[r].by \in Uploaders
        BY <1>0, <3>1 DEF ImagesTypeOK
      <3>3. upload[r].key \in files /\ upload[r].key \in Keys
        BY <1>0, <3>1 DEF OnePlace, ImagesTypeOK
      <3>4. \A k \in Keys : Spent(k) => k # upload[r].key
        BY <3>1 DEF Spent
      <3>5. upload[r].key \in Keys \cup {"link"}
        BY <3>3
      <3> QED
        BY <3>1, <3>2, <3>3, <3>4, <3>5
    <2>2. CASE \E u \in Uploaders : SetLink(r, u)
      <3>1. PICK u \in Uploaders : SetLink(r, u)
        BY <2>2
      <3>2. Replace(r, u, "link") /\ ~Fresh(r)
        BY <3>1 DEF SetLink, Fresh
      <3>3. "link" \in Keys \cup {"link"}
        OBVIOUS
      <3> QED
        BY <3>2, <3>3
    <2> QED
      BY <2>1, <2>2
  <1>2. /\ \A q \in ImageRequests \ {r} : upload'[q] = upload[q]
        /\ upload'[r].at \in {"rest", "replaced", "unheard"}
        /\ upload'[r].at = "replaced" => avatar[u] \in Keys /\ upload'[r].key = avatar[u]
    <2>1. CASE Replace(r, u, value) /\ avatar[u] \in Keys
      BY <1>0, <2>1, UploadGoes DEF Replace, Uploads
    <2>2. CASE Replace(r, u, value) /\ avatar[u] \notin Keys
      BY <1>0, <2>2, UploadEnds DEF Replace
    <2>3. CASE WriteUnheard(r)
      <3>1. upload[r].key \in Keys \cup {"none"}
        BY <1>0 DEF ImagesTypeOK, Uploads
      <3> QED
        BY <1>0, <2>3, <3>1, UploadGoes DEF WriteUnheard, Uploads
    <2> QED
      BY <1>1, <2>1, <2>2, <2>3
  <1>3. /\ UNCHANGED <<files, old, used, unheard, candidates, owner, clearing, gc>>
        /\ avatar'[u] = value /\ \A v \in Uploaders \ {u} : avatar'[v] = avatar[v]
    <2>1. CASE Replace(r, u, value)
      BY <1>0, <2>1 DEF Replace, ImagesTypeOK
    <2>2. CASE /\ WriteUnheard(r) /\ upload[r].at = "avatar"
               /\ u = upload[r].by /\ value = upload[r].key
      BY <1>0, <2>2 DEF WriteUnheard, ImagesTypeOK
    <2> QED
      BY <1>1, <2>1, <2>2
  <1>4. ~Fresh(r)' /\ \A q \in ImageRequests \ {r} : Fresh(q)' <=> Fresh(q)
    BY <1>2 DEF Fresh
  <1>5. \A k \in Keys : Spent(k) => Spent(k)'
    <2>1. \A k \in Keys : Spent(k) => k # value
      BY <1>1, ImagesAssumption
    <2> QED
      BY <1>2, <1>3, <1>4, <2>1 DEF Spent
  <1>6. value \notin candidates /\ \A v \in Uploaders : value \in Keys => avatar[v] # value
    BY <1>0, <1>1, ImagesAssumption DEF OnePlace, ImagesTypeOK
  <1>7. OnePlace'
    <2>1. \A q \in ImageRequests \ {r} : Fresh(q) => upload[q].key # value
      BY <1>0, <1>1, ImagesAssumption DEF OnePlace, ImagesTypeOK
    <2> QED
      BY <1>0, <1>2, <1>3, <1>4, <1>6, <2>1 DEF OnePlace
  <1> PICK was : was = avatar[u]
    OBVIOUS
  <1>8. was \in Keys => Spent(was)'
    <2>1. was \in Keys => was \in used
      BY <1>0, ImagesAssumption DEF ImagesTypeOK
    <2>2. was \in Keys => was # value
      BY <1>6
    <2> QED
      BY <1>0, <1>2, <1>3, <1>4, <2>1, <2>2 DEF OnePlace, Spent
  <1>9. Doomed'
    <2>1. \A k : Spent(k) => k \in Keys
      BY <1>0 DEF Spent, ImagesTypeOK
    <2>2. \A k : \A q \in ImageRequests : upload'[q].at = "replaced" /\ upload'[q].key = k => Spent(k)'
      <3>1. \A k : \A q \in ImageRequests \ {r} :
              upload'[q].at = "replaced" /\ upload'[q].key = k => Spent(k)'
        BY <1>0, <1>2, <1>5, <2>1 DEF Doomed
      <3>2. \A k : upload'[r].at = "replaced" /\ upload'[r].key = k => Spent(k)'
        BY <1>2, <1>8
      <3> QED
        BY <3>1, <3>2
    <2>3. clearing.at = "taken" =>
            \A k \in clearing.keys :
              Spent(k)' \/ k \in Owned(clearing.by) \/ avatar'[clearing.by] = k
      <3>1. \A k \in Keys : \A v \in Uploaders : avatar[v] = k => Spent(k)' \/ avatar'[v] = k
        BY <1>3, <1>8
      <3>2. clearing.at = "taken" => clearing.by \in Uploaders /\ clearing.keys \subseteq Keys
        BY DEF ImagesInv, Taking, ImagesTypeOK
      <3> QED
        BY <1>0, <1>5, <3>1, <3>2 DEF Doomed
    <2>4. /\ clearing.at \in {"looks", "deletes"} => \A k \in clearing.keys : Spent(k)'
          /\ gc.at = "deletes" => \A k \in gc.keys : Spent(k)'
      BY <1>0, <1>5, <2>1 DEF Doomed
    <2>5. Owned(clearing.by)' = Owned(clearing.by)
      BY <1>3 DEF Owned
    <2> QED
      BY <1>3, <2>2, <2>3, <2>4, <2>5 DEF Doomed
  <1>10. ReferencedAreStored'
    BY <1>0, <1>1, <1>3, ImagesAssumption DEF ReferencedAreStored
  <1> QED
    BY <1>7, <1>9, <1>10 DEF FilesInv

LEMMA CandidateFiles ==
  ASSUME ImagesInv, NEW r \in ImageRequests,
         AddCandidate(r) \/ (upload[r].at = "candidate" /\ WriteUnheard(r))
  PROVE  FilesInv'
  <1> USE DEF Files, ArtistRow, Sweeps
  <1>0. ImagesTypeOK /\ OnePlace /\ Doomed /\ ReferencedAreStored
    BY DEF ImagesInv
  <1> DEFINE k == upload[r].key
  <1>1. /\ Fresh(r) /\ candidates' = candidates \cup {k}
        /\ k \in Keys /\ k \in files \ old /\ k \notin candidates /\ k \in used
        /\ \A u \in Uploaders : avatar[u] # k
    BY <1>0 DEF AddCandidate, WriteUnheard, CandidateRow, OnePlace, Fresh, ImagesTypeOK
  <1>2. /\ upload'[r].at \in {"promotes", "unheard"}
        /\ \A q \in ImageRequests \ {r} : upload'[q] = upload[q]
    <2>1. AddCandidate(r) => /\ upload'[r].at = "promotes"
                             /\ \A q \in ImageRequests \ {r} : upload'[q] = upload[q]
      BY <1>0, UploadGoes DEF AddCandidate, Uploads
    <2>2. WriteUnheard(r) => /\ upload'[r].at = "unheard"
                             /\ \A q \in ImageRequests \ {r} : upload'[q] = upload[q]
      BY <1>0, <1>1, UploadGoes DEF WriteUnheard, Uploads
    <2> QED
      BY <2>1, <2>2
  <1>3. UNCHANGED <<files, old, used, unheard, avatar, clearing, gc>>
    BY DEF AddCandidate, WriteUnheard
  <1>4. ~Fresh(r)' /\ \A q \in ImageRequests \ {r} : Fresh(q)' <=> Fresh(q)
    BY <1>2 DEF Fresh
  <1>5. \A l : Spent(l) => Spent(l)'
    BY <1>1, <1>2, <1>3, <1>4 DEF Spent
  <1>6. \A u : Owned(u) \subseteq Owned(u)'
    BY <1>0, <1>1 DEF Owned, AddCandidate, WriteUnheard, CandidateRow, ImagesTypeOK
  <1>7. OnePlace'
    BY <1>0, <1>1, <1>2, <1>3, <1>4 DEF OnePlace
  <1>8. Doomed'
    BY <1>0, <1>2, <1>3, <1>5, <1>6 DEF Doomed
  <1>9. ReferencedAreStored'
    BY <1>0, <1>1, <1>3 DEF ReferencedAreStored
  <1> QED
    BY <1>7, <1>8, <1>9 DEF FilesInv
(* An upload whose row can't be written takes its own file with it.        *)
LEMMA UnwrittenFiles ==
  ASSUME ImagesInv, NEW r \in ImageRequests, DeleteUnwritten(r)
  PROVE  FilesInv'
  <1> USE DEF LikeRows, ArtistRow
  <1>0. ImagesTypeOK /\ OnePlace /\ Doomed /\ ReferencedAreStored
    BY DEF ImagesInv
  <1> PICK k : k = upload[r].key
    OBVIOUS
  <1>1. /\ files' = files \ {k} /\ old' = old \ {k} /\ Fresh(r)
        /\ UNCHANGED <<used, unheard, avatar, candidates, owner, clearing, gc>>
    BY DEF DeleteUnwritten, Delete, Fresh
  <1>2. upload'[r].at = "rest" /\ \A q \in ImageRequests \ {r} : upload'[q] = upload[q]
    BY <1>0, UploadEnds DEF DeleteUnwritten
  <1>3. ~Fresh(r)' /\ \A q \in ImageRequests \ {r} : Fresh(q)' <=> Fresh(q)
    BY <1>2 DEF Fresh
  <1>4. \A l : Spent(l) => Spent(l)'
    BY <1>1, <1>2, <1>3 DEF Spent
  <1>5. /\ k \notin candidates /\ \A u \in Uploaders : avatar[u] # k
        /\ \A q \in ImageRequests \ {r} : Fresh(q) => upload[q].key # k
    BY <1>0, <1>1 DEF OnePlace
  <1>6. OnePlace'
    BY <1>0, <1>1, <1>2, <1>3, <1>5 DEF OnePlace
  <1>7. Doomed'
    <2>1. \A q \in ImageRequests : upload'[q].at = "replaced" => upload'[q] = upload[q]
      BY <1>2
    <2> QED
      BY <1>0, <1>1, <1>4, <2>1 DEF Doomed, Owned
  <1>8. ReferencedAreStored'
    BY <1>0, <1>1, <1>5 DEF ReferencedAreStored
  <1> QED
    BY <1>6, <1>7, <1>8 DEF FilesInv

(* The file of a row whose commit wasn't heard of.                         *)
LEMMA UnheardFiles ==
  ASSUME ImagesInv, NEW r \in ImageRequests, DeleteUnheard(r)
  PROVE  FilesInv'
  <1> USE DEF LikeRows, ArtistRow, Sweeps
  <1>0. ImagesTypeOK /\ OnePlace /\ Doomed /\ ReferencedAreStored /\ Unhearing
    BY DEF ImagesInv
  <1> PICK k : k = upload[r].key
    OBVIOUS
  <1>1. /\ files' = files \ {k} /\ old' = old \ {k} /\ unheard' = unheard \cup {k}
        /\ UNCHANGED <<used, avatar, candidates, owner, clearing, gc>>
        /\ \A q \in ImageRequests : Fresh(q) => upload[q].key # k
    BY <1>0 DEF DeleteUnheard, Unhearing
  <1>2. upload'[r].at = "rest" /\ \A q \in ImageRequests \ {r} : upload'[q] = upload[q]
    BY <1>0, UploadEnds DEF DeleteUnheard
  <1>3. \A q \in ImageRequests : Fresh(q)' => Fresh(q) /\ upload'[q] = upload[q]
    BY <1>2 DEF Fresh
  <1>4. \A l : Spent(l) => Spent(l)'
    BY <1>1, <1>2, <1>3 DEF Spent
  <1>5. OnePlace'
    BY <1>0, <1>1, <1>3 DEF OnePlace
  <1>6. Doomed'
    <2>1. \A q \in ImageRequests : upload'[q].at = "replaced" => upload'[q] = upload[q]
      BY <1>2
    <2> QED
      BY <1>0, <1>1, <1>4, <2>1 DEF Doomed, Owned
  <1>7. ReferencedAreStored'
    BY <1>0, <1>1 DEF ReferencedAreStored
  <1> QED
    BY <1>5, <1>6, <1>7 DEF FilesInv

(* The erasure and the collector look at what refers to a file.            *)
LEMMA LookFiles ==
  ASSUME ImagesInv,
         \/ \E u \in Uploaders : EraseReads(u)
         \/ EraseTakes \/ ClearLook \/ EraseLost \/ GcList \/ GcLook
  PROVE  FilesInv'
  <1> USE DEF Files, LikeRows, ArtistRow
  <1>0. ImagesTypeOK /\ OnePlace /\ Doomed /\ ReferencedAreStored
    BY DEF ImagesInv
  <1>1. UNCHANGED <<files, old, used, unheard, avatar, candidates, owner, upload>>
    BY DEF EraseReads, EraseTakes, ClearLook, EraseLost, GcList, GcLook
  <1>2. \A r \in ImageRequests : Fresh(r)' <=> Fresh(r)
    BY <1>1 DEF Fresh
  <1>3. \A k : Spent(k)' <=> Spent(k)
    BY <1>1, <1>2 DEF Spent
  <1>4. \A u : Owned(u)' = Owned(u)
    BY <1>1 DEF Owned
  <1>5. OnePlace' /\ ReferencedAreStored'
    BY <1>0, <1>1, <1>2 DEF OnePlace, ReferencedAreStored
  <1>6. clearing' = clearing \/ clearing'.at \in {"rest", "reads"} => Doomed'
    <2>1. ASSUME clearing' = clearing \/ clearing'.at \in {"rest", "reads"}, gc' = gc
          PROVE  Doomed'
      BY <1>0, <1>1, <1>3, <1>4, <2>1 DEF Doomed, Owned
    <2>2. ASSUME clearing' = clearing, GcList
          PROVE  Doomed'
      BY <1>0, <1>1, <1>3, <1>4, <2>2 DEF Doomed, GcList, Owned
    <2>3. ASSUME clearing' = clearing, GcLook
          PROVE  Doomed'
      <3>1. gc'.keys = (gc.keys \cap old) \ Referenced
        BY <2>3 DEF GcLook, Orphans
      <3>2. \A k \in gc'.keys : Spent(k)
        <4>1. \A k \in old : k \in used /\ k \in Keys /\ \A r \in ImageRequests : Fresh(r) => upload[r].key # k
          BY <1>0 DEF ImagesTypeOK, OnePlace
        <4> QED
          BY <3>1, <4>1 DEF Referenced, Spent
      <3> QED
        BY <1>0, <1>1, <1>3, <1>4, <2>3, <3>2 DEF Doomed, Owned
    <2> QED
      BY <2>1, <2>2, <2>3
      DEF EraseReads, EraseTakes, ClearLook, EraseLost, GcList, GcLook
  <1>7. ASSUME EraseTakes
        PROVE  Doomed'
    <2>1. /\ gc' = gc /\ clearing'.at = "taken" /\ clearing'.by = clearing.by
          /\ clearing'.keys = Owned(clearing.by) \cup ({avatar[clearing.by]} \cap Keys)
      BY <1>0, <1>7 DEF EraseTakes, ImagesTypeOK
    <2>2. Owned(clearing.by)' = Owned(clearing.by)
      BY <1>1, <2>1 DEF Owned
    <2> QED
      BY <1>0, <1>1, <1>3, <2>1, <2>2 DEF Doomed
  <1>8. ASSUME ClearLook
        PROVE  Doomed'
    <2>1. /\ gc' = gc /\ clearing.at = "looks" /\ clearing'.at = "deletes"
          /\ clearing'.keys \subseteq clearing.keys
      BY <1>0, <1>8 DEF ClearLook, ImagesTypeOK
    <2> QED
      BY <1>0, <1>1, <1>3, <2>1 DEF Doomed
  <1>9. ASSUME \/ \E u \in Uploaders : EraseReads(u)
               \/ EraseLost \/ GcList \/ GcLook
        PROVE  clearing' = clearing \/ clearing'.at \in {"rest", "reads"}
    <2>1. ASSUME NEW u \in Uploaders, EraseReads(u)
          PROVE  clearing'.at = "reads"
      BY <2>1 DEF EraseReads, NotClearing
    <2>2. EraseLost => clearing'.at = "rest"
      BY DEF EraseLost, NotClearing
    <2>3. GcList \/ GcLook => clearing' = clearing
      BY DEF GcList, GcLook
    <2> QED
      BY <1>9, <2>1, <2>2, <2>3
  <1>10. Doomed'
    BY <1>6, <1>7, <1>8, <1>9
  <1> QED
    BY <1>5, <1>10 DEF FilesInv

LEMMA EraseFiles ==
  ASSUME ImagesInv, EraseRow
  PROVE  FilesInv'
  <1> USE DEF Files, ArtistRow
  <1>0. ImagesTypeOK /\ OnePlace /\ Doomed /\ ReferencedAreStored
    BY DEF ImagesInv
  <1> PICK u : u = clearing.by
    OBVIOUS
  <1>1. /\ u \in Uploaders /\ clearing.keys \subseteq Keys /\ clearing.at = "taken"
        /\ clearing'.at = "looks" /\ clearing'.keys = clearing.keys
        /\ candidates' = candidates \ Owned(u)
        /\ UNCHANGED <<files, old, used, unheard, upload, gc>>
    BY <1>0 DEF EraseRow, ImagesInv, Taking, ImagesTypeOK
  <1>2. avatar'[u] = "none" /\ \A v \in Uploaders \ {u} : avatar'[v] = avatar[v]
    BY <1>0, <1>1 DEF EraseRow, ImagesTypeOK
  <1>3. \A r \in ImageRequests : Fresh(r)' <=> Fresh(r)
    BY <1>1 DEF Fresh
  <1>4. \A k \in Keys : Spent(k) => Spent(k)'
    BY <1>1, <1>2, <1>3, ImagesAssumption DEF Spent
  <1>5. "none" \notin Keys /\ used \subseteq Keys /\ files \subseteq used /\ candidates \subseteq Keys
    BY <1>0, ImagesAssumption DEF ImagesTypeOK
  <1>6. OnePlace'
    BY <1>0, <1>1, <1>2, <1>3, <1>5 DEF OnePlace
  <1>7. ReferencedAreStored'
    BY <1>0, <1>1, <1>2, <1>5 DEF ReferencedAreStored
  <1>8. \A k \in clearing.keys : Spent(k)'
    <2>1. ASSUME NEW k \in Keys, k \in Owned(u)
          PROVE  Spent(k)'
      <3>1. k \in candidates /\ k \notin candidates' /\ k \in used
        BY <1>0, <1>1, <2>1 DEF Owned, ImagesTypeOK
      <3> QED
        BY <1>0, <1>1, <1>2, <1>3, <1>5, <3>1 DEF OnePlace, Spent
    <2>2. ASSUME NEW k \in Keys, avatar[u] = k
          PROVE  Spent(k)'
      <3>1. k \in used /\ k \notin candidates /\ \A v \in Uploaders \ {u} : avatar[v] # k
        BY <1>0, <1>1, <2>2, ImagesAssumption DEF OnePlace, ImagesTypeOK
      <3>2. \A r \in ImageRequests : Fresh(r) => upload[r].key # k
        BY <1>0, <1>1, <2>2 DEF OnePlace
      <3> QED
        BY <1>1, <1>2, <1>3, <1>5, <3>1, <3>2 DEF Spent
    <2> QED
      BY <1>0, <1>1, <1>4, <2>1, <2>2 DEF Doomed
  <1>9. Doomed'
    <2>1. \A k : Spent(k) => k \in Keys
      BY <1>5 DEF Spent
    <2>2. \A r \in ImageRequests : upload[r].at = "replaced" => Spent(upload[r].key)
      BY <1>0 DEF Doomed
    <2>3. \A k : \A r \in ImageRequests : upload[r].at = "replaced" /\ upload[r].key = k => Spent(k)'
      BY <1>4, <2>1, <2>2
    <2>4. gc.at = "deletes" => \A k \in gc.keys : Spent(k)'
      BY <1>0, <1>4, <2>1 DEF Doomed
    <2> QED
      BY <1>1, <1>8, <2>3, <2>4 DEF Doomed
  <1> QED
    BY <1>6, <1>7, <1>9 DEF FilesInv

LEMMA AgedFiles ==
  ASSUME ImagesInv, NEW k \in Keys, Age(k)
  PROVE  FilesInv'
  <1> USE DEF LikeRows, ArtistRow, Sweeps
  <1>1. /\ old' = old \cup {k} 
        /\ UNCHANGED <<files, used, unheard, avatar, candidates, owner, upload, clearing, gc>>
        /\ \A r \in ImageRequests : Fresh(r) => upload[r].key # k
    BY DEF Age, Fresh
  <1>2. \A r \in ImageRequests : Fresh(r)' <=> Fresh(r)
    BY <1>1 DEF Fresh
  <1>3. \A l : Spent(l)' <=> Spent(l)
    BY <1>1, <1>2 DEF Spent
  <1>4. OnePlace'
    BY <1>1, <1>2 DEF ImagesInv, OnePlace
  <1>5. Doomed'
    BY <1>1, <1>3 DEF ImagesInv, Doomed, Owned
  <1>6. ReferencedAreStored'
    BY <1>1 DEF ImagesInv, ReferencedAreStored
  <1> QED
    BY <1>4, <1>5, <1>6 DEF FilesInv

LEMMA FilesKept ==
  ASSUME ImagesInv, ImagesNext
  PROVE  FilesInv'
  <1> USE DEF Files, LikeRows, ArtistRow, Sweeps
  <1>0. ImagesTypeOK /\ OnePlace /\ Doomed
    BY DEF ImagesInv
  <1>1. ASSUME NEW r \in ImageRequests, NEW u \in Uploaders, NEW k \in Keys, Vote(r, u, k)
        PROVE  FilesInv'
    <2>1. upload'[r].at = "promotes" /\ \A q \in ImageRequests \ {r} : upload'[q] = upload[q]
      BY <1>0, <1>1, UploadGoes DEF Vote, Uploads
    <2> QED
      BY <1>1, <2>1, QuietFiles DEF Vote
  <1>2. ASSUME NEW u \in Uploaders, NEW k \in Keys, Unvote(u, k)
        PROVE  FilesInv'
    BY <1>2, QuietFiles DEF Unvote
  <1>3. ASSUME NEW r \in ImageRequests, Stop(r) \/ Promote(r)
        PROVE  FilesInv'
    <2>1. upload'[r].at = "rest" /\ \A q \in ImageRequests \ {r} : upload'[q] = upload[q]
      BY <1>0, <1>3, UploadEnds DEF Stop, Promote
    <2> QED
      BY <1>3, <2>1, QuietFiles DEF Stop, Promote
  <1>4. ASSUME NEW r \in ImageRequests, ReadWinner(r)
        PROVE  FilesInv'
    <2>1. /\ upload'[r].at \in {"rest", "writes"}
          /\ \A q \in ImageRequests \ {r} : upload'[q] = upload[q]
      <3>1. UploadDone(r) \/ \E k \in candidates : UploadGoesOn(r, "writes", "none", k)
        BY <1>4 DEF ReadWinner
      <3>2. candidates \subseteq Keys
        BY <1>0 DEF ImagesTypeOK
      <3> QED
        BY <1>0, <3>1, <3>2, UploadGoes, UploadEnds DEF Uploads
    <2> QED
      BY <1>4, <2>1, QuietFiles DEF ReadWinner
  <1>5. CASE Enrich
    BY <1>5, QuietFiles DEF Enrich
  <1>6. ASSUME NEW r \in ImageRequests, DeleteReplaced(r)
        PROVE  FilesInv'
    <2>1. upload'[r].at = "rest" /\ \A q \in ImageRequests \ {r} : upload'[q] = upload[q]
      BY <1>0, <1>6, UploadEnds DEF DeleteReplaced
    <2>2. Spent(upload[r].key) /\ upload[r].key \in Keys
      BY <1>0, <1>6 DEF Doomed, DeleteReplaced, Spent, ImagesTypeOK
    <2> QED
      BY <1>6, <2>1, <2>2, SpentFiles DEF DeleteReplaced
  <1>7. ASSUME NEW r \in ImageRequests, DeleteUnwritten(r)
        PROVE  FilesInv'
    BY <1>7, UnwrittenFiles
  <1>8. CASE ClearDelete
    <2>1. \A k \in clearing.keys : Spent(k)
      BY <1>0, <1>8 DEF Doomed, ClearDelete
    <2>2. clearing.keys \subseteq Keys
      BY <1>0 DEF ImagesTypeOK
    <2> QED
      BY <1>8, <2>1, <2>2, SpentFiles DEF ClearDelete
  <1>9. CASE GcDelete
    <2>1. \A k \in gc.keys : Spent(k)
      BY <1>0, <1>9 DEF Doomed, GcDelete
    <2>2. gc.keys \subseteq Keys
      BY <1>0 DEF ImagesTypeOK
    <2> QED
      BY <1>9, <2>1, <2>2, SpentFiles DEF GcDelete
  <1>10. ASSUME NEW r \in ImageRequests, WriteUnheard(r)
         PROVE  FilesInv'
    <2>1. upload[r].at \in {"avatar", "candidate"}
      BY <1>10 DEF WriteUnheard
    <2> QED
      BY <1>10, <2>1, ReplaceFiles, CandidateFiles
  <1>11. ASSUME NEW r \in ImageRequests, SetAvatar(r) \/ \E u \in Uploaders : SetLink(r, u)
         PROVE  FilesInv'
    BY <1>11, ReplaceFiles
  <1>12. ASSUME NEW r \in ImageRequests, AddCandidate(r)
         PROVE  FilesInv'
    BY <1>12, CandidateFiles
  <1> QED
    BY <1>1, <1>2, <1>3, <1>4, <1>5, <1>6, <1>7, <1>8, <1>9, <1>10, <1>11, <1>12, StoreFiles,
       UnheardFiles, LookFiles, EraseFiles, AgedFiles
    DEF ImagesNext, ImagesBegin, ImagesGoOn
LEMMA WritingKept ==
  ASSUME ImagesInv, ImagesNext
  PROVE  Writing' /\ Unhearing'
  <1> USE DEF Files, LikeRows, ArtistRow, Sweeps
  <1>0. ImagesTypeOK /\ OnePlace /\ Writing /\ Unhearing
    BY DEF ImagesInv
  <1>1. ASSUME used \subseteq used',
               \A r \in ImageRequests :
                 \/ upload'[r] = upload[r]
                 \/ upload'[r].at \in {"rest", "replaced", "promotes"}
                 \/ (upload'[r].at = "writes" /\ upload'[r].key \in used)
        PROVE  Writing' /\ Unhearing'
    BY <1>0, <1>1 DEF Writing, Unhearing, Fresh
  <1>2. ASSUME NEW r \in ImageRequests, NEW u \in Uploaders, NEW kind \in {"avatar", "candidate"},
               Store(r, u, kind)
        PROVE  Writing' /\ Unhearing'
    <2>1. PICK k \in Keys \ used : used' = used \cup {k} /\ UploadGoesOn(r, kind, u, k)
      BY <1>2 DEF Store
    <2>2. upload'[r].at = kind /\ \A q \in ImageRequests \ {r} : upload'[q] = upload[q]
      BY <1>0, <2>1, UploadGoes DEF Uploads
    <2>3. Writing'
      BY <1>0, <2>1, <2>2 DEF Writing
    <2>4. upload'[r].key = k
      BY <1>0, <2>1, UploadGoes DEF Uploads
    <2>5. Unhearing'
      BY <1>0, <2>1, <2>2, <2>4 DEF Unhearing, Fresh
    <2> QED
      BY <2>3, <2>5
  <1>3. ASSUME NEW r \in ImageRequests, SetAvatar(r) \/ \E u \in Uploaders : SetLink(r, u)
        PROVE  Writing' /\ Unhearing'
    <2>1. PICK u \in Uploaders : \E value : Replace(r, u, value)
      BY <1>0, <1>3 DEF SetAvatar, SetLink, Replace, ImagesTypeOK
    <2>2. upload'[r].at \in {"rest", "replaced"} /\ \A q \in ImageRequests \ {r} : upload'[q] = upload[q]
      <3>1. CASE avatar[u] \in Keys
        BY <1>0, <2>1, <3>1, UploadGoes DEF Replace, Uploads
      <3>2. CASE avatar[u] \notin Keys
        BY <1>0, <2>1, <3>2, UploadEnds DEF Replace
      <3> QED
        BY <3>1, <3>2
    <2> QED
      BY <1>1, <2>1, <2>2 DEF Replace
  <1>4. ASSUME NEW r \in ImageRequests,
               \/ DeleteReplaced(r) \/ DeleteUnwritten(r) \/ DeleteUnheard(r)
               \/ Stop(r) \/ Promote(r)
        PROVE  Writing' /\ Unhearing'
    <2>1. upload'[r].at = "rest" /\ \A q \in ImageRequests \ {r} : upload'[q] = upload[q]
      BY <1>0, <1>4, UploadEnds DEF DeleteReplaced, DeleteUnwritten, DeleteUnheard, Stop, Promote
    <2> QED
      BY <1>1, <1>4, <2>1
      DEF DeleteReplaced, DeleteUnwritten, DeleteUnheard, Stop, Promote, Delete
  <1>5. ASSUME NEW r \in ImageRequests,
               AddCandidate(r) \/ \E u \in Uploaders, k \in Keys : Vote(r, u, k)
        PROVE  Writing' /\ Unhearing'
    <2>1. upload'[r].at = "promotes" /\ \A q \in ImageRequests \ {r} : upload'[q] = upload[q]
      BY <1>0, <1>5, UploadGoes DEF AddCandidate, Vote, Uploads
    <2> QED
      BY <1>1, <1>5, <2>1 DEF AddCandidate, Vote
  <1>6. ASSUME NEW r \in ImageRequests, ReadWinner(r)
        PROVE  Writing' /\ Unhearing'
    <2>1. candidates \subseteq Keys /\ candidates \subseteq used
      BY <1>0 DEF ImagesTypeOK
    <2>2. UploadDone(r) \/ \E k \in candidates : UploadGoesOn(r, "writes", "none", k)
      BY <1>6 DEF ReadWinner
    <2>3. /\ upload'[r].at = "rest" \/ (upload'[r].at = "writes" /\ upload'[r].key \in used)
          /\ \A q \in ImageRequests \ {r} : upload'[q] = upload[q]
      <3>1. UploadDone(r) => /\ upload'[r].at = "rest"
                             /\ \A q \in ImageRequests \ {r} : upload'[q] = upload[q]
        BY <1>0, UploadEnds
      <3>2. ASSUME NEW k \in candidates, UploadGoesOn(r, "writes", "none", k)
            PROVE  /\ upload'[r].at = "writes" /\ upload'[r].key = k
                   /\ \A q \in ImageRequests \ {r} : upload'[q] = upload[q]
        BY <1>0, <2>1, <3>2, UploadGoes DEF Uploads
      <3> QED
        BY <2>1, <2>2, <3>1, <3>2
    <2> QED
      BY <1>1, <1>6, <2>3 DEF ReadWinner
  <1>7. CASE \/ \E u \in Uploaders : EraseReads(u) \/ \E k \in Keys : Unvote(u, k)
             \/ EraseTakes \/ EraseRow \/ ClearLook \/ ClearDelete \/ EraseLost
             \/ GcList \/ GcLook \/ GcDelete \/ Enrich \/ \E k \in Keys : Age(k)
    <2>1. used' = used /\ upload' = upload
      BY <1>7 DEF EraseReads, Unvote, EraseTakes, EraseRow, ClearLook, ClearDelete, EraseLost,
                  GcList, GcLook, GcDelete, Enrich, Age, Delete
    <2> QED
      BY <1>1, <2>1
  <1>8. ASSUME NEW r \in ImageRequests, WriteUnheard(r)
        PROVE  Writing' /\ Unhearing'
    <2>1. Fresh(r) /\ upload[r].key \in used /\ upload[r].key \in Keys /\ used' = used
      BY <1>0, <1>8 DEF WriteUnheard, Fresh, OnePlace, ImagesTypeOK
    <2>2. /\ upload'[r].at = "unheard" /\ upload'[r].key = upload[r].key
          /\ \A q \in ImageRequests \ {r} : upload'[q] = upload[q]
      BY <1>0, <1>8, <2>1, UploadGoes DEF WriteUnheard, Uploads
    <2>3. ~Fresh(r)' /\ \A q \in ImageRequests \ {r} : Fresh(q)' <=> Fresh(q)
      BY <2>2 DEF Fresh
    <2>4. Writing'
      BY <1>0, <2>1, <2>2 DEF Writing
    <2>5. \A q \in ImageRequests \ {r} : Fresh(q) => upload[q].key # upload[r].key
      BY <1>0, <2>1 DEF OnePlace
    <2>6. Unhearing'
      BY <1>0, <2>1, <2>2, <2>3, <2>5 DEF Unhearing
    <2> QED
      BY <2>4, <2>6
  <1> QED
    BY <1>2, <1>3, <1>4, <1>5, <1>6, <1>7, <1>8 DEF ImagesNext, ImagesBegin, ImagesGoOn

(***************************************************************************)
(* Likes.                                                                  *)
(***************************************************************************)
Likers(rows, k) == {u \in Uploaders : <<k, u>> \in rows}

LEMMA LikersFinite ==
  ASSUME NEW rows, NEW k
  PROVE  IsFiniteSet(Likers(rows, k)) /\ Cardinality(Likers(rows, k)) \in Nat
  <1>1. Likers(rows, k) \in SUBSET Uploaders
    BY DEF Likers
  <1> QED
    BY <1>1, FS_Subset, FS_CardinalityType, ImagesAssumption

LEMMA OneLikeMore ==
  ASSUME NEW rows, NEW k, NEW u \in Uploaders, <<k, u>> \notin rows
  PROVE  Cardinality(Likers(rows \cup {<<k, u>>}, k)) = Cardinality(Likers(rows, k)) + 1
  <1>1. Likers(rows \cup {<<k, u>>}, k) = Likers(rows, k) \cup {u} /\ u \notin Likers(rows, k)
    BY DEF Likers
  <1> QED
    BY <1>1, LikersFinite, FS_AddElement

LEMMA OneLikeLess ==
  ASSUME NEW rows, NEW k, NEW u \in Uploaders, <<k, u>> \in rows, NEW less,
         Likers(less, k) = Likers(rows, k) \ {u}
  PROVE  /\ Cardinality(Likers(less, k)) = Less(Cardinality(Likers(rows, k)))
         /\ Cardinality(Likers(rows, k)) > 0
  <1>1. u \in Likers(rows, k)
    BY DEF Likers
  <1>2. Cardinality(Likers(less, k)) = Cardinality(Likers(rows, k)) - 1
    BY <1>1, LikersFinite, FS_RemoveElement
  <1>3. Cardinality(Likers(less, k)) \in Nat /\ Cardinality(Likers(rows, k)) \in Nat
    BY LikersFinite
  <1> QED
    BY <1>2, <1>3 DEF Less

LikesInv == CountsAreLikes /\ Taking

(* Steps that change no like.                                              *)
LEMMA SameLikes ==
  ASSUME ImagesInv, UNCHANGED <<candidates, owner, likes, count, miscounted, here>>,
         clearing' = clearing \/ clearing'.at \notin {"reads", "taken"}
  PROVE  LikesInv'
  BY DEF ImagesInv, LikesInv, CountsAreLikes, Taking

LEMMA CandidateLikes ==
  ASSUME ImagesInv, NEW r \in ImageRequests,
         AddCandidate(r) \/ (upload[r].at = "candidate" /\ WriteUnheard(r))
  PROVE  LikesInv'
  <1> USE DEF Sweeps
  <1>0. ImagesTypeOK /\ OnePlace /\ CountsAreLikes /\ Taking
    BY DEF ImagesInv
  <1> PICK k, u : k = upload[r].key /\ u = upload[r].by
    OBVIOUS
  <1>1. /\ k \in Keys /\ k \notin candidates /\ u \in here /\ u \in Uploaders
        /\ candidates' = candidates \cup {k}
        /\ likes' = likes \cup {<<k, u>>}
        /\ count'[k] = 1 /\ \A l \in Keys \ {k} : count'[l] = count[l]
        /\ owner'[k] = u /\ \A l \in Keys \ {k} : owner'[l] = owner[l]
        /\ UNCHANGED <<here, clearing, miscounted>>
    BY <1>0 DEF AddCandidate, WriteUnheard, CandidateRow, OnePlace, Fresh, ImagesTypeOK
  <1>2. candidates \subseteq Keys /\ \A v \in Uploaders : <<k, v>> \notin likes
    BY <1>0, <1>1 DEF ImagesTypeOK
  <1>3. CountsAreLikes'
    <2>1. Cardinality(Likers(likes', k)) = 1
      <3>1. Likers(likes', k) = {u}
        BY <1>1, <1>2 DEF Likers
      <3> QED
        BY <3>1, FS_Singleton
    <2>2. \A l \in candidates : Likers(likes', l) = Likers(likes, l)
      BY <1>1 DEF Likers
    <2> QED
      BY <1>0, <1>1, <1>2, <2>1, <2>2 DEF CountsAreLikes, Likers
  <1>4. Taking'
    <2>1. clearing.at \in {"reads", "taken"} => <<k, clearing.by>> \notin clearing.likes
      BY <1>0, <1>1 DEF Taking
    <2> QED
      BY <1>0, <1>1, <1>2, <2>1 DEF Taking, ImagesTypeOK
  <1> QED
    BY <1>3, <1>4 DEF LikesInv

LEMMA VoteLikes ==
  ASSUME ImagesInv, NEW r \in ImageRequests, NEW u \in Uploaders, NEW k \in Keys, Vote(r, u, k)
  PROVE  LikesInv'
  <1> USE DEF Sweeps
  <1>0. ImagesTypeOK /\ CountsAreLikes /\ Taking
    BY DEF ImagesInv
  <1>1. CASE <<k, u>> \in likes
    BY <1>1, SameLikes DEF Vote
  <1>2. CASE <<k, u>> \notin likes
    <2>1. /\ likes' = likes \cup {<<k, u>>} /\ k \in candidates
          /\ count'[k] = count[k] + 1 /\ \A l \in Keys \ {k} : count'[l] = count[l]
          /\ miscounted' = (IF Unseen(u) THEN miscounted \cup {k} ELSE miscounted)
          /\ UNCHANGED <<here, clearing, candidates, owner>>
      BY <1>0, <1>2 DEF Vote, ImagesTypeOK
    <2>2. candidates \subseteq Keys
      BY <1>0 DEF ImagesTypeOK
    <2>3. CountsAreLikes'
      <3>1. Cardinality(Likers(likes', k)) = Cardinality(Likers(likes, k)) + 1
        BY <1>2, <2>1, OneLikeMore
      <3>2. \A l \in candidates \ {k} : Likers(likes', l) = Likers(likes, l)
        BY <2>1 DEF Likers
      <3> QED
        BY <1>0, <2>1, <2>2, <3>1, <3>2 DEF CountsAreLikes, Likers
    <2>4. Taking'
      BY <1>0, <2>1 DEF Taking, Unseen
    <2> QED
      BY <2>3, <2>4 DEF LikesInv
  <1> QED
    BY <1>1, <1>2

LEMMA UnvoteLikes ==
  ASSUME ImagesInv, NEW u \in Uploaders, NEW k \in Keys, Unvote(u, k)
  PROVE  LikesInv'
  <1> USE DEF Sweeps
  <1>0. ImagesTypeOK /\ CountsAreLikes /\ Taking
    BY DEF ImagesInv
  <1>1. /\ likes' = likes \ {<<k, u>>} /\ <<k, u>> \in likes
        /\ count'[k] = Less(count[k]) /\ \A l \in Keys \ {k} : count'[l] = count[l]
        /\ miscounted' = (IF Unseen(u) THEN miscounted \cup {k} ELSE miscounted)
        /\ UNCHANGED <<here, clearing, candidates, owner>>
    BY <1>0 DEF Unvote, ImagesTypeOK
  <1>2. candidates \subseteq Keys
    BY <1>0 DEF ImagesTypeOK
  <1>3. CountsAreLikes'
    <2>1. Cardinality(Likers(likes', k)) = Less(Cardinality(Likers(likes, k)))
      <3>1. Likers(likes', k) = Likers(likes, k) \ {u}
        BY <1>1 DEF Likers
      <3> QED
        BY <1>1, <3>1, OneLikeLess
    <2>2. \A l \in candidates \ {k} : Likers(likes', l) = Likers(likes, l)
      BY <1>1 DEF Likers
    <2> QED
      BY <1>0, <1>1, <1>2, <2>1, <2>2 DEF CountsAreLikes, Likers
  <1>4. Taking'
    BY <1>0, <1>1 DEF Taking, Unseen
  <1> QED
    BY <1>3, <1>4 DEF LikesInv

LEMMA EraseLikes ==
  ASSUME ImagesInv, EraseRow
  PROVE  LikesInv'
  <1>0. ImagesTypeOK /\ CountsAreLikes /\ Taking
    BY DEF ImagesInv
  <1> PICK u : u = clearing.by
    OBVIOUS
  <1>1. /\ clearing.at = "taken" /\ u \in Uploaders
        /\ candidates' = candidates \ Owned(u) /\ candidates \subseteq Keys
        /\ likes' = {l \in likes : l[2] # u /\ l[1] \notin Owned(u)}
        /\ \A k \in Keys \ Owned(u) : count'[k] = Discounted(k)
        /\ miscounted' = miscounted \ Owned(u)
        /\ clearing'.at = "looks"
    BY <1>0 DEF EraseRow, ImagesTypeOK, Taking
  <1>2. ASSUME NEW k \in candidates \ miscounted, k \notin Owned(u)
        PROVE  count'[k] = Cardinality(Likers(likes', k))
    <2>1. /\ count[k] = Cardinality(Likers(likes, k)) /\ k \in Keys /\ owner[k] # u
          /\ <<k, u>> \in clearing.likes <=> <<k, u>> \in likes
      BY <1>0, <1>1, <1>2 DEF CountsAreLikes, Likers, Taking, Owned
    <2>2. Likers(likes', k) = Likers(likes, k) \ {u}
      <3>1. \A v \in Uploaders : <<k, v>> \in likes' <=> <<k, v>> \in likes /\ v # u
        BY <1>1, <1>2
      <3> QED
        BY <3>1 DEF Likers
    <2>3. CASE <<k, u>> \in likes
      BY <1>1, <1>2, <2>1, <2>2, <2>3, OneLikeLess DEF Discounted
    <2>4. CASE <<k, u>> \notin likes
      <3>1. Likers(likes', k) = Likers(likes, k)
        BY <2>2, <2>4 DEF Likers
      <3> QED
        BY <1>1, <1>2, <2>1, <2>4, <3>1 DEF Discounted
    <2> QED
      BY <2>3, <2>4
  <1>3. CountsAreLikes'
    BY <1>1, <1>2 DEF CountsAreLikes, Likers
  <1> QED
    BY <1>1, <1>3 DEF LikesInv, Taking

LEMMA LikesKept ==
  ASSUME ImagesInv, ImagesNext
  PROVE  LikesInv'
  <1> USE DEF Files, LikeRows, ArtistRow, Sweeps
  <1>0. ImagesTypeOK /\ Taking /\ CountsAreLikes
    BY DEF ImagesInv
  <1>1. ASSUME NEW u \in Uploaders, EraseReads(u)
        PROVE  LikesInv'
    <2>1. /\ clearing'.at = "reads" /\ clearing'.by = u /\ clearing'.likes = LikesTaken(u, likes)
          /\ u \in here /\ UNCHANGED <<candidates, owner, likes, count, miscounted, here>>
      BY <1>1 DEF EraseReads, NotClearing
    <2>2. Taking'
      BY <1>0, <2>1 DEF Taking, LikesTaken, ImagesTypeOK
    <2> QED
      BY <1>0, <2>1, <2>2 DEF LikesInv, CountsAreLikes
  <1>2. CASE EraseTakes
    <2>1. /\ clearing.at = "reads" /\ clearing'.at = "taken" /\ clearing'.by = clearing.by
          /\ clearing'.likes = clearing.likes
          /\ UNCHANGED <<candidates, owner, likes, count, miscounted, here>>
      BY <1>0, <1>2 DEF EraseTakes, ImagesTypeOK
    <2> QED
      BY <1>0, <2>1 DEF LikesInv, CountsAreLikes, Taking
  <1>3. CASE ClearLook \/ ClearDelete \/ EraseLost
    <2>1. clearing'.at \notin {"reads", "taken"}
      <3>1. ClearLook => clearing'.at = "deletes"
        BY <1>0 DEF ClearLook, ImagesTypeOK
      <3>2. ClearDelete \/ EraseLost => clearing'.at = "rest"
        BY DEF ClearDelete, EraseLost, NotClearing
      <3> QED
        BY <1>3, <3>1, <3>2
    <2> QED
      BY <1>3, <2>1, SameLikes DEF ClearLook, ClearDelete, EraseLost
  <1>4. ASSUME NEW r \in ImageRequests,
               \/ \E u \in Uploaders :
                    Store(r, u, "avatar") \/ Store(r, u, "candidate") \/ SetLink(r, u)
               \/ SetAvatar(r) \/ DeleteReplaced(r) \/ DeleteUnwritten(r) \/ Stop(r)
               \/ (upload[r].at = "avatar" /\ WriteUnheard(r))
               \/ DeleteUnheard(r) \/ ReadWinner(r) \/ Promote(r)
        PROVE  LikesInv'
    <2>1. UNCHANGED <<candidates, owner, likes, count, miscounted, here, clearing>>
      BY <1>4 DEF Store, SetLink, SetAvatar, Replace, DeleteReplaced, DeleteUnwritten, Stop,
                  WriteUnheard, DeleteUnheard, ReadWinner, Promote
    <2> QED
      BY <2>1, SameLikes
  <1>5. CASE GcList \/ GcLook \/ GcDelete \/ Enrich \/ \E k \in Keys : Age(k)
    <2>1. UNCHANGED <<candidates, owner, likes, count, miscounted, here, clearing>>
      BY <1>5 DEF GcList, GcLook, GcDelete, Enrich, Age
    <2> QED
      BY <2>1, SameLikes
  <1>6. ASSUME NEW r \in ImageRequests, WriteUnheard(r)
        PROVE  LikesInv'
    <2>1. upload[r].at \in {"avatar", "candidate"}
      BY <1>6 DEF WriteUnheard
    <2> QED
      BY <1>4, <1>6, <2>1, CandidateLikes
  <1>7. ASSUME NEW r \in ImageRequests, AddCandidate(r)
        PROVE  LikesInv'
    BY <1>7, CandidateLikes
  <1> QED
    BY <1>1, <1>2, <1>3, <1>4, <1>5, <1>6, <1>7, VoteLikes, UnvoteLikes, EraseLikes
    DEF ImagesNext, ImagesBegin, ImagesGoOn

LEMMA InitImages == ImagesInit => ImagesInv
  <1> SUFFICES ASSUME ImagesInit PROVE ImagesInv
    OBVIOUS
  <1>1. ImagesTypeOK
    <2>1. /\ stops \in 0 .. MaxStops /\ imageEvents \in 0 .. MaxImageEvents
          /\ upload \in [ImageRequests -> Uploads] /\ count \in [Keys -> Nat]
      BY RestIsIdle, ImagesAssumption DEF ImagesInit
    <2>2. /\ avatar \in [Uploaders -> used \cup {"none", "link"}]
          /\ owner \in [Keys -> Uploaders \cup {"none"}]
          /\ clearing \in [at : {"rest", "reads", "taken", "looks", "deletes"},
                           by : Uploaders \cup {"none"}, likes : SUBSET (Keys \X Uploaders),
                           keys : SUBSET Keys]
          /\ gc \in [at : {"rest", "listed", "deletes"}, keys : SUBSET Keys]
      BY DEF ImagesInit, NotClearing, NotCollecting
    <2> QED
      BY <2>1, <2>2 DEF ImagesInit, ImagesTypeOK
  <1>2. OnePlace /\ Doomed /\ Taking /\ Writing /\ Unhearing
    BY ImagesAssumption
    DEF ImagesInit, OnePlace, Doomed, Taking, Writing, Unhearing, Fresh, Rest, NotClearing, NotCollecting
  <1>3. CountsAreLikes /\ ReferencedAreStored
    BY ImagesAssumption DEF ImagesInit, CountsAreLikes, ReferencedAreStored
  <1> QED
    BY <1>1, <1>2, <1>3 DEF ImagesInv

(* Whatever uploads, likes, erasures and collections run at once, a        *)
(* candidate's count is the number of its likes, but for what an account   *)
(* liked or no longer liked while it was erased, and every avatar and      *)
(* candidate that a row refers to keeps its file, but where the answer to  *)
(* the row's commit was lost (community.rs, uploads.rs, accounts.rs,       *)
(* worker/uploads.rs).                                                     *)
THEOREM ImagesDoHold == ImagesSpec => []ImagesHold
  <1>1. ImagesInv /\ [ImagesNext]_imagesVars => ImagesInv'
    <2>1. ASSUME ImagesInv, ImagesNext
          PROVE  ImagesInv'
      BY <2>1, ImagesTypesKept, FilesKept, WritingKept, LikesKept
      DEF ImagesInv, FilesInv, LikesInv
    <2>2. ASSUME ImagesInv, UNCHANGED imagesVars
          PROVE  ImagesInv'
      BY <2>2 DEF imagesVars, ImagesInv, ImagesTypeOK, CountsAreLikes, ReferencedAreStored,
                  OnePlace, Doomed, Spent, Fresh, Taking, Writing, Unhearing, Owned
    <2> QED
      BY <2>1, <2>2
  <1>2. ImagesInv => ImagesHold
    BY DEF ImagesInv, ImagesHold
  <1> QED
    BY <1>1, <1>2, InitImages, PTL DEF ImagesSpec

===============================================================================
