---------------------------- MODULE PlaysProofs -----------------------------
(* Theorems about what becomes of a play, for every value of the constants: *)
(* about Intake, that is HistoryWalk and Polls, and about Attribution, that *)
(* is Catalog, AlbumVotes and Coordination.                                 *)
EXTENDS Intake, Attribution, FiniteSetTheorems, SequenceTheorems, WellFoundedInduction, TLAPS

(***************************************************************************)
(* First elements.                                                         *)
(***************************************************************************)
\* A set that is not empty and finite has a first element in any strict order.
LEMMA MinimalExists ==
  ASSUME NEW S, IsFiniteSet(S), S # {}, NEW R,
         \A e \in S : <<e, e>> \notin R,
         \A e, f, g \in S : <<e, f>> \in R /\ <<f, g>> \in R => <<e, g>> \in R
  PROVE  \E e \in S : \A f \in S : <<f, e>> \notin R
  <1> DEFINE before(e) == {f \in S : <<f, e>> \in R}
             T == {before(e) : e \in S}
  <1>1. T \subseteq FiniteSubsetsOf(S) /\ T # {}
    <2>1. \A e \in S : before(e) \in SUBSET S
      OBVIOUS
    <2>2. PICK e \in S : TRUE
      OBVIOUS
    <2>3. before(e) \in T
      OBVIOUS
    <2>4. T \subseteq SUBSET S
      <3> HIDE DEF before
      <3> QED
        BY <2>1
    <2> HIDE DEF T
    <2> QED
      BY <2>3, <2>4, FS_FiniteSubsetsOfFinite
  <1>2. IsWellFoundedOn(StrictSubsetOrdering(S), FiniteSubsetsOf(S))
    BY FS_StrictSubsetOrderingWellFounded
  <1>3. \E x \in T : \A y \in T : <<y, x>> \notin StrictSubsetOrdering(S)
    <2> HIDE DEF T
    <2> QED
      BY <1>1, <1>2, WFMin
  <1>4. PICK e \in S : \A f \in S : <<before(f), before(e)>> \notin StrictSubsetOrdering(S)
    <2>1. PICK x \in T : \A y \in T : <<y, x>> \notin StrictSubsetOrdering(S)
      BY <1>3
    <2>2. PICK e \in S : x = before(e)
      BY <2>1
    <2>3. \A f \in S : before(f) \in T
      OBVIOUS
    <2> HIDE DEF before, T
    <2> QED
      BY <2>1, <2>2, <2>3
  <1>5. ASSUME NEW f \in S, <<f, e>> \in R
        PROVE  FALSE
    <2>1. before(f) \subseteq before(e)
      BY <1>5
    <2>2. f \in before(e) /\ f \notin before(f)
      BY <1>5
    <2>3. before(f) \in SUBSET S /\ before(e) \in SUBSET S
      OBVIOUS
    <2> HIDE DEF before
    <2>4. <<before(f), before(e)>> \in StrictSubsetOrdering(S)
      BY <2>1, <2>2, <2>3 DEF StrictSubsetOrdering
    <2> QED
      BY <1>4, <2>4
  <1> QED
    BY <1>5

LEMMA MinIs ==
  ASSUME NEW S, S \subseteq Int, IsFiniteSet(S), S # {}
  PROVE  Min(S) \in S /\ \A x \in S : Min(S) <= x
  <1> DEFINE R == {r \in S \X S : r[1] < r[2]}
  <1>1. \E e \in S : \A f \in S : <<f, e>> \notin R
    <2>1. \A e \in S : <<e, e>> \notin R
      OBVIOUS
    <2>2. \A e, f, g \in S : <<e, f>> \in R /\ <<f, g>> \in R => <<e, g>> \in R
      OBVIOUS
    <2> HIDE DEF R
    <2> QED
      BY <2>1, <2>2, MinimalExists
  <1>2. PICK e \in S : \A f \in S : <<f, e>> \notin R
    BY <1>1
  <1>3. ASSUME NEW f \in S PROVE e <= f
    <2>1. e \in Int /\ f \in Int
      OBVIOUS
    <2>2. ~(f < e)
      BY <1>2
    <2> QED
      BY <2>1, <2>2
  <1> QED
    BY <1>3 DEF Min

(***************************************************************************)
(* HistoryWalk.                                                            *)
(***************************************************************************)
(* The inductive invariant.                                                 *)

ListenSet == [at : 1 .. MaxTime, track : Tracks, stamp : 0 .. (MaxTime + LIVE_OVERLAP)]
WalkRecords ==
  [at : {"none", "fetch", "read", "insert", "finish"}, from : Nat, to : Nat, segmentTo : Nat,
   page : Nat \ {0}, oldest : Nat, plays : SUBSET PlaySet, stored : SUBSET RowSet,
   more : BOOLEAN]
LiveRecords ==
  [at : {"none", "insert"}, time : 0 .. (MaxTime + LIVE_OVERLAP), track : Tracks \cup {0}]

HistoryTyped ==
    /\ second \in FirstSecond .. MaxTime
    /\ profile \subseteq PlaySet /\ present \subseteq PlaySet /\ fetchedPlays \subseteq PlaySet
    /\ shifted \subseteq PlaySet /\ scrobbles \subseteq RowSet
    /\ listens \subseteq ListenSet /\ afterwards \subseteq listens
    /\ scrobbling \in LiveRecords /\ walk \in WalkRecords
    /\ windowTo \in 0 .. MaxTime /\ walks \in 0 .. MaxWalks

\* Whatever is on Last.fm or stored is from a listen, and no two are of one
\* second and track.
Heard(p) == \E l \in listens : l.at = p[1] /\ l.track = p[2]
LiveRow(l) == <<l.stamp, l.track, FALSE>>
FromListens ==
    /\ \A k, l \in listens : k.at = l.at /\ k.track = l.track => k = l
    /\ \A l \in listens : l.stamp = 0 \/ l.stamp = l.at + LIVE_OVERLAP
    /\ \A p \in profile \cup present \cup walk.plays : Heard(p)
    /\ \A s \in scrobbles :
          IF s[3] THEN Heard(s) ELSE \E l \in listens : l.stamp = s[1] /\ l.track = s[2]
    /\ scrobbling.at = "insert" =>
          /\ scrobbling.time # 0
          /\ \E l \in listens : l.stamp = scrobbling.time /\ l.track = scrobbling.track

\* Stored, or taken for a live scrobble.
Covered(p) ==
    \/ Imported(p) \in scrobbles
    \/ \E s \in scrobbles : ~s[3] /\ s[2] = p[2] /\ Apart(s[1], p[1]) <= LIVE_OVERLAP

\* A margin before the end of the last import, everything is covered; and what
\* has come since the walk began is no older than the next one's margin.
Kept == (profile \ shifted) \cap {p \in PlaySet : p[2] \notin Unnamed}
EarlierCovered ==
    /\ windowTo <= second
    /\ \A p \in Kept : p[1] + REIMPORT_OVERLAP <= windowTo => Covered(p)
WalkBegan ==
    /\ walk.to <= second
    /\ walk.from = 0 \/ walk.from + REIMPORT_OVERLAP = windowTo
    /\ \A p \in profile : p \in present \/ p[1] + REIMPORT_OVERLAP > walk.to

\* What the walk is to bring is covered or still ahead of its cursor.
Due == {p \in Kept : p \in present /\ OfWindow(walk, p)}
Segment == InRange(profile, walk.from, walk.segmentTo)
Ahead(p) ==
    /\ p \in Segment /\ Newer(p, Segment) >= (walk.page - 1) * PAGE_LIMIT
    /\ walk.oldest # 0 => p[1] <= walk.oldest
InHand == IF walk.at \in {"read", "insert"} THEN walk.plays ELSE {}
GoesOn == walk.at = "fetch" \/ (walk.at \in {"read", "insert"} /\ walk.more)
WalkStands ==
    /\ \A p \in Due : Covered(p) \/ p \in InHand \/ (GoesOn /\ Ahead(p))
    /\ \A p \in fetchedPlays : OfWindow(walk, p) => Covered(p) \/ p \in InHand

\* A listen that is not among those after is stored live before the walk
\* looks, or never.
LiveFirst ==
    /\ scrobbling.at = "insert" =>
          \A l \in listens \ afterwards :
             l.stamp = scrobbling.time /\ l.track = scrobbling.track =>
                walk.at = "none" /\ \A s \in scrobbles : ~s[3]
    /\ walk.at = "insert" =>
          /\ walk.stored \subseteq scrobbles
          /\ \A l \in listens \ afterwards :
                LiveRow(l) \in StoredAround(walk.plays, LIVE_OVERLAP) => LiveRow(l) \in walk.stored

WalkInv ==
    /\ HistoryTyped /\ FromListens /\ EarlierCovered
    /\ walk.at # "none" => WalkBegan /\ WalkStands
    /\ LiveFirst /\ NoListenTwice

-----------------------------------------------------------------------------
(* What the definitions the actions are built from yield.                   *)

LEMMA PlaysFinite == IsFiniteSet(PlaySet) /\ \A S : S \subseteq PlaySet => IsFiniteSet(S)
  <1>1. 1 \in Int /\ MaxTime \in Int /\ IsFiniteSet(Tracks)
    BY WalkConstants
  <1>2. IsFiniteSet(1 .. MaxTime)
    BY <1>1, FS_Interval
  <1>3. IsFiniteSet(PlaySet)
    BY <1>1, <1>2, FS_Product DEF PlaySet
  <1> QED
    BY <1>3, FS_Subset

LEMMA PlayIs == \A p \in PlaySet : p = <<p[1], p[2]>> /\ p[1] \in Nat \ {0} /\ p[2] \in Nat
  <1> SUFFICES ASSUME NEW p \in PlaySet
               PROVE  p = <<p[1], p[2]>> /\ p[1] \in Nat \ {0} /\ p[2] \in Nat
    OBVIOUS
  <1>1. p = <<p[1], p[2]>> /\ p[1] \in 1 .. MaxTime /\ p[2] \in Tracks
    BY DEF PlaySet
  <1>2. MaxTime \in Nat /\ Tracks \subseteq Nat
    BY WalkConstants
  <1> QED
    BY <1>1, <1>2

\* Plays are in one order.
LEMMA BeforeOrders ==
  /\ \A p \in PlaySet : ~Before(p, p)
  /\ \A p, q, r \in PlaySet : Before(p, q) /\ Before(q, r) => Before(p, r)
  /\ \A p, q \in PlaySet : p = q \/ Before(p, q) \/ Before(q, p)
  <1>1. ASSUME NEW p \in PlaySet, NEW q \in PlaySet
        PROVE  p = q \/ Before(p, q) \/ Before(q, p)
    <2>1. /\ p = <<p[1], p[2]>> /\ q = <<q[1], q[2]>>
          /\ p[1] \in Nat /\ p[2] \in Nat /\ q[1] \in Nat /\ q[2] \in Nat
      BY PlayIs
    <2>2. p[1] = q[1] /\ p[2] = q[2] => p = q
      BY <2>1
    <2> QED
      BY <2>1, <2>2 DEF Before
  <1>2. \A p \in PlaySet : p[1] \in Nat /\ p[2] \in Nat
    BY PlayIs
  <1>3. \A p \in PlaySet : ~Before(p, p)
    BY <1>2 DEF Before
  <1>4. \A p, q, r \in PlaySet : Before(p, q) /\ Before(q, r) => Before(p, r)
    BY <1>2 DEF Before
  <1> QED
    BY <1>1, <1>3, <1>4

NewerOnes(p, S) == {q \in S : Before(p, q)}

LEMMA NewerCounts ==
  ASSUME NEW S, S \subseteq PlaySet, NEW p \in PlaySet
  PROVE  /\ Newer(p, S) = Cardinality(NewerOnes(p, S)) /\ Newer(p, S) \in Nat
         /\ IsFiniteSet(NewerOnes(p, S)) /\ NewerOnes(p, S) \subseteq PlaySet
         /\ p \in S => Newer(p, S) < Cardinality(S)
  <1>1. IsFiniteSet(S) /\ NewerOnes(p, S) \in SUBSET S
    BY PlaysFinite DEF NewerOnes
  <1>2. IsFiniteSet(NewerOnes(p, S)) /\ Cardinality(NewerOnes(p, S)) <= Cardinality(S)
    BY <1>1, FS_Subset
  <1>3. Cardinality(NewerOnes(p, S)) \in Nat /\ Cardinality(S) \in Nat
    BY <1>1, <1>2, FS_CardinalityType
  <1>4. p \in S => Cardinality(NewerOnes(p, S)) # Cardinality(S)
    BY <1>1, FS_Subset, BeforeOrders DEF NewerOnes
  <1> QED
    BY <1>1, <1>2, <1>3, <1>4 DEF Newer, NewerOnes

LEMMA NewerGrows ==
  ASSUME NEW S, NEW T, S \subseteq T, T \subseteq PlaySet, NEW p \in PlaySet
  PROVE  Newer(p, S) <= Newer(p, T)
  <1>1. NewerOnes(p, S) \in SUBSET NewerOnes(p, T) /\ S \subseteq PlaySet
    BY DEF NewerOnes
  <1>2. IsFiniteSet(NewerOnes(p, T)) /\ Newer(p, T) = Cardinality(NewerOnes(p, T))
    BY NewerCounts
  <1>3. Newer(p, S) = Cardinality(NewerOnes(p, S))
    BY <1>1, NewerCounts
  <1>4. Cardinality(NewerOnes(p, S)) <= Cardinality(NewerOnes(p, T))
    BY <1>1, <1>2, FS_Subset
  <1> QED
    BY <1>2, <1>3, <1>4

\* The more are newer, the older.
LEMMA MoreNewer ==
  ASSUME NEW S, S \subseteq PlaySet, NEW p \in S, NEW q \in S, Newer(q, S) < Newer(p, S)
  PROVE  Before(p, q)
  <1>1. Newer(q, S) \in Nat /\ Newer(p, S) \in Nat
    BY NewerCounts
  <1>2. ASSUME Before(q, p) PROVE FALSE
    <2>1. NewerOnes(p, S) \in SUBSET NewerOnes(q, S)
      BY <1>2, BeforeOrders DEF NewerOnes
    <2>2. /\ Newer(p, S) = Cardinality(NewerOnes(p, S))
          /\ Newer(q, S) = Cardinality(NewerOnes(q, S)) /\ IsFiniteSet(NewerOnes(q, S))
      BY NewerCounts
    <2>3. Cardinality(NewerOnes(p, S)) <= Cardinality(NewerOnes(q, S))
      BY <2>1, <2>2, FS_Subset
    <2> QED
      BY <1>1, <2>2, <2>3
  <1>3. p # q
    BY <1>1
  <1> QED
    BY <1>2, <1>3, BeforeOrders

LEMMA OldestExists ==
  ASSUME NEW S, S \subseteq PlaySet, S # {}
  PROVE  /\ \E p \in S : \A q \in S : ~Before(q, p)
         /\ \E p \in S : \A q \in S : ~Before(p, q)
  <1> DEFINE R == {r \in S \X S : Before(r[1], r[2])}
             Q == {r \in S \X S : Before(r[2], r[1])}
  <1>1. IsFiniteSet(S)
    BY PlaysFinite
  <1>2. /\ \A e \in S : <<e, e>> \notin R
        /\ \A e, f, g \in S : <<e, f>> \in R /\ <<f, g>> \in R => <<e, g>> \in R
    BY BeforeOrders
  <1>3. /\ \A e \in S : <<e, e>> \notin Q
        /\ \A e, f, g \in S : <<e, f>> \in Q /\ <<f, g>> \in Q => <<e, g>> \in Q
    BY BeforeOrders
  <1>4. /\ \A e, f \in S : <<f, e>> \notin R => ~Before(f, e)
        /\ \A e, f \in S : <<f, e>> \notin Q => ~Before(e, f)
    OBVIOUS
  <1> HIDE DEF R, Q
  <1>5. \E p \in S : \A q \in S : <<q, p>> \notin R
    BY <1>1, <1>2, MinimalExists
  <1>6. \E p \in S : \A q \in S : <<q, p>> \notin Q
    BY <1>1, <1>3, MinimalExists
  <1> QED
    BY <1>4, <1>5, <1>6

\* Places have no gaps: an empty page is behind the last play.
LEMMA NoGap ==
  ASSUME NEW S, S \subseteq PlaySet, NEW k \in Nat, NEW n \in Nat \ {0},
         \A p \in S : ~(k <= Newer(p, S) /\ Newer(p, S) < k + n)
  PROVE  \A p \in S : Newer(p, S) < k
  <1> DEFINE X == {p \in S : ~(Newer(p, S) < k)}
  <1>1. ASSUME X # {} PROVE FALSE
    <2>1. PICK p \in X : \A q \in X : ~Before(p, q)
      BY <1>1, OldestExists
    <2> DEFINE N == NewerOnes(p, S)
    <2>2. /\ p \in S /\ Newer(p, S) = Cardinality(N) /\ Newer(p, S) \in Nat
          /\ IsFiniteSet(N) /\ N \subseteq PlaySet
      BY NewerCounts
    <2>3. Cardinality(N) >= k + n
      BY <2>2
    <2>4. N # {}
      <3>1. Cardinality(N) # 0
        BY <2>3
      <3> QED
        BY <3>1, FS_EmptySet
    <2>5. PICK q \in N : \A r \in N : ~Before(r, q)
      BY <2>2, <2>4, OldestExists
    <2>6. q \in S /\ q \in PlaySet /\ q \notin X
      BY <2>1, <2>2 DEF NewerOnes
    <2>7. Newer(q, S) < k /\ Newer(q, S) \in Nat
      BY <2>6, NewerCounts
    <2>8. N \in SUBSET (NewerOnes(q, S) \cup {q})
      BY <2>2, <2>5, BeforeOrders DEF NewerOnes
    <2>9. /\ IsFiniteSet(NewerOnes(q, S) \cup {q})
          /\ Cardinality(NewerOnes(q, S) \cup {q}) <= Newer(q, S) + 1
      <3>1. IsFiniteSet(NewerOnes(q, S)) /\ Newer(q, S) = Cardinality(NewerOnes(q, S))
        BY <2>6, NewerCounts
      <3>2. /\ IsFiniteSet(NewerOnes(q, S) \cup {q})
            /\ \/ Cardinality(NewerOnes(q, S) \cup {q}) = Cardinality(NewerOnes(q, S))
               \/ Cardinality(NewerOnes(q, S) \cup {q}) = Cardinality(NewerOnes(q, S)) + 1
        BY <3>1, FS_AddElement
      <3> QED
        BY <2>7, <3>1, <3>2
    <2>10. Cardinality(N) <= Cardinality(NewerOnes(q, S) \cup {q})
      BY <2>8, <2>9, FS_Subset
    <2>11. Cardinality(NewerOnes(q, S) \cup {q}) \in Nat
      BY <2>9, FS_CardinalityType
    <2> HIDE DEF N
    <2> QED
      BY <2>2, <2>3, <2>7, <2>9, <2>10, <2>11
  <1> QED
    BY <1>1

\* Pages, by their places.
LEMMA Quotients ==
  ASSUME NEW x \in Nat, NEW n \in Nat
  PROVE  x \div PAGE_LIMIT = n <=> n * PAGE_LIMIT <= x /\ x < n * PAGE_LIMIT + PAGE_LIMIT
  BY WalkConstants

LEMMA PlacesOf ==
  ASSUME NEW n \in Nat \ {0}
  PROVE  /\ (n - 1) * PAGE_LIMIT \in Nat
         /\ (n - 1) * PAGE_LIMIT + PAGE_LIMIT = n * PAGE_LIMIT
         /\ (n + 1 - 1) * PAGE_LIMIT = n * PAGE_LIMIT
  BY WalkConstants

LEMMA PageIs ==
  ASSUME NEW S, S \subseteq PlaySet, NEW n \in Nat \ {0}, NEW p \in S
  PROVE  p \in PageOfPlays(S, n)
            <=> (n - 1) * PAGE_LIMIT <= Newer(p, S) /\ Newer(p, S) < n * PAGE_LIMIT
  <1>1. Newer(p, S) \in Nat /\ n - 1 \in Nat
    <2>1. p \in PlaySet
      OBVIOUS
    <2>2. Newer(p, S) \in Nat
      BY <2>1, NewerCounts
    <2> QED
      BY <2>2
  <1>2. /\ Newer(p, S) \div PAGE_LIMIT = n - 1
           <=> (n - 1) * PAGE_LIMIT <= Newer(p, S)
               /\ Newer(p, S) < (n - 1) * PAGE_LIMIT + PAGE_LIMIT
    BY <1>1, Quotients
  <1>3. p \in PageOfPlays(S, n) <=> Newer(p, S) \div PAGE_LIMIT = n - 1
    BY DEF PageOfPlays
  <1> QED
    BY <1>2, <1>3, PlacesOf

LEMMA LastPage ==
  ASSUME NEW S, S \subseteq PlaySet, NEW n \in Nat \ {0}, n >= TotalPages(S)
  PROVE  Cardinality(S) <= n * PAGE_LIMIT
  <1> DEFINE c == Cardinality(S)
             t == (c + PAGE_LIMIT - 1) \div PAGE_LIMIT
  <1>1. c \in Nat
    BY PlaysFinite, FS_CardinalityType
  <1> HIDE DEF c
  <1>2. t \in Nat /\ n >= t
    BY <1>1, WalkConstants DEF TotalPages, c
  <1>3. c + PAGE_LIMIT - 1 \in Nat /\ PAGE_LIMIT \in Nat \ {0}
    BY <1>1, WalkConstants
  <1>4. c + PAGE_LIMIT - 1 < t * PAGE_LIMIT + PAGE_LIMIT
    BY <1>2, <1>3, Quotients
  <1> HIDE DEF t
  <1>5. t * PAGE_LIMIT <= n * PAGE_LIMIT
    BY <1>2, <1>3
  <1>6. t * PAGE_LIMIT \in Nat /\ n * PAGE_LIMIT \in Nat
    BY <1>2, <1>3
  <1> QED
    BY <1>1, <1>3, <1>4, <1>5, <1>6 DEF c

LEMMA EarliestIs ==
  ASSUME NEW S, S # {}, S \subseteq Nat, IsFiniteSet(S)
  PROVE  Earliest(S) \in S /\ \A x \in S : Earliest(S) <= x
  <1> DEFINE R == {r \in S \X S : r[1] < r[2]}
  <1>1. /\ \A e \in S : <<e, e>> \notin R
        /\ \A e, f, g \in S : <<e, f>> \in R /\ <<f, g>> \in R => <<e, g>> \in R
    OBVIOUS
  <1>2. \E e \in S : \A f \in S : <<f, e>> \notin R
    <2> HIDE DEF R
    <2> QED
      BY <1>1, MinimalExists
  <1>3. PICK e \in S : \A f \in S : <<f, e>> \notin R
    BY <1>2
  <1>4. ASSUME NEW f \in S PROVE e <= f
    <2>1. e \in Nat /\ f \in Nat
      BY <1>3
    <2>2. <<f, e>> \notin R
      BY <1>3
    <2>3. ~(f < e)
      BY <1>3, <2>2
    <2> QED
      BY <2>1, <2>3
  <1> QED
    BY <1>4 DEF Earliest

LEMMA AtOnceIs ==
  ASSUME NEW P, P \subseteq PlaySet, P # {}
  PROVE  /\ AtOnce(P) \in Nat \ {0} /\ \E p \in P : AtOnce(P) = p[1]
         /\ \A p \in P : AtOnce(P) <= p[1]
  <1> DEFINE T == {p[1] : p \in P}
  <1>1. T # {} /\ T \subseteq Nat \ {0} /\ T \subseteq 1 .. MaxTime
    BY DEF PlaySet
  <1>2. IsFiniteSet(T)
    <2>1. 1 \in Int /\ MaxTime \in Int /\ T \in SUBSET (1 .. MaxTime)
      BY <1>1, WalkConstants
    <2>2. IsFiniteSet(1 .. MaxTime)
      BY <2>1, FS_Interval
    <2> QED
      BY <2>1, <2>2, FS_Subset
  <1>3. AtOnce(P) = Earliest(T)
    BY DEF AtOnce
  <1>4. \A p \in P : p[1] \in T
    OBVIOUS
  <1>5. \A x \in T : \E p \in P : x = p[1]
    OBVIOUS
  <1> HIDE DEF T
  <1>6. AtOnce(P) \in T /\ \A x \in T : AtOnce(P) <= x
    BY <1>1, <1>2, <1>3, EarliestIs
  <1> QED
    BY <1>1, <1>4, <1>5, <1>6

\* The cursor after a page: nothing is left out between two segments.
Advanced(w, P, pages, v) ==
    /\ v \in WalkRecords /\ v.from = w.from /\ v.to = w.to
    /\ ~(P = {} \/ w.page >= pages) =>
          /\ v.more = TRUE
          /\ \E oldest \in Nat \ {0} :
                /\ oldest = w.oldest \/ oldest = AtOnce(P)
                /\ \/ v.segmentTo = oldest + 1 /\ v.page = 1 /\ v.oldest = 0
                   \/ v.segmentTo = w.segmentTo /\ v.page = w.page + 1 /\ v.oldest = oldest

LEMMA AdvanceIs ==
  ASSUME NEW w \in WalkRecords, NEW P \in SUBSET PlaySet, NEW pages
  PROVE  Advanced(w, P, pages, AdvanceCursor(w, P, pages))
  <1> DEFINE v == AdvanceCursor(w, P, pages)
  <1> SUFFICES Advanced(w, P, pages, v)
    OBVIOUS
  <1> DEFINE oldest == IF w.oldest = 0 THEN AtOnce(P)
                       ELSE IF P = {} THEN w.oldest ELSE Earliest({w.oldest, AtOnce(P)})
  <1>1. CASE P = {} \/ w.page >= pages
    <2>1. v = [w EXCEPT !.more = FALSE]
      BY <1>1 DEF AdvanceCursor
    <2> HIDE DEF v
    <2> QED
      BY <1>1, <2>1 DEF WalkRecords, Advanced
  <1>2. CASE ~(P = {} \/ w.page >= pages)
    <2>1. AtOnce(P) \in Nat \ {0}
      BY <1>2, AtOnceIs
    <2>2. w.oldest \in Nat /\ w.segmentTo \in Nat /\ w.page \in Nat \ {0}
      BY DEF WalkRecords
    <2>3. oldest \in Nat \ {0} /\ (oldest = w.oldest \/ oldest = AtOnce(P))
      <3>1. CASE w.oldest = 0
        BY <2>1, <3>1
      <3>2. CASE w.oldest # 0
        <4>1. IsFiniteSet({w.oldest, AtOnce(P)})
          <5>1. {w.oldest, AtOnce(P)} = {w.oldest} \cup {AtOnce(P)}
            OBVIOUS
          <5>2. IsFiniteSet({w.oldest})
            BY FS_Singleton
          <5>3. IsFiniteSet({w.oldest} \cup {AtOnce(P)})
            BY <5>2, FS_AddElement
          <5> QED
            BY <5>1, <5>3
        <4>2. Earliest({w.oldest, AtOnce(P)}) \in {w.oldest, AtOnce(P)}
          BY <2>1, <2>2, <4>1, EarliestIs
        <4> QED
          BY <1>2, <2>1, <2>2, <3>2, <4>2
      <3> QED
        BY <3>1, <3>2
    <2>4. \/ v = [w EXCEPT !.segmentTo = oldest + 1, !.page = 1, !.oldest = 0, !.more = TRUE]
          \/ v = [w EXCEPT !.page = w.page + 1, !.oldest = oldest, !.more = TRUE]
      BY <1>2 DEF AdvanceCursor
    <2> HIDE DEF oldest, v
    <2>5. CASE v = [w EXCEPT !.segmentTo = oldest + 1, !.page = 1, !.oldest = 0, !.more = TRUE]
      <3> DEFINE u == [w EXCEPT !.segmentTo = oldest + 1]
                 x == [u EXCEPT !.page = 1]
      <3>0. oldest + 1 \in Nat /\ 1 \in Nat \ {0} /\ 0 \in Nat
        BY <2>3
      <3>3. u \in WalkRecords
        BY <3>0 DEF WalkRecords
      <3>4. x \in WalkRecords
        BY <3>0, <3>3 DEF WalkRecords
      <3>5. v = [x EXCEPT !.oldest = 0, !.more = TRUE]
        BY <2>5
      <3>1. v \in WalkRecords
        <4> HIDE DEF x
        <4> QED
          BY <3>0, <3>4, <3>5 DEF WalkRecords
      <3>2. /\ v.at = w.at /\ v.from = w.from /\ v.to = w.to
            /\ v.plays = w.plays /\ v.stored = w.stored
            /\ v.segmentTo = oldest + 1 /\ v.page = 1 /\ v.oldest = 0 /\ v.more = TRUE
        BY <2>5 DEF WalkRecords
      <3> QED
        BY <1>2, <2>3, <3>1, <3>2 DEF Advanced
    <2>6. CASE v = [w EXCEPT !.page = w.page + 1, !.oldest = oldest, !.more = TRUE]
      <3> DEFINE x == [w EXCEPT !.page = w.page + 1]
      <3>0. w.page + 1 \in Nat \ {0}
        BY <2>2
      <3>3. x \in WalkRecords
        BY <3>0 DEF WalkRecords
      <3>4. v = [x EXCEPT !.oldest = oldest, !.more = TRUE]
        BY <2>6
      <3>1. v \in WalkRecords
        <4> HIDE DEF x
        <4> QED
          BY <2>3, <3>3, <3>4 DEF WalkRecords
      <3>2. /\ v.at = w.at /\ v.from = w.from /\ v.to = w.to
            /\ v.plays = w.plays /\ v.stored = w.stored
            /\ v.segmentTo = w.segmentTo /\ v.page = w.page + 1 /\ v.oldest = oldest
            /\ v.more = TRUE
        BY <2>6 DEF WalkRecords
      <3> QED
        BY <1>2, <2>3, <3>1, <3>2 DEF Advanced
    <2> QED
      BY <2>4, <2>5, <2>6
  <1> QED
    BY <1>1, <1>2

-----------------------------------------------------------------------------
(* Every step keeps the invariant.                                          *)

LEMMA StampsDiffer ==
  ASSUME HistoryTyped, FromListens
  PROVE  \A k, l \in listens : k.stamp = l.stamp /\ k.stamp # 0 /\ k.track = l.track => k = l
  <1> SUFFICES ASSUME NEW k \in listens, NEW l \in listens,
                      k.stamp = l.stamp, k.stamp # 0, k.track = l.track
               PROVE  k.at = l.at
    BY DEF FromListens
  <1>1. k.at \in Nat /\ l.at \in Nat /\ LIVE_OVERLAP \in Nat
    <2>1. k \in ListenSet /\ l \in ListenSet
      BY DEF HistoryTyped
    <2>2. k.at \in 1 .. MaxTime /\ l.at \in 1 .. MaxTime
      BY <2>1 DEF ListenSet
    <2> QED
      BY <2>2, WalkConstants
  <1>2. k.stamp = k.at + LIVE_OVERLAP /\ l.stamp = l.at + LIVE_OVERLAP
    BY DEF FromListens
  <1>3. k.at + LIVE_OVERLAP = l.at + LIVE_OVERLAP
    BY <1>2
  <1> HIDE DEF FromListens, HistoryTyped
  <1> QED
    BY <1>1, <1>3

\* A live row is of a listen that has that stamp.
LEMMA LiveRowOf ==
  ASSUME HistoryTyped, FromListens, NEW l, LiveRow(l) \in scrobbles
  PROVE  l.stamp # 0 /\ \E k \in listens : k.stamp = l.stamp /\ k.track = l.track
  <1> DEFINE s == LiveRow(l)
  <1>1. s \in RowSet /\ s[1] = l.stamp /\ s[2] = l.track /\ s[3] = FALSE
    BY DEF HistoryTyped, LiveRow
  <1>2. s[1] # 0
    BY <1>1, WalkConstants DEF RowSet
  <1> HIDE DEF s
  <1>3. \E k \in listens : k.stamp = s[1] /\ k.track = s[2]
    BY <1>1 DEF FromListens, s
  <1> QED
    BY <1>1, <1>2, <1>3

LEMMA CoveredStays ==
  ASSUME scrobbles \subseteq scrobbles', NEW p
  PROVE  Covered(p) => Covered(p)'
  BY DEF Covered, Imported

LEMMA InitWalks == WalkInit => WalkInv
  <1> SUFFICES ASSUME WalkInit
               PROVE  WalkInv
    OBVIOUS
  <1> USE DEF WalkInit, NoWalk, NoLive
  <1>1. HistoryTyped
    BY WalkConstants DEF HistoryTyped, LiveRecords, WalkRecords
  <1>2. FromListens
    BY DEF FromListens
  <1>3. EarlierCovered
    BY WalkConstants DEF EarlierCovered, Kept
  <1>4. LiveFirst /\ NoListenTwice
    BY DEF LiveFirst, NoListenTwice
  <1> QED
    BY <1>1, <1>2, <1>3, <1>4 DEF WalkInv

LEMMA HearKeeps ==
  ASSUME WalkInv, NEW h \in Hearable, HearTrack(h[1], h[2])
  PROVE  WalkInv'
  <1> DEFINE t == h[1]
             track == h[2]
  <1>1. /\ HistoryTyped /\ FromListens /\ EarlierCovered /\ LiveFirst /\ NoListenTwice
        /\ walk.at # "none" => WalkBegan /\ WalkStands
    BY DEF WalkInv
  <1>2. h \in PlaySet /\ h = <<t, track>> /\ t \in 1 .. MaxTime /\ track \in Tracks
    BY WalkConstants DEF PlaySet
  <1>3. /\ t > second - REIMPORT_OVERLAP /\ \A l \in listens : <<l.at, l.track>> # <<t, track>>
        /\ UNCHANGED <<second, scrobbles, scrobbling, walk, windowTo, walks,
                       present, fetchedPlays, shifted, afterwards>>
    BY DEF HearTrack
  <1>4. PICK stamp \in {0, t + LIVE_OVERLAP} :
          /\ listens' = listens \cup {[at |-> t, track |-> track, stamp |-> stamp]}
          /\ profile' = profile \/ profile' = profile \cup {<<t, track>>}
    BY DEF HearTrack
  <1> DEFINE heard == [at |-> t, track |-> track, stamp |-> stamp]
  <1>5. /\ second \in Nat /\ REIMPORT_OVERLAP \in Nat /\ LIVE_OVERLAP \in Nat /\ MaxTime \in Nat
        /\ t + REIMPORT_OVERLAP > second
    BY <1>1, <1>2, <1>3, WalkConstants DEF HistoryTyped
  <1>6. heard \in ListenSet /\ heard.at = t /\ heard.track = track /\ heard.stamp = stamp
    BY <1>2, <1>4, <1>5 DEF ListenSet
  <1>7. listens' = listens \cup {heard} /\ heard \in listens'
    BY <1>4
  <1>8. profile \subseteq profile' /\ profile' \subseteq profile \cup {h}
    BY <1>2, <1>4
  <1>9. ~Heard(h)
    BY <1>2, <1>3 DEF Heard
  <1> HIDE DEF heard, t, track
  <1>10. HistoryTyped'
    BY <1>1, <1>2, <1>3, <1>6, <1>7, <1>8 DEF HistoryTyped
  <1>11. FromListens'
    <2>1. \A p : Heard(p) => Heard(p)'
      BY <1>7 DEF Heard
    <2>2. Heard(h)'
      BY <1>2, <1>6, <1>7 DEF Heard, t, track
    <2>3. \A k, l \in listens' : k.at = l.at /\ k.track = l.track => k = l
      BY <1>1, <1>3, <1>6, <1>7 DEF FromListens
    <2>4. \A l \in listens' : l.stamp = 0 \/ l.stamp = l.at + LIVE_OVERLAP
      BY <1>1, <1>4, <1>6, <1>7 DEF FromListens
    <2>5. \A p \in profile' \cup present' \cup walk'.plays : Heard(p)'
      BY <1>1, <1>3, <1>8, <2>1, <2>2 DEF FromListens
    <2>6. \A s \in scrobbles' :
             IF s[3] THEN Heard(s)' ELSE \E l \in listens' : l.stamp = s[1] /\ l.track = s[2]
      BY <1>1, <1>3, <1>7, <2>1 DEF FromListens
    <2>7. scrobbling'.at = "insert" =>
             /\ scrobbling'.time # 0
             /\ \E l \in listens' : l.stamp = scrobbling'.time /\ l.track = scrobbling'.track
      BY <1>1, <1>3, <1>7 DEF FromListens
    <2> QED
      BY <2>3, <2>4, <2>5, <2>6, <2>7 DEF FromListens
  <1>12. \A p \in Kept' : p \in Kept \/ p = h
    BY <1>3, <1>8 DEF Kept
  <1>13. \A p : Covered(p)' <=> Covered(p)
    BY <1>3 DEF Covered
  <1>14. EarlierCovered'
    <2>1. windowTo <= second /\ windowTo \in Nat
      BY <1>1 DEF EarlierCovered, HistoryTyped
    <2>2. ~(h[1] + REIMPORT_OVERLAP <= windowTo)
      BY <1>2, <1>5, <2>1 DEF t
    <2> QED
      BY <1>1, <1>3, <1>12, <1>13, <2>1, <2>2 DEF EarlierCovered
  <1>15. ASSUME walk'.at # "none" PROVE WalkBegan' /\ WalkStands'
    <2>1. WalkBegan /\ WalkStands
      BY <1>1, <1>3, <1>15
    <2>2. walk.to <= second /\ walk.to \in Nat
      BY <1>1, <2>1 DEF WalkBegan, HistoryTyped, WalkRecords
    <2>3. h[1] + REIMPORT_OVERLAP > walk.to
      BY <1>2, <1>5, <2>2 DEF t
    <2>4. WalkBegan'
      BY <1>3, <1>8, <2>1, <2>3 DEF WalkBegan
    <2>5. h \notin present
      BY <1>1, <1>9 DEF FromListens
    <2>6. Due' \subseteq Due
      BY <1>3, <1>12, <2>5 DEF Due, OfWindow
    <2>7. Segment \subseteq Segment' /\ Segment' \subseteq PlaySet
      BY <1>3, <1>8, <1>10 DEF Segment, InRange, HistoryTyped
    <2>8. ASSUME NEW p, Ahead(p) PROVE Ahead(p)'
      <3>1. p \in Segment /\ p \in PlaySet /\ Newer(p, Segment) >= (walk.page - 1) * PAGE_LIMIT
        BY <2>7, <2>8 DEF Ahead
      <3>2. Newer(p, Segment) <= Newer(p, Segment')
        BY <2>7, <3>1, NewerGrows
      <3>3. Newer(p, Segment) \in Nat /\ Newer(p, Segment') \in Nat
        BY <2>7, <3>1, NewerCounts
      <3>4. walk.page \in Nat \ {0}
        BY <1>1 DEF HistoryTyped, WalkRecords
      <3>5. (walk.page - 1) * PAGE_LIMIT \in Nat
        BY <3>4, PlacesOf
      <3>6. Newer(p, Segment') >= (walk.page - 1) * PAGE_LIMIT
        BY <3>1, <3>2, <3>3, <3>5
      <3> QED
        BY <1>3, <2>7, <2>8, <3>1, <3>6 DEF Ahead
    <2>9. InHand' = InHand /\ (GoesOn' <=> GoesOn)
      BY <1>3 DEF InHand, GoesOn
    <2>10. WalkStands'
      BY <1>3, <1>13, <2>1, <2>6, <2>8, <2>9 DEF WalkStands, OfWindow
    <2> QED
      BY <2>4, <2>10
  <1>19. \A l \in listens : l.at \in Nat
    <2>1. \A l \in listens : l.at \in 1 .. MaxTime
      BY <1>1 DEF HistoryTyped, ListenSet
    <2> QED
      BY <2>1
  <1>20. /\ t \in Nat /\ LIVE_OVERLAP \in Nat
         /\ \A l \in listens : l.stamp = 0 \/ l.stamp = l.at + LIVE_OVERLAP
    BY <1>1, <1>2, <1>5 DEF FromListens
  <1>16. LiveRow(heard) \notin scrobbles
    <2>1. SUFFICES ASSUME LiveRow(heard) \in scrobbles PROVE FALSE
      OBVIOUS
    <2>2. PICK k \in listens : k.stamp = stamp /\ k.track = track
      BY <1>1, <1>6, <2>1, LiveRowOf
    <2>3. stamp # 0
      BY <1>1, <1>6, <2>1, LiveRowOf
    <2>4. k.at = t
      BY <1>1, <1>4, <2>2, <2>3, <1>19, <1>20
    <2> QED
      BY <1>3, <2>2, <2>4
  <1>17. LiveFirst'
    <2>1. ASSUME scrobbling.at = "insert", heard.stamp = scrobbling.time,
                 heard.track = scrobbling.track
          PROVE  FALSE
      <3>1. PICK k \in listens : k.stamp = scrobbling.time /\ k.track = scrobbling.track
        BY <1>1, <2>1 DEF FromListens
      <3>2. scrobbling.time # 0
        BY <1>1, <2>1 DEF FromListens
      <3>3. k.at = t
        BY <1>4, <1>6, <1>19, <1>20, <2>1, <3>1, <3>2
      <3> QED
        BY <1>3, <1>6, <2>1, <3>1, <3>3
    <2>2. walk.at = "insert" => LiveRow(heard) \notin StoredAround(walk.plays, LIVE_OVERLAP)
      BY <1>16 DEF StoredAround
    <2> QED
      BY <1>1, <1>3, <1>7, <2>1, <2>2 DEF LiveFirst, StoredAround
  <1>18. NoListenTwice'
    BY <1>1, <1>3, <1>6, <1>7, <1>16 DEF NoListenTwice, LiveRow
  <1> QED
    BY <1>10, <1>11, <1>14, <1>15, <1>17, <1>18 DEF WalkInv

LEMMA DeleteKeeps ==
  ASSUME WalkInv, NEW d \in profile, DeletePlay(d)
  PROVE  WalkInv'
  <1> DEFINE range == InRange(profile', walk.from, walk.segmentTo)
             behind == {q \in range : Newer(q, range) < (walk.page - 1) * PAGE_LIMIT}
  <1>1. /\ HistoryTyped /\ FromListens /\ EarlierCovered /\ LiveFirst /\ NoListenTwice
        /\ walk.at = "fetch" /\ WalkBegan /\ WalkStands
    BY DEF WalkInv, DeletePlay
  <1>2. /\ profile' = profile \ {d} /\ shifted' = shifted \cup (behind \ fetchedPlays)
        /\ UNCHANGED <<second, scrobbles, listens, scrobbling, walk, windowTo, walks,
                       present, fetchedPlays, afterwards>>
    BY DEF DeletePlay
  <1>3. range = Segment'
    BY <1>2 DEF Segment
  <1>4. Segment' \subseteq PlaySet /\ behind \subseteq PlaySet
    BY <1>1, <1>2 DEF HistoryTyped, InRange, Segment
  <1> HIDE DEF range
  <1>5. HistoryTyped'
    BY <1>1, <1>2, <1>4 DEF HistoryTyped
  <1>6. FromListens'
    BY <1>1, <1>2 DEF FromListens, Heard
  <1>7. Kept' \subseteq Kept
    BY <1>2 DEF Kept
  <1>8. \A p : Covered(p)' <=> Covered(p)
    BY <1>2 DEF Covered
  <1>9. EarlierCovered'
    BY <1>1, <1>2, <1>7, <1>8 DEF EarlierCovered
  <1>10. WalkBegan'
    BY <1>1, <1>2 DEF WalkBegan
  <1>11. WalkStands'
    <2>1. Due' \subseteq Due
      BY <1>2, <1>7 DEF Due, OfWindow
    <2>2. InHand = {} /\ InHand' = {} /\ GoesOn'
      BY <1>1, <1>2 DEF InHand, GoesOn
    <2>3. ASSUME NEW p \in Due' PROVE Covered(p) \/ Ahead(p)'
      <3>1. p \in Due /\ p \in profile' /\ p \notin shifted' /\ p \in PlaySet
        BY <2>1 DEF Due, Kept
      <3>2. Covered(p) \/ Ahead(p)
        BY <1>1, <2>2, <3>1 DEF WalkStands
      <3>3. CASE Ahead(p) /\ p \notin behind
        <4>1. p \in Segment'
          BY <1>2, <3>1, <3>3 DEF Ahead, Segment, InRange
        <4>2. Newer(p, Segment') \in Nat /\ (walk.page - 1) * PAGE_LIMIT \in Nat
          <5>1. walk.page \in Nat \ {0}
            BY <1>1 DEF HistoryTyped, WalkRecords
          <5> QED
            BY <1>4, <3>1, <5>1, NewerCounts, PlacesOf
        <4>3. Newer(p, Segment') >= (walk.page - 1) * PAGE_LIMIT
          BY <1>3, <3>3, <4>1, <4>2
        <4> QED
          BY <1>2, <3>3, <4>1, <4>3 DEF Ahead
      <3>4. CASE p \in behind
        <4>1. p \in fetchedPlays
          BY <1>2, <3>1, <3>4
        <4>2. OfWindow(walk, p)
          BY <3>1 DEF Due
        <4> QED
          BY <1>1, <2>2, <4>1, <4>2 DEF WalkStands
      <3> QED
        BY <3>2, <3>3, <3>4
    <2>4. \A p \in fetchedPlays' : OfWindow(walk', p) => Covered(p)
      BY <1>1, <1>2, <2>2 DEF WalkStands
    <2> QED
      BY <1>2, <1>8, <2>2, <2>3, <2>4 DEF WalkStands
  <1>12. LiveFirst' /\ NoListenTwice'
    BY <1>1, <1>2 DEF LiveFirst, NoListenTwice, StoredAround
  <1> QED
    BY <1>5, <1>6, <1>9, <1>10, <1>11, <1>12 DEF WalkInv

LEMMA TickKeeps ==
  ASSUME WalkInv, Tick
  PROVE  WalkInv'
  <1>1. /\ HistoryTyped /\ FromListens /\ EarlierCovered /\ LiveFirst /\ NoListenTwice
        /\ walk.at # "none" => WalkBegan /\ WalkStands
    BY DEF WalkInv
  <1>2. /\ second < MaxTime /\ second' = second + 1
        /\ UNCHANGED <<profile, scrobbles, listens, scrobbling, walk, windowTo, walks,
                       present, fetchedPlays, shifted, afterwards>>
    BY DEF Tick
  <1>3. second \in FirstSecond .. MaxTime /\ FirstSecond \in Nat /\ MaxTime \in Nat
    BY <1>1, WalkConstants DEF HistoryTyped
  <1>4. second \in Nat /\ second' \in FirstSecond .. MaxTime
    BY <1>2, <1>3
  <1>5. HistoryTyped'
    BY <1>1, <1>2, <1>4 DEF HistoryTyped
  <1>6. FromListens' /\ LiveFirst' /\ NoListenTwice'
    BY <1>1, <1>2 DEF FromListens, Heard, LiveFirst, NoListenTwice, StoredAround
  <1>7. \A p : Covered(p)' <=> Covered(p)
    BY <1>2 DEF Covered
  <1>8. EarlierCovered'
    <2>1. windowTo <= second /\ windowTo \in Nat
      BY <1>1 DEF EarlierCovered, HistoryTyped
    <2>2. windowTo' <= second'
      BY <1>2, <1>4, <2>1
    <2> QED
      BY <1>1, <1>2, <1>7, <2>2 DEF EarlierCovered, Kept
  <1>9. ASSUME walk'.at # "none" PROVE WalkBegan' /\ WalkStands'
    <2>1. WalkBegan /\ WalkStands
      BY <1>1, <1>2, <1>9
    <2>2. walk.to <= second /\ walk.to \in Nat
      BY <1>1, <2>1 DEF WalkBegan, HistoryTyped, WalkRecords
    <2>3. walk'.to <= second'
      BY <1>2, <1>4, <2>2
    <2>4. WalkBegan'
      BY <1>2, <2>1, <2>3 DEF WalkBegan
    <2>5. Due' = Due /\ InHand' = InHand /\ (GoesOn' <=> GoesOn) /\ \A p : Ahead(p)' <=> Ahead(p)
      BY <1>2 DEF Due, Kept, InHand, GoesOn, Ahead, Segment
    <2>6. WalkStands'
      BY <1>2, <1>7, <2>1, <2>5 DEF WalkStands
    <2> QED
      BY <2>4, <2>6
  <1> QED
    BY <1>5, <1>6, <1>8, <1>9 DEF WalkInv

LEMMA CheckKeeps ==
  ASSUME WalkInv, NEW h \in listens, CheckDuplicate(h)
  PROVE  WalkInv'
  <1>1. /\ HistoryTyped /\ FromListens /\ EarlierCovered /\ LiveFirst /\ NoListenTwice
        /\ walk.at # "none" => WalkBegan /\ WalkStands
    BY DEF WalkInv
  <1>2. /\ h.stamp # 0 /\ scrobbling' = [at |-> "insert", time |-> h.stamp, track |-> h.track]
        /\ afterwards \subseteq afterwards' /\ afterwards' \subseteq afterwards \cup {h}
        /\ h \notin afterwards' => walk.at = "none" /\ \A s \in scrobbles : ~s[3]
        /\ UNCHANGED <<second, profile, scrobbles, listens, walk, windowTo, walks,
                       present, fetchedPlays, shifted>>
    BY DEF CheckDuplicate
  <1>3. /\ scrobbling'.at = "insert" /\ scrobbling'.time = h.stamp /\ scrobbling'.track = h.track
    BY <1>2
  <1>4. scrobbling' \in LiveRecords
    BY <1>1, <1>2 DEF HistoryTyped, ListenSet, LiveRecords
  <1>5. HistoryTyped'
    BY <1>1, <1>2, <1>4 DEF HistoryTyped
  <1>6. FromListens'
    BY <1>1, <1>2, <1>3 DEF FromListens, Heard
  <1>7. \A p : Covered(p)' <=> Covered(p)
    BY <1>2 DEF Covered
  <1>8. EarlierCovered'
    BY <1>1, <1>2, <1>7 DEF EarlierCovered, Kept
  <1>9. ASSUME walk'.at # "none" PROVE WalkBegan' /\ WalkStands'
    <2>1. WalkBegan /\ WalkStands
      BY <1>1, <1>2, <1>9
    <2>2. Due' = Due /\ InHand' = InHand /\ (GoesOn' <=> GoesOn) /\ \A p : Ahead(p)' <=> Ahead(p)
      BY <1>2 DEF Due, Kept, InHand, GoesOn, Ahead, Segment
    <2> QED
      BY <1>2, <1>7, <2>1, <2>2 DEF WalkStands, WalkBegan
  <1>10. LiveFirst'
    <2>1. \A l \in listens : l.stamp = h.stamp /\ l.track = h.track => l = h
      BY <1>1, <1>2, StampsDiffer
    <2> QED
      BY <1>1, <1>2, <1>3, <2>1 DEF LiveFirst, StoredAround
  <1>11. NoListenTwice'
    BY <1>1, <1>2 DEF NoListenTwice
  <1> QED
    BY <1>5, <1>6, <1>8, <1>9, <1>10, <1>11 DEF WalkInv

LEMMA InsertScrobbleKeeps ==
  ASSUME WalkInv, InsertScrobble
  PROVE  WalkInv'
  <1> DEFINE row == <<scrobbling.time, scrobbling.track, FALSE>>
  <1>1. /\ HistoryTyped /\ FromListens /\ EarlierCovered /\ LiveFirst /\ NoListenTwice
        /\ walk.at # "none" => WalkBegan /\ WalkStands
    BY DEF WalkInv
  <1>2. /\ scrobbling.at = "insert" /\ scrobbles' = scrobbles \cup {row} /\ scrobbling' = NoLive
        /\ UNCHANGED <<second, profile, listens, walk, windowTo, walks,
                       present, fetchedPlays, shifted, afterwards>>
    BY DEF InsertScrobble
  <1>3. PICK h \in listens : h.stamp = scrobbling.time /\ h.track = scrobbling.track
    BY <1>1, <1>2 DEF FromListens
  <1>4. row[1] = h.stamp /\ row[2] = h.track /\ row[3] = FALSE /\ row = LiveRow(h)
    BY <1>3 DEF LiveRow
  <1>5. row \in RowSet
    <2>1. scrobbling.time # 0 /\ scrobbling.time \in 0 .. (MaxTime + LIVE_OVERLAP)
      BY <1>1, <1>2 DEF FromListens, HistoryTyped, LiveRecords
    <2>2. scrobbling.time \in 1 .. (MaxTime + LIVE_OVERLAP)
      BY <2>1, WalkConstants
    <2>3. scrobbling.track \in Tracks
      BY <1>1, <1>3 DEF HistoryTyped, ListenSet
    <2> QED
      BY <2>2, <2>3 DEF RowSet
  <1> HIDE DEF row
  <1>6. scrobbling'.at = "none" /\ scrobbling' \in LiveRecords
    BY <1>2, WalkConstants DEF NoLive, LiveRecords
  <1>7. HistoryTyped'
    BY <1>1, <1>2, <1>5, <1>6 DEF HistoryTyped
  <1>8. FromListens'
    BY <1>1, <1>2, <1>3, <1>4, <1>6 DEF FromListens, Heard
  <1>9. \A p : Covered(p) => Covered(p)'
    BY <1>2, CoveredStays
  <1>10. EarlierCovered'
    BY <1>1, <1>2, <1>9 DEF EarlierCovered, Kept
  <1>11. ASSUME walk'.at # "none" PROVE WalkBegan' /\ WalkStands'
    <2>1. WalkBegan /\ WalkStands
      BY <1>1, <1>2, <1>11
    <2>2. Due' = Due /\ InHand' = InHand /\ (GoesOn' <=> GoesOn) /\ \A p : Ahead(p)' <=> Ahead(p)
      BY <1>2 DEF Due, Kept, InHand, GoesOn, Ahead, Segment
    <2>3. WalkBegan'
      BY <1>2, <2>1 DEF WalkBegan
    <2>4. WalkStands'
      BY <1>2, <1>9, <2>1, <2>2 DEF WalkStands, OfWindow
    <2> QED
      BY <2>3, <2>4
  <1>12. ASSUME NEW l \in listens \ afterwards,
                LiveRow(l) \in scrobbles', LiveRow(l) \notin scrobbles
         PROVE  walk.at = "none" /\ \A s \in scrobbles : ~s[3]
    <2>1. l.stamp = scrobbling.time /\ l.track = scrobbling.track
      BY <1>2, <1>12 DEF LiveRow, row
    <2> QED
      BY <1>1, <1>2, <2>1 DEF LiveFirst
  <1>13. LiveFirst'
    <2>1. ASSUME walk.at = "insert", NEW l \in listens \ afterwards,
                 LiveRow(l) \in StoredAround(walk.plays, LIVE_OVERLAP)'
          PROVE  LiveRow(l) \in walk.stored
      <3>1. LiveRow(l) \in scrobbles'
        BY <2>1 DEF StoredAround
      <3>2. LiveRow(l) \in scrobbles
        BY <1>12, <2>1, <3>1
      <3>3. LiveRow(l) \in StoredAround(walk.plays, LIVE_OVERLAP)
        BY <1>2, <2>1, <3>2 DEF StoredAround
      <3> QED
        BY <1>1, <2>1, <3>3 DEF LiveFirst
    <2>2. walk.at = "insert" => walk'.stored \subseteq scrobbles'
      BY <1>1, <1>2 DEF LiveFirst
    <2> QED
      BY <1>2, <1>6, <2>1, <2>2 DEF LiveFirst
  <1>14. NoListenTwice'
    <2>1. ASSUME NEW l \in listens \ afterwards, LiveRow(l) \in scrobbles',
                 <<l.at, l.track, TRUE>> \in scrobbles'
          PROVE  LiveRow(l) \in scrobbles /\ <<l.at, l.track, TRUE>> \in scrobbles
      <3>1. <<l.at, l.track, TRUE>> \in scrobbles
        <4>1. <<l.at, l.track, TRUE>> # row
          <5>1. <<l.at, l.track, TRUE>>[3] = TRUE
            OBVIOUS
          <5> QED
            BY <1>4, <5>1
        <4> QED
          BY <1>2, <2>1, <4>1
      <3> QED
        BY <1>12, <2>1, <3>1
    <2> QED
      BY <1>1, <1>2, <2>1 DEF NoListenTwice, LiveRow
  <1> QED
    BY <1>7, <1>8, <1>10, <1>11, <1>13, <1>14 DEF WalkInv

LEMMA StartKeeps ==
  ASSUME WalkInv, NEW full, StartWalk(full)
  PROVE  WalkInv'
  <1>1. HistoryTyped /\ FromListens /\ EarlierCovered /\ LiveFirst /\ NoListenTwice
    BY DEF WalkInv
  <1>2. /\ walk = NoWalk /\ walks < MaxWalks /\ walks' = walks + 1
        /\ present' = profile /\ fetchedPlays' = {}
        /\ afterwards \subseteq afterwards' /\ afterwards' \subseteq afterwards \cup listens
        /\ UNCHANGED <<second, profile, scrobbles, listens, scrobbling, windowTo, shifted>>
    BY DEF StartWalk
  <1>3. scrobbling.at = "insert" =>
           \A l \in listens : l.stamp = scrobbling.time /\ l.track = scrobbling.track
              => l \in afterwards'
    BY DEF StartWalk
  <1>4. PICK from : /\ from = 0 \/ (~(windowTo < REIMPORT_OVERLAP)
                                    /\ from = windowTo - REIMPORT_OVERLAP)
                    /\ walk' = [NoWalk EXCEPT !.at = "fetch", !.to = second,
                                              !.segmentTo = second + 1, !.from = from]
    BY DEF StartWalk
  <1>5. second \in Nat /\ windowTo \in Nat /\ REIMPORT_OVERLAP \in Nat
    BY <1>1, WalkConstants DEF HistoryTyped
  <1>6. from \in Nat /\ (from = 0 \/ from + REIMPORT_OVERLAP = windowTo)
    BY <1>4, <1>5
  <1>7. /\ walk'.at = "fetch" /\ walk'.to = second /\ walk'.segmentTo = second + 1
        /\ walk'.from = from /\ walk'.page = 1 /\ walk'.oldest = 0 /\ walk'.plays = {}
        /\ walk'.stored = {} /\ walk'.more = FALSE
        /\ walk' = [at |-> "fetch", from |-> from, to |-> second, segmentTo |-> second + 1,
                    page |-> 1, oldest |-> 0, plays |-> {}, stored |-> {}, more |-> FALSE]
    BY <1>4 DEF NoWalk
  <1>8. walk' \in WalkRecords
    BY <1>5, <1>6, <1>7 DEF WalkRecords
  <1>9. HistoryTyped'
    <2>1. walks' \in 0 .. MaxWalks
      BY <1>1, <1>2, WalkConstants DEF HistoryTyped
    <2> QED
      BY <1>1, <1>2, <1>8, <2>1 DEF HistoryTyped
  <1>10. FromListens'
    BY <1>1, <1>2, <1>7 DEF FromListens, Heard
  <1>11. \A p : Covered(p)' <=> Covered(p)
    BY <1>2 DEF Covered
  <1>12. EarlierCovered'
    BY <1>1, <1>2, <1>11 DEF EarlierCovered, Kept
  <1>13. WalkBegan'
    BY <1>2, <1>5, <1>6, <1>7 DEF WalkBegan
  <1>14. WalkStands'
    <2>1. ASSUME NEW p \in Due' PROVE Ahead(p)'
      <3>1. p \in profile' /\ OfWindow(walk, p)'
        BY DEF Due, Kept
      <3>2. p \in profile /\ p \in PlaySet /\ p[1] <= second /\ (from = 0 \/ p[1] > from)
        BY <1>1, <1>2, <1>7, <3>1 DEF HistoryTyped, OfWindow
      <3>3. p[1] \in Nat
        BY <3>2, PlayIs
      <3>4. p \in Segment'
        BY <1>2, <1>5, <1>6, <1>7, <3>2, <3>3 DEF Segment, InRange
      <3>5. Newer(p, Segment') \in Nat
        <4>1. Segment' \subseteq PlaySet
          BY <1>9 DEF Segment, InRange, HistoryTyped
        <4> QED
          BY <3>2, <4>1, NewerCounts
      <3>6. (walk'.page - 1) * PAGE_LIMIT = 0
        BY <1>7, WalkConstants
      <3> QED
        BY <1>7, <3>4, <3>5, <3>6 DEF Ahead
    <2> QED
      BY <1>2, <1>7, <2>1 DEF WalkStands, GoesOn
  <1>15. LiveFirst' /\ NoListenTwice'
    BY <1>1, <1>2, <1>3, <1>7 DEF LiveFirst, NoListenTwice
  <1> QED
    BY <1>9, <1>10, <1>12, <1>13, <1>14, <1>15 DEF WalkInv

LEMMA FetchPageKeeps ==
  ASSUME WalkInv, FetchPage
  PROVE  WalkInv'
  <1> DEFINE page == PageOfPlays(Segment, walk.page)
             v == AdvanceCursor(walk, page, TotalPages(Segment))
             kept == {p \in page : OfWindow(walk, p)}
             L == (walk.page - 1) * PAGE_LIMIT
  <1>1. /\ HistoryTyped /\ FromListens /\ EarlierCovered /\ LiveFirst /\ NoListenTwice
        /\ walk.at = "fetch" /\ WalkBegan /\ WalkStands
    BY DEF WalkInv, FetchPage
  <1>2. /\ walk' = [v EXCEPT !.at = "read", !.plays = kept]
        /\ fetchedPlays' = fetchedPlays \cup page
        /\ UNCHANGED <<second, profile, scrobbles, listens, scrobbling, windowTo, walks,
                       present, shifted, afterwards>>
    BY DEF FetchPage, Segment
  <1>3. walk \in WalkRecords /\ walk.page \in Nat \ {0} /\ walk.oldest \in Nat
    BY <1>1 DEF HistoryTyped, WalkRecords
  <1>4. Segment \subseteq PlaySet /\ Segment \subseteq profile
    BY <1>1 DEF HistoryTyped, Segment, InRange
  <1>5. page \subseteq Segment /\ page \subseteq PlaySet /\ kept \subseteq page
    BY <1>4 DEF PageOfPlays
  <1>6. \A p \in Segment : p \in page <=> L <= Newer(p, Segment)
                                          /\ Newer(p, Segment) < walk.page * PAGE_LIMIT
    BY <1>3, <1>4, PageIs
  <1>7. L \in Nat /\ L + PAGE_LIMIT = walk.page * PAGE_LIMIT
        /\ (walk.page + 1 - 1) * PAGE_LIMIT = walk.page * PAGE_LIMIT
    BY <1>3, PlacesOf
  <1> DEFINE last == page = {} \/ walk.page >= TotalPages(Segment)
  <1>8. /\ v \in WalkRecords /\ v.from = walk.from /\ v.to = walk.to
        /\ ~last => v.more = TRUE /\
              \E oldest \in Nat \ {0} :
                 /\ oldest = walk.oldest \/ oldest = AtOnce(page)
                 /\ \/ v.segmentTo = oldest + 1 /\ v.page = 1 /\ v.oldest = 0
                    \/ v.segmentTo = walk.segmentTo /\ v.page = walk.page + 1
                       /\ v.oldest = oldest
    <2> DEFINE pages == TotalPages(Segment)
    <2>1. v = AdvanceCursor(walk, page, pages) /\ (last <=> page = {} \/ walk.page >= pages)
      OBVIOUS
    <2> HIDE DEF v, page, pages, last
    <2>2. Advanced(walk, page, pages, v)
      BY <1>3, <1>5, <2>1, AdvanceIs
    <2> QED
      BY <2>1, <2>2 DEF Advanced
  <1>9. \A p \in Segment : Newer(p, Segment) \in Nat
    BY <1>4, NewerCounts
  <1>10. ASSUME NEW p \in Segment, L <= Newer(p, Segment), p \notin page
         PROVE  ~last /\ walk.page * PAGE_LIMIT <= Newer(p, Segment)
    <2>1. walk.page * PAGE_LIMIT <= Newer(p, Segment) /\ walk.page * PAGE_LIMIT \in Nat
      BY <1>6, <1>7, <1>9, <1>10, WalkConstants
    <2>2. page # {}
      <3>1. SUFFICES ASSUME page = {} PROVE FALSE
        OBVIOUS
      <3>2. \A q \in Segment : ~(L <= Newer(q, Segment) /\ Newer(q, Segment) < L + PAGE_LIMIT)
        BY <1>6, <1>7, <3>1
      <3>3. PAGE_LIMIT \in Nat \ {0}
        BY WalkConstants
      <3>4. \A q \in Segment : Newer(q, Segment) < L
        <4> HIDE DEF L, page
        <4> QED
          BY <1>4, <1>7, <3>2, <3>3, NoGap
      <3> QED
        BY <1>7, <1>9, <1>10, <3>4
    <2>3. ~(walk.page >= TotalPages(Segment))
      <3>1. SUFFICES ASSUME walk.page >= TotalPages(Segment) PROVE FALSE
        OBVIOUS
      <3>2. Cardinality(Segment) <= walk.page * PAGE_LIMIT
        BY <1>3, <1>4, <3>1, LastPage
      <3>3. Newer(p, Segment) < Cardinality(Segment)
        BY <1>4, <1>10, NewerCounts
      <3>4. Cardinality(Segment) \in Nat
        BY <1>4, PlaysFinite, FS_CardinalityType
      <3> QED
        BY <1>9, <2>1, <3>2, <3>3, <3>4
    <2> QED
      BY <2>1, <2>2, <2>3
  <1> HIDE DEF page, v, kept, L, last
  <1>11. /\ walk' \in WalkRecords /\ walk'.at = "read" /\ walk'.plays = kept
         /\ walk'.from = walk.from /\ walk'.to = walk.to /\ walk'.more = v.more
         /\ walk'.segmentTo = v.segmentTo /\ walk'.page = v.page /\ walk'.oldest = v.oldest
    BY <1>2, <1>5, <1>8 DEF WalkRecords
  <1>12. HistoryTyped'
    BY <1>1, <1>2, <1>5, <1>11 DEF HistoryTyped
  <1>13. FromListens'
    <2>1. \A p \in kept : Heard(p)
      BY <1>1, <1>4, <1>5 DEF FromListens
    <2> QED
      BY <1>1, <1>2, <1>11, <2>1 DEF FromListens, Heard
  <1>14. \A p : Covered(p)' <=> Covered(p)
    BY <1>2 DEF Covered
  <1>15. EarlierCovered'
    BY <1>1, <1>2, <1>14 DEF EarlierCovered, Kept
  <1>16. WalkBegan'
    BY <1>1, <1>2, <1>11 DEF WalkBegan
  <1>17. \A p : OfWindow(walk', p) <=> OfWindow(walk, p)
    BY <1>11 DEF OfWindow
  <1>18. InHand = {} /\ InHand' = kept
    BY <1>1, <1>11 DEF InHand
  <1>19. ASSUME NEW p \in Due, Ahead(p), p \notin page
         PROVE  GoesOn' /\ Ahead(p)'
    <2>1. p \in Segment /\ L <= Newer(p, Segment) /\ (walk.oldest # 0 => p[1] <= walk.oldest)
      BY <1>7, <1>9, <1>19 DEF Ahead, L
    <2>2. ~last /\ walk.page * PAGE_LIMIT <= Newer(p, Segment)
      BY <1>10, <1>19, <2>1
    <2>3. PICK oldest \in Nat \ {0} :
             /\ oldest = walk.oldest \/ oldest = AtOnce(page)
             /\ \/ v.segmentTo = oldest + 1 /\ v.page = 1 /\ v.oldest = 0
                \/ v.segmentTo = walk.segmentTo /\ v.page = walk.page + 1
                   /\ v.oldest = oldest
      BY <1>8, <2>2
    <2>4. p \in PlaySet /\ p[1] \in Nat /\ p \in profile
      BY <1>4, <2>1, PlayIs
    <2>5. p[1] <= oldest
      <3>1. CASE oldest = walk.oldest
        BY <2>1, <2>3, <3>1
      <3>2. CASE oldest = AtOnce(page)
        <4>1. page # {}
          BY <2>2 DEF last
        <4>2. PICK q \in page : AtOnce(page) = q[1]
          BY <1>5, <4>1, AtOnceIs
        <4>3. q \in Segment /\ Newer(q, Segment) < walk.page * PAGE_LIMIT /\ q[1] \in Nat
          BY <1>5, <1>6, PlayIs
        <4>4. Newer(q, Segment) < Newer(p, Segment)
          BY <1>7, <1>9, <2>1, <2>2, <4>3, WalkConstants
        <4>5. Before(p, q)
          BY <1>4, <2>1, <4>3, <4>4, MoreNewer
        <4> QED
          BY <2>4, <3>2, <4>2, <4>3, <4>5 DEF Before
      <3> QED
        BY <2>3, <3>1, <3>2
    <2>6. GoesOn'
      BY <1>8, <1>11, <2>2 DEF GoesOn
    <2>7. p[1] >= walk.from /\ walk.from \in Nat
      BY <1>3, <2>1 DEF Segment, InRange, WalkRecords
    <2>8. CASE v.segmentTo = oldest + 1 /\ v.page = 1 /\ v.oldest = 0
      <3>1. p \in Segment'
        BY <1>2, <1>11, <2>3, <2>4, <2>5, <2>7, <2>8 DEF Segment, InRange
      <3>2. Newer(p, Segment') \in Nat
        <4>1. Segment' \subseteq PlaySet
          BY <1>12 DEF Segment, InRange, HistoryTyped
        <4> QED
          BY <2>4, <4>1, NewerCounts
      <3>3. (walk'.page - 1) * PAGE_LIMIT = 0
        BY <1>11, <2>8, WalkConstants
      <3>4. Ahead(p)'
        BY <1>11, <2>8, <3>1, <3>2, <3>3 DEF Ahead
      <3> QED
        BY <2>6, <3>4
    <2>9. CASE v.segmentTo = walk.segmentTo /\ v.page = walk.page + 1 /\ v.oldest = oldest
      <3>1. Segment' = Segment
        BY <1>2, <1>11, <2>9 DEF Segment
      <3>2. (walk'.page - 1) * PAGE_LIMIT = walk.page * PAGE_LIMIT
        <4>1. walk'.page - 1 = walk.page
          BY <1>3, <1>11, <2>9
        <4> QED
          BY <4>1
      <3>3. walk'.oldest = oldest
        BY <1>11, <2>9
      <3>4. Newer(p, Segment') = Newer(p, Segment)
        BY <3>1
      <3>5. walk.page * PAGE_LIMIT \in Nat /\ Newer(p, Segment) \in Nat
        BY <1>3, <1>9, <2>1, WalkConstants
      <3>6. Newer(p, Segment') >= (walk'.page - 1) * PAGE_LIMIT
        BY <2>2, <3>2, <3>4, <3>5
      <3>7. Ahead(p)'
        BY <2>1, <2>5, <3>1, <3>3, <3>6 DEF Ahead
      <3> QED
        BY <2>6, <3>7
    <2> QED
      BY <2>3, <2>8, <2>9
  <1>20. WalkStands'
    <2>1. Due' = Due
      BY <1>2, <1>17 DEF Due, Kept
    <2>2. ASSUME NEW p \in Due PROVE Covered(p) \/ p \in kept \/ (GoesOn' /\ Ahead(p)')
      <3>1. Covered(p) \/ Ahead(p)
        BY <1>1, <1>18 DEF WalkStands
      <3>2. p \in page => p \in kept
        BY DEF Due, kept
      <3> QED
        BY <1>19, <3>1, <3>2
    <2>3. ASSUME NEW p \in fetchedPlays', OfWindow(walk, p) PROVE Covered(p) \/ p \in kept
      BY <1>1, <1>2, <1>18, <2>3 DEF WalkStands, kept
    <2> QED
      BY <1>14, <1>17, <1>18, <2>1, <2>2, <2>3 DEF WalkStands
  <1>21. LiveFirst' /\ NoListenTwice'
    BY <1>1, <1>2, <1>11 DEF LiveFirst, NoListenTwice
  <1> QED
    BY <1>12, <1>13, <1>15, <1>16, <1>20, <1>21 DEF WalkInv

LEMMA ReadKeeps ==
  ASSUME WalkInv, ReadStored
  PROVE  WalkInv'
  <1> DEFINE around == StoredAround(walk.plays, LIVE_OVERLAP)
  <1>1. /\ HistoryTyped /\ FromListens /\ EarlierCovered /\ LiveFirst /\ NoListenTwice
        /\ walk.at = "read" /\ WalkBegan /\ WalkStands
    BY DEF WalkInv, ReadStored
  <1>2. /\ walk' = [walk EXCEPT !.at = "insert", !.stored = around]
        /\ UNCHANGED <<second, profile, scrobbles, listens, scrobbling, windowTo, walks,
                       present, fetchedPlays, shifted, afterwards>>
    BY DEF ReadStored
  <1>3. around \subseteq scrobbles /\ around \subseteq RowSet
    BY <1>1 DEF StoredAround, HistoryTyped
  <1>4. walk \in WalkRecords
    BY <1>1 DEF HistoryTyped
  <1> HIDE DEF around
  <1>5. /\ walk' \in WalkRecords /\ walk'.at = "insert" /\ walk'.stored = around
        /\ walk'.plays = walk.plays /\ walk'.from = walk.from /\ walk'.to = walk.to
        /\ walk'.more = walk.more /\ walk'.segmentTo = walk.segmentTo
        /\ walk'.page = walk.page /\ walk'.oldest = walk.oldest
    BY <1>2, <1>3, <1>4 DEF WalkRecords
  <1>6. HistoryTyped'
    BY <1>1, <1>2, <1>5 DEF HistoryTyped
  <1>7. FromListens'
    BY <1>1, <1>2, <1>5 DEF FromListens, Heard
  <1>8. \A p : Covered(p)' <=> Covered(p)
    BY <1>2 DEF Covered
  <1>9. EarlierCovered' /\ WalkBegan'
    BY <1>1, <1>2, <1>5, <1>8 DEF EarlierCovered, Kept, WalkBegan
  <1>10. WalkStands'
    <2>1. \A p : OfWindow(walk', p) <=> OfWindow(walk, p)
      BY <1>5 DEF OfWindow
    <2>2. Due' = Due
      BY <1>2, <2>1 DEF Due, Kept
    <2>3. InHand' = InHand
      BY <1>1, <1>5 DEF InHand
    <2>4. GoesOn' <=> GoesOn
      BY <1>1, <1>5 DEF GoesOn
    <2>5. \A p : Ahead(p)' <=> Ahead(p)
      BY <1>2, <1>5 DEF Ahead, Segment
    <2> QED
      BY <1>1, <1>2, <1>8, <2>1, <2>2, <2>3, <2>4, <2>5 DEF WalkStands
  <1>11. LiveFirst' /\ NoListenTwice'
    <2>1. StoredAround(walk.plays, LIVE_OVERLAP)' = around
      BY <1>2, <1>5 DEF StoredAround, around
    <2> QED
      BY <1>1, <1>2, <1>3, <1>5, <2>1 DEF LiveFirst, NoListenTwice
  <1> QED
    BY <1>6, <1>7, <1>9, <1>10, <1>11 DEF WalkInv

\* Every play of a page is stored or taken for a live scrobble.
LEMMA RecordCovers ==
  ASSUME HistoryTyped, NEW stored, stored \subseteq scrobbles, NEW plays,
         NEW fresh \in NewPlays(plays, stored), NEW p \in plays
  PROVE  p \in fresh \/ Covered(p)
  <1>1. PICK taken \in [plays -> stored \cup {NoScrobble}] :
           /\ \A q \in plays : Match(taken, q, stored)
           /\ fresh = {q \in plays : taken[q] = NoScrobble /\ Imported(q) \notin stored}
    BY DEF NewPlays
  <1>2. CASE Imported(p) \in stored
    BY <1>2 DEF Covered
  <1>3. CASE taken[p] = NoScrobble /\ Imported(p) \notin stored
    BY <1>1, <1>3
  <1>4. CASE taken[p] # NoScrobble
    <2> DEFINE used == {taken[q] : q \in {q \in DOMAIN taken : Before(q, p)}}
    <2>1. taken[p] \in Near(used, p, stored)
      BY <1>1, <1>4 DEF Match
    <2> HIDE DEF used
    <2>2. taken[p] \in stored /\ ~taken[p][3] /\ taken[p][2] = p[2]
          /\ Apart(taken[p][1], p[1]) <= LIVE_OVERLAP
      BY <2>1 DEF Near
    <2> QED
      BY <2>2 DEF Covered
  <1> QED
    BY <1>2, <1>3, <1>4

\* A play is not stored beside the live row of its own listen, unless another
\* listen of the track was as near.
LEMMA RecordPairs ==
  ASSUME HistoryTyped, FromListens, LiveFirst, walk.at = "insert",
         NEW fresh \in NewPlays(walk.plays, walk.stored),
         NEW l \in listens \ afterwards, LiveRow(l) \in scrobbles, NEW p \in fresh,
         p[1] = l.at, p[2] = l.track
  PROVE  \E k \in listens : k # l /\ k.track = l.track /\ Apart(k.at, l.at) <= 2 * LIVE_OVERLAP
  <1> DEFINE row == LiveRow(l)
  <1>1. PICK taken \in [walk.plays -> walk.stored \cup {NoScrobble}] :
           /\ \A q \in walk.plays : Match(taken, q, walk.stored)
           /\ fresh = {q \in walk.plays : taken[q] = NoScrobble /\ Imported(q) \notin walk.stored}
    BY DEF NewPlays
  <1>2. /\ row \in RowSet /\ row[1] = l.stamp /\ row[2] = l.track /\ row[3] = FALSE
        /\ row # NoScrobble
    <2>1. row \in RowSet /\ row[1] = l.stamp /\ row[2] = l.track /\ row[3] = FALSE
      BY DEF HistoryTyped, LiveRow
    <2>2. NoScrobble[3] = TRUE
      BY DEF NoScrobble
    <2> QED
      BY <2>1, <2>2
  <1>3. l.stamp = l.at + LIVE_OVERLAP
    BY LiveRowOf DEF FromListens
  <1>4. \A k \in listens : k.at \in Nat
    <2>1. \A k \in listens : k.at \in 1 .. MaxTime
      BY DEF HistoryTyped, ListenSet
    <2> QED
      BY <2>1
  <1>5. l.at \in Nat /\ LIVE_OVERLAP \in Nat
    BY <1>4, WalkConstants
  <1>6. Apart(row[1], p[1]) <= LIVE_OVERLAP /\ row[1] >= p[1] - LIVE_OVERLAP
        /\ row[1] <= p[1] + LIVE_OVERLAP
    <2>1. row[1] = l.at + LIVE_OVERLAP
      BY <1>2, <1>3
    <2> HIDE DEF row
    <2> QED
      BY <1>5, <2>1 DEF Apart
  <1>7. p \in walk.plays /\ taken[p] = NoScrobble /\ Imported(p) \notin walk.stored
    BY <1>1
  <1> HIDE DEF row
  <1>8. row \in walk.stored
    <2>1. row \in StoredAround(walk.plays, LIVE_OVERLAP)
      BY <1>6, <1>7 DEF StoredAround, row
    <2> QED
      BY <2>1 DEF LiveFirst, row
  <1> DEFINE used == {taken[q] : q \in {q \in DOMAIN taken : Before(q, p)}}
  <1>9. Near(used, p, walk.stored) = {}
    <2>1. SUFFICES ASSUME Near(used, p, walk.stored) # {} PROVE FALSE
      OBVIOUS
    <2>2. taken[p] \in Near(used, p, walk.stored)
      BY <1>1, <1>7, <2>1 DEF Match
    <2>3. ~taken[p][3]
      <3> HIDE DEF used
      <3> QED
        BY <2>2 DEF Near
    <2> QED
      BY <1>7, <2>3 DEF NoScrobble
  <1>10. row \in used
    <2> HIDE DEF used
    <2> QED
      BY <1>2, <1>6, <1>8, <1>9 DEF Near
  <1>11. PICK q \in walk.plays : Before(q, p) /\ taken[q] = row
    BY <1>1, <1>10
  <1> DEFINE usedq == {taken[r] : r \in {r \in DOMAIN taken : Before(r, q)}}
  <1>12. row \in Near(usedq, q, walk.stored)
    BY <1>1, <1>2, <1>11 DEF Match
  <1>13. l.track = q[2] /\ Apart(l.stamp, q[1]) <= LIVE_OVERLAP
    <2> HIDE DEF usedq
    <2> QED
      BY <1>2, <1>12 DEF Near
  <1>14. PICK k \in listens : k.at = q[1] /\ k.track = q[2]
    BY <1>11 DEF FromListens, Heard
  <1>15. k # l
    <2>1. SUFFICES ASSUME k = l PROVE FALSE
      OBVIOUS
    <2>2. p \in PlaySet /\ q \in PlaySet
      BY <1>7, <1>11 DEF HistoryTyped, WalkRecords
    <2>3. q[1] = p[1] /\ q[2] = p[2]
      BY <1>14, <2>1
    <2>4. q = p
      BY <2>2, <2>3, PlayIs
    <2> QED
      BY <1>11, <2>2, <2>4, BeforeOrders
  <1>16. Apart(k.at, l.at) <= 2 * LIVE_OVERLAP
    <2>1. Apart(l.at + LIVE_OVERLAP, k.at) <= LIVE_OVERLAP
      BY <1>3, <1>13, <1>14
    <2>2. k.at \in Nat
      BY <1>4
    <2> QED
      BY <1>5, <2>1, <2>2 DEF Apart
  <1> QED
    BY <1>13, <1>14, <1>15, <1>16

LEMMA RecordKeeps ==
  ASSUME WalkInv, RecordPage
  PROVE  WalkInv'
  <1>1. /\ HistoryTyped /\ FromListens /\ EarlierCovered /\ LiveFirst /\ NoListenTwice
        /\ walk.at = "insert" /\ WalkBegan /\ WalkStands
    BY DEF WalkInv, RecordPage
  <1>2. PICK fresh \in NewPlays(walk.plays, walk.stored) :
           scrobbles' = scrobbles \cup {Imported(p) : p \in fresh}
    BY DEF RecordPage
  <1> DEFINE next == IF walk.more THEN "fetch" ELSE "finish"
  <1>3. /\ walk' = [walk EXCEPT !.at = next, !.plays = {}, !.stored = {}, !.more = FALSE]
        /\ UNCHANGED <<second, profile, listens, scrobbling, windowTo, walks,
                       present, fetchedPlays, shifted, afterwards>>
    BY DEF RecordPage
  <1>4. walk \in WalkRecords /\ walk.plays \subseteq PlaySet
    BY <1>1 DEF HistoryTyped, WalkRecords
  <1>5. next \in {"fetch", "finish"} /\ (walk.more => next = "fetch")
    OBVIOUS
  <1> HIDE DEF next
  <1>6. /\ walk' \in WalkRecords /\ walk'.at = next /\ walk'.stored = {}
        /\ walk'.plays = {} /\ walk'.from = walk.from /\ walk'.to = walk.to
        /\ walk'.more = FALSE /\ walk'.segmentTo = walk.segmentTo
        /\ walk'.page = walk.page /\ walk'.oldest = walk.oldest
    BY <1>3, <1>4, <1>5 DEF WalkRecords
  <1>7. fresh \subseteq walk.plays
    BY DEF NewPlays
  <1>8. \A p \in fresh : /\ Imported(p) \in RowSet /\ Imported(p)[3] = TRUE
                         /\ Imported(p)[1] = p[1] /\ Imported(p)[2] = p[2]
    <2> SUFFICES ASSUME NEW p \in fresh
                 PROVE  /\ Imported(p) \in RowSet /\ Imported(p)[3] = TRUE
                        /\ Imported(p)[1] = p[1] /\ Imported(p)[2] = p[2]
      OBVIOUS
    <2>1. p[1] \in 1 .. MaxTime /\ p[2] \in Tracks
      BY <1>4, <1>7 DEF PlaySet
    <2>2. p[1] \in 1 .. (MaxTime + LIVE_OVERLAP)
      BY <2>1, WalkConstants
    <2> QED
      BY <2>1, <2>2 DEF Imported, RowSet
  <1>9. HistoryTyped'
    BY <1>1, <1>2, <1>3, <1>6, <1>8 DEF HistoryTyped
  <1>10. FromListens'
    <2>1. \A p \in fresh : Heard(Imported(p))
      BY <1>1, <1>7, <1>8 DEF FromListens, Heard
    <2> QED
      BY <1>1, <1>2, <1>3, <1>6, <1>8, <2>1 DEF FromListens, Heard
  <1>11. \A p : Covered(p) => Covered(p)'
    BY <1>2, CoveredStays
  <1>12. EarlierCovered' /\ WalkBegan'
    BY <1>1, <1>3, <1>6, <1>11 DEF EarlierCovered, Kept, WalkBegan
  <1>13. \A p \in InHand : Covered(p)'
    <2> SUFFICES ASSUME NEW p \in walk.plays PROVE Covered(p)'
      BY DEF InHand
    <2>1. walk.stored \subseteq scrobbles
      BY <1>1 DEF LiveFirst
    <2>2. p \in fresh \/ Covered(p)
      BY <1>1, <2>1, RecordCovers
    <2>3. p \in fresh => Covered(p)'
      BY <1>2 DEF Covered, Imported
    <2> QED
      BY <1>11, <2>2, <2>3
  <1>14. WalkStands'
    <2>1. \A p : OfWindow(walk', p) <=> OfWindow(walk, p)
      BY <1>6 DEF OfWindow
    <2>2. Due' = Due
      BY <1>3, <2>1 DEF Due, Kept
    <2>3. GoesOn => GoesOn'
      BY <1>1, <1>5, <1>6 DEF GoesOn
    <2>4. \A p : Ahead(p)' <=> Ahead(p)
      BY <1>3, <1>6 DEF Ahead, Segment
    <2> QED
      BY <1>1, <1>3, <1>11, <1>13, <2>1, <2>2, <2>3, <2>4 DEF WalkStands
  <1>15. LiveFirst'
    BY <1>1, <1>3, <1>5, <1>6 DEF LiveFirst
  <1>16. NoListenTwice'
    <2>1. ASSUME NEW l \in listens \ afterwards, LiveRow(l) \in scrobbles',
                 <<l.at, l.track, TRUE>> \in scrobbles',
                 \A k \in listens : k # l /\ k.track = l.track =>
                    Apart(k.at, l.at) > 2 * LIVE_OVERLAP
          PROVE  FALSE
      <3>1. LiveRow(l) \in scrobbles
        <4>1. LiveRow(l)[3] = FALSE
          BY DEF LiveRow
        <4> QED
          BY <1>2, <1>8, <2>1, <4>1
      <3>2. <<l.at, l.track, TRUE>> \notin scrobbles
        BY <1>1, <2>1, <3>1 DEF NoListenTwice, LiveRow
      <3>3. PICK p \in fresh : Imported(p) = <<l.at, l.track, TRUE>>
        BY <1>2, <2>1, <3>2
      <3>4. p[1] = l.at /\ p[2] = l.track
        BY <3>3 DEF Imported
      <3>5. PICK k \in listens :
               k # l /\ k.track = l.track /\ Apart(k.at, l.at) <= 2 * LIVE_OVERLAP
        BY <1>1, <2>1, <3>1, <3>4, RecordPairs
      <3>6. Apart(k.at, l.at) \in Int /\ LIVE_OVERLAP \in Nat
        <4>1. \A m \in listens : m.at \in 1 .. MaxTime
          BY <1>1 DEF HistoryTyped, ListenSet
        <4>2. k.at \in Int /\ l.at \in Int
          BY <2>1, <4>1
        <4> QED
          BY <4>2, WalkConstants DEF Apart
      <3> QED
        BY <2>1, <3>5, <3>6
    <2> QED
      BY <1>3, <2>1 DEF NoListenTwice, LiveRow
  <1> QED
    BY <1>9, <1>10, <1>12, <1>14, <1>15, <1>16 DEF WalkInv

LEMMA FinishKeeps ==
  ASSUME WalkInv, FinishWalk
  PROVE  WalkInv'
  <1>1. /\ HistoryTyped /\ FromListens /\ EarlierCovered /\ LiveFirst /\ NoListenTwice
        /\ walk.at = "finish" /\ WalkBegan /\ WalkStands
    BY DEF WalkInv, FinishWalk
  <1>2. /\ windowTo' = (IF walk.to > windowTo THEN walk.to ELSE windowTo)
        /\ walk' = NoWalk
        /\ UNCHANGED <<second, profile, scrobbles, listens, scrobbling, walks,
                       present, fetchedPlays, shifted, afterwards>>
    BY DEF FinishWalk
  <1>3. /\ second \in FirstSecond .. MaxTime /\ windowTo \in 0 .. MaxTime
        /\ walk.to \in Nat /\ walk.from \in Nat /\ walk.to <= second
        /\ REIMPORT_OVERLAP \in Nat /\ MaxTime \in Nat /\ FirstSecond \in 1 .. MaxTime
    BY <1>1, WalkConstants DEF HistoryTyped, WalkRecords, WalkBegan
  <1>4. windowTo' \in 0 .. MaxTime
    BY <1>2, <1>3
  <1>5. walk'.at = "none" /\ walk'.plays = {} /\ walk' \in WalkRecords
    BY <1>2, WalkConstants DEF NoWalk, WalkRecords
  <1>6. HistoryTyped'
    BY <1>1, <1>2, <1>4, <1>5 DEF HistoryTyped
  <1>7. FromListens'
    BY <1>1, <1>2, <1>5 DEF FromListens, Heard
  <1>8. \A p : Covered(p)' <=> Covered(p)
    BY <1>2 DEF Covered
  <1>9. EarlierCovered'
    <2>1. windowTo <= second
      BY <1>1 DEF EarlierCovered
    <2>2. windowTo' <= second'
      BY <1>2, <1>3, <2>1
    <2>3. ASSUME NEW p \in Kept, p[1] + REIMPORT_OVERLAP <= windowTo'
          PROVE  Covered(p)
      <3>1. p \in PlaySet /\ p \in profile /\ p[1] \in Nat /\ p[2] \notin Unnamed
        BY PlayIs DEF Kept
      <3>2. CASE p[1] + REIMPORT_OVERLAP <= windowTo
        BY <1>1, <3>2 DEF EarlierCovered
      <3>3. CASE ~(p[1] + REIMPORT_OVERLAP <= windowTo)
        <4>1. p[1] + REIMPORT_OVERLAP <= walk.to
          BY <1>2, <2>3, <3>3
        <4>2. p \in present
          BY <1>1, <1>3, <3>1, <4>1 DEF WalkBegan
        <4>3. OfWindow(walk, p)
          BY <1>1, <1>3, <3>1, <3>3, <4>1 DEF WalkBegan, OfWindow
        <4>4. p \in Due
          BY <4>2, <4>3 DEF Due
        <4> QED
          BY <1>1, <4>4 DEF WalkStands, InHand, GoesOn
      <3> QED
        BY <3>2, <3>3
    <2>4. Kept' = Kept
      BY <1>2 DEF Kept
    <2> QED
      BY <1>8, <2>2, <2>3, <2>4 DEF EarlierCovered
  <1>10. LiveFirst' /\ NoListenTwice'
    BY <1>1, <1>2, <1>5 DEF LiveFirst, NoListenTwice
  <1> QED
    BY <1>5, <1>6, <1>7, <1>9, <1>10 DEF WalkInv

LEMMA AbandonKeeps ==
  ASSUME WalkInv, AbandonWalk
  PROVE  WalkInv'
  <1>1. /\ HistoryTyped /\ FromListens /\ EarlierCovered /\ LiveFirst /\ NoListenTwice
        /\ walk.at # "none"
    BY DEF WalkInv, AbandonWalk
  <1>2. /\ walk' = NoWalk
        /\ UNCHANGED <<second, profile, scrobbles, listens, scrobbling, windowTo, walks,
                       present, fetchedPlays, shifted, afterwards>>
    BY DEF AbandonWalk
  <1>3. walk'.at = "none" /\ walk'.plays = {} /\ walk' \in WalkRecords
    BY <1>2, WalkConstants DEF NoWalk, WalkRecords
  <1>4. HistoryTyped' /\ FromListens'
    BY <1>1, <1>2, <1>3 DEF HistoryTyped, FromListens, Heard
  <1>5. EarlierCovered'
    BY <1>1, <1>2 DEF EarlierCovered, Kept, Covered
  <1>6. LiveFirst' /\ NoListenTwice'
    BY <1>1, <1>2, <1>3 DEF LiveFirst, NoListenTwice
  <1> QED
    BY <1>3, <1>4, <1>5, <1>6 DEF WalkInv

LEMMA WalkSpecKeeps == WalkSpec => []WalkInv
  <1>1. ASSUME WalkInv, WalkNext PROVE WalkInv'
    BY <1>1, HearKeeps, DeleteKeeps, CheckKeeps, TickKeeps, InsertScrobbleKeeps, StartKeeps,
       FetchPageKeeps, ReadKeeps, RecordKeeps, FinishKeeps, AbandonKeeps DEF WalkNext
  <1>2. ASSUME WalkInv, UNCHANGED walkVars PROVE WalkInv'
    BY <1>2 DEF walkVars, WalkInv, HistoryTyped, FromListens, Heard, EarlierCovered, Covered, Kept,
                WalkBegan, WalkStands, Due, InHand, GoesOn, Ahead, Segment, LiveFirst,
                StoredAround, NoListenTwice
  <1> QED
    BY InitWalks, <1>1, <1>2, PTL DEF WalkSpec

LEMMA WalkInvMeans == WalkInv => WalkTypeOK /\ EveryPlayStored /\ NoListenTwice
  <1> SUFFICES ASSUME WalkInv
               PROVE  WalkTypeOK /\ EveryPlayStored
    BY DEF WalkInv
  <1>1. /\ HistoryTyped /\ FromListens /\ EarlierCovered
        /\ walk.at # "none" => WalkBegan /\ WalkStands
    BY DEF WalkInv
  <1>2. WalkTypeOK
    BY <1>1 DEF HistoryTyped, LiveRecords, WalkRecords, ListenSet, WalkTypeOK
  <1>3. ASSUME walk.at = "finish", NEW p \in (present \cap profile) \ shifted,
               p[1] <= walk.to, p[2] \notin Unnamed
        PROVE  Covered(p)
    <2>1. p \in PlaySet /\ p[1] \in Nat /\ walk.from \in Nat /\ windowTo \in Nat
          /\ REIMPORT_OVERLAP \in Nat
      BY <1>1, <1>3, PlayIs, WalkConstants DEF HistoryTyped, WalkRecords
    <2>2. p \in Kept
      BY <1>3, <2>1 DEF Kept
    <2>3. WalkBegan /\ WalkStands
      BY <1>1, <1>3
    <2>4. CASE OfWindow(walk, p)
      BY <1>3, <2>2, <2>3, <2>4 DEF WalkStands, Due, InHand, GoesOn
    <2>5. CASE ~OfWindow(walk, p)
      <3>1. p[1] + REIMPORT_OVERLAP <= windowTo
        BY <1>3, <2>1, <2>3, <2>5 DEF OfWindow, WalkBegan
      <3> QED
        BY <1>1, <2>2, <3>1 DEF EarlierCovered
    <2> QED
      BY <2>4, <2>5
  <1>4. EveryPlayStored
    BY <1>3 DEF EveryPlayStored, Covered
  <1> QED
    BY <1>2, <1>4

LEMMA WalkKeepsPlays == WalkSpec => [](WalkTypeOK /\ EveryPlayStored /\ NoListenTwice)
  BY WalkSpecKeeps, WalkInvMeans, PTL

(***************************************************************************)
(* Polls.                                                                  *)
(***************************************************************************)
(* The inductive invariant.                                                 *)

Someone == Profiles \cup {NoProfile}
LinkRows ==
  [id : Nat, profile : Someone, refresh : (0 .. MaxLinks) \X Someone, access : Someone,
   active : BOOLEAN, cursor : Nat]
PollRecords ==
  [at : {"idle", "fetch", "refresh", "ingest", "mark", "playing"}, link : LinkRows,
   items : SUBSET Nat, cursor : Nat, refreshed : BOOLEAN]

\* A row that is or was there.
Genuine(l) ==
    /\ l.id \in 1 .. links /\ l.profile \in Profiles /\ l.access \in Profiles
    /\ l.refresh \in (1 .. MaxLinks) \X Profiles

LinksTyped ==
    /\ link \in LinkRows /\ poll \in PollRecords
    /\ links \in 0 .. MaxLinks /\ revoked \subseteq (1 .. MaxLinks) \X Profiles
    /\ streamed \in [Profiles -> SUBSET (1 .. MaxPlays)]
    /\ recorded \subseteq Profiles \X (1 .. MaxPlays)
    /\ pollFaults \in 0 .. MaxPollFaults
    /\ link = NoLink \/ Genuine(link)
    /\ poll.at # "idle" => Genuine(poll.link)

\* Plays are numbered in the order they come, and no cursor is ahead of them.
PlaysNumbered ==
    /\ Clock \in 0 .. MaxPlays
    /\ UNION {streamed[p] : p \in Profiles} = 1 .. Clock
    /\ link.cursor <= Clock /\ poll.cursor <= Clock

\* Nothing more is to be done for a play.
Taken(p, t) == <<p, t>> \in recorded \cup excused \/ t \in Unusable

\* What is behind the cursor is taken; so is what a poll has gone over, from
\* the cursor it listed to its own, and the cursor of its row is no earlier.
BehindCursor == link # NoLink => \A t \in streamed[link.profile] :
                                    t <= link.cursor => Taken(link.profile, t)
Listed == SameRow /\ link # NoLink => poll.link.cursor <= link.cursor
Fetched ==
    \A t \in streamed[poll.link.access] : t > poll.link.cursor =>
        \/ t \in poll.items \/ Taken(poll.link.access, t)
        \/ t > poll.cursor /\ \A i \in poll.items : t > i
GoneOver ==
    \A t \in streamed[poll.link.access] :
        t > poll.link.cursor /\ t <= poll.cursor => Taken(poll.link.access, t)
PollStands ==
    /\ poll.at # "idle" => Listed
    /\ poll.at \in {"idle", "fetch", "refresh"} => poll.cursor = 0
    /\ poll.at = "ingest" =>
          Fetched /\ poll.items \subseteq 1 .. Clock /\ \A i \in poll.items : i > poll.cursor
    /\ poll.at = "mark" => GoneOver

PollInv == LinksTyped /\ PlaysNumbered /\ BehindCursor /\ PollStands

-----------------------------------------------------------------------------
LEMMA NoLinkIs ==
  /\ NoLink \in LinkRows /\ NoLink.id = 0 /\ NoLink.cursor = 0 /\ NoLink.active = FALSE
  /\ NoPoll \in PollRecords /\ NoPoll.at = "idle" /\ NoPoll.cursor = 0 /\ NoPoll.items = {}
  /\ \A l : Genuine(l) => l # NoLink /\ l.id # 0
  BY PollsConstants DEF NoLink, NoPoll, LinkRows, PollRecords, Someone, Genuine

LEMMA OldestIs ==
  ASSUME NEW c \in Nat, poll.items \subseteq 1 .. c, poll.items # {}
  PROVE  OldestItem \in poll.items /\ \A u \in poll.items : OldestItem <= u
  <1> DEFINE S == poll.items
             R == {r \in S \X S : r[1] < r[2]}
  <1>1. IsFiniteSet(S)
    BY FS_Interval, FS_Subset
  <1>2. \A e \in S : <<e, e>> \notin R
    OBVIOUS
  <1>3. \A e, f, g \in S : <<e, f>> \in R /\ <<f, g>> \in R => <<e, g>> \in R
    OBVIOUS
  <1>4. PICK e \in S : \A f \in S : <<f, e>> \notin R
    <2> HIDE DEF R
    <2> QED
      BY <1>1, <1>2, <1>3, MinimalExists
  <1>5. ASSUME NEW f \in S PROVE e <= f
    <2>1. e \in Int /\ f \in Int
      OBVIOUS
    <2>2. ~(f < e)
      BY <1>4
    <2> QED
      BY <2>1, <2>2
  <1> QED
    BY <1>5 DEF OldestItem

\* A step that lets the plays be: what is taken stays taken.
LEMMA TakenStays ==
  ASSUME recorded \subseteq recorded', excused \subseteq excused'
  PROVE  \A p, t : Taken(p, t) => Taken(p, t)'
  BY DEF Taken

-----------------------------------------------------------------------------
LEMMA PollStarts == PollInit => PollInv
  <1> SUFFICES ASSUME PollInit PROVE PollInv
    OBVIOUS
  <1>1. UNION {streamed[p] : p \in Profiles} = {}
    BY DEF PollInit
  <1>2. Clock = 0 /\ 1 .. 0 = {}
    BY <1>1, FS_EmptySet DEF Clock
  <1>3. LinksTyped
    BY NoLinkIs, PollsConstants DEF LinksTyped, PollInit
  <1>4. PlaysNumbered
    BY <1>1, <1>2, NoLinkIs, PollsConstants DEF PlaysNumbered, PollInit
  <1>5. BehindCursor /\ PollStands
    BY NoLinkIs DEF BehindCursor, PollStands, PollInit
  <1> QED
    BY <1>3, <1>4, <1>5 DEF PollInv

LEMMA ListenKeeps ==
  ASSUME PollInv, NEW p \in Profiles, Listen(p)
  PROVE  PollInv'
  <1> DEFINE t0 == Clock + 1
  <1>1. /\ Clock \in 0 .. MaxPlays /\ Clock < MaxPlays /\ MaxPlays \in Nat
        /\ streamed' = [streamed EXCEPT ![p] = @ \cup {t0}]
        /\ UNCHANGED <<link, links, revoked, recorded, poll, pollFaults, excused>>
        /\ streamed \in [Profiles -> SUBSET (1 .. MaxPlays)]
    BY PollsConstants DEF Listen, PollInv, PlaysNumbered, LinksTyped
  <1>2. streamed' \in [Profiles -> SUBSET (1 .. MaxPlays)]
    BY <1>1
  <1>3. \A q \in Profiles : \A t \in streamed'[q] : t \in streamed[q] \/ t = t0
    BY <1>1
  <1>4. UNION {streamed'[q] : q \in Profiles} = 1 .. t0 /\ Clock' = t0
    <2>1. UNION {streamed[q] : q \in Profiles} = 1 .. Clock
      BY DEF PollInv, PlaysNumbered
    <2>2. \A q \in Profiles : streamed'[q] = IF q = p THEN streamed[q] \cup {t0} ELSE streamed[q]
      BY <1>1
    <2>3. UNION {streamed'[q] : q \in Profiles} = (1 .. Clock) \cup {t0}
      <3> HIDE DEF t0
      <3> QED
        BY <2>1, <2>2
    <2>4. (1 .. Clock) \cup {t0} = 1 .. t0
      BY <1>1
    <2>5. Cardinality(1 .. t0) = t0
      BY <1>1, FS_Interval
    <2> QED
      BY <2>3, <2>4, <2>5 DEF Clock
  <1>5. LinksTyped'
    BY <1>1, <1>2 DEF PollInv, LinksTyped, Genuine
  <1>6. PlaysNumbered'
    <2>1. link.cursor <= Clock /\ poll.cursor <= Clock /\ link.cursor \in Nat /\ poll.cursor \in Nat
      BY DEF PollInv, PlaysNumbered, LinksTyped, LinkRows, PollRecords
    <2> QED
      BY <1>1, <1>4, <2>1 DEF PlaysNumbered
  <1>7. t0 > link.cursor /\ t0 > poll.cursor
    BY <1>1 DEF PollInv, PlaysNumbered, LinksTyped, LinkRows, PollRecords
  <1> HIDE DEF t0
  <1>8. \A q, t : Taken(q, t)' <=> Taken(q, t)
    BY <1>1 DEF Taken
  <1>9. link.cursor \in Nat /\ poll.cursor \in Nat /\ t0 \in Nat /\ poll.link.cursor \in Nat
    BY <1>1 DEF PollInv, LinksTyped, LinkRows, PollRecords, t0
  <1>10. BehindCursor'
    <2>1. link # NoLink => link.profile \in Profiles
      BY DEF PollInv, LinksTyped, Genuine
    <2> QED
      BY <1>1, <1>3, <1>7, <1>8, <1>9, <2>1 DEF BehindCursor, PollInv
  <1>11. PollStands'
    <2>1. poll.at # "idle" => poll.link.access \in Profiles
      BY DEF PollInv, LinksTyped, Genuine
    <2>2. ASSUME poll.at = "ingest" PROVE Fetched' /\ poll'.items \subseteq 1 .. Clock'
      <3>1. Fetched /\ poll.items \subseteq 1 .. Clock
        BY <2>2 DEF PollInv, PollStands
      <3>2. \A i \in poll.items : t0 > i
        BY <1>1, <3>1 DEF t0
      <3>3. poll.items \subseteq 1 .. t0
        BY <1>1, <3>1 DEF t0
      <3> QED
        BY <1>1, <1>3, <1>4, <1>7, <1>8, <2>1, <2>2, <3>1, <3>2, <3>3 DEF Fetched
    <2>3. ASSUME poll.at = "mark" PROVE GoneOver'
      <3>1. GoneOver
        BY <2>3 DEF PollInv, PollStands
      <3> QED
        BY <1>1, <1>3, <1>7, <1>8, <1>9, <2>1, <2>3, <3>1 DEF GoneOver
    <2>4. Listed' <=> Listed
      BY <1>1 DEF Listed, SameRow
    <2> QED
      BY <1>1, <2>2, <2>3, <2>4 DEF PollStands, PollInv
  <1> QED
    BY <1>5, <1>6, <1>10, <1>11 DEF PollInv

\* A step beside the plays.
LEMMA ClockStays ==
  ASSUME PlaysNumbered, streamed' = streamed
  PROVE  Clock' = Clock
  BY DEF Clock

LEMMA ConnectKeeps ==
  ASSUME PollInv, NEW p \in Profiles, Connect(p)
  PROVE  PollInv'
  <1>1. /\ links \in 0 .. MaxLinks /\ links < MaxLinks /\ links' = links + 1 /\ MaxLinks \in Nat
        /\ UNCHANGED <<revoked, streamed, recorded, poll, pollFaults>>
        /\ link \in LinkRows
    BY PollsConstants DEF Connect, PollInv, LinksTyped
  <1>2. link' = [id |-> IF link.id = 0 THEN links + 1 ELSE link.id, profile |-> p,
                 refresh |-> <<links + 1, p>>, access |-> p, active |-> TRUE,
                 cursor |-> link.cursor]
    BY DEF Connect
  <1>3. excused' = excused \cup (IF link.profile = p THEN {} ELSE PlaysUpTo(p, link.cursor))
    BY DEF Connect
  <1>4. link'.id \in 1 .. links' /\ link'.cursor = link.cursor /\ link'.profile = p
    BY <1>1, <1>2, NoLinkIs DEF PollInv, LinksTyped, Genuine
  <1>5. link' \in LinkRows /\ Genuine(link)'
    BY <1>1, <1>2, <1>4 DEF LinkRows, Someone, Genuine
  <1>6. LinksTyped'
    <2>1. poll.at # "idle" => Genuine(poll.link)'
      BY <1>1 DEF PollInv, LinksTyped, Genuine
    <2> QED
      BY <1>1, <1>5, <2>1 DEF PollInv, LinksTyped
  <1>7. PlaysNumbered'
    BY <1>1, <1>4, ClockStays DEF PollInv, PlaysNumbered
  <1>8. \A q, t : Taken(q, t) => Taken(q, t)'
    BY <1>1, <1>3, TakenStays
  <1>9. BehindCursor'
    <2> SUFFICES ASSUME NEW t \in streamed[p], t <= link.cursor
                 PROVE  Taken(p, t)'
      BY <1>1, <1>4 DEF BehindCursor
    <2>1. CASE link.profile # p
      <3>1. <<p, t>> \in PlaysUpTo(p, link.cursor)
        BY DEF PlaysUpTo
      <3> QED
        BY <1>3, <2>1, <3>1 DEF Taken
    <2>2. CASE link.profile = p /\ link # NoLink
      BY <1>8, <2>2 DEF PollInv, BehindCursor
    <2>3. CASE link = NoLink
      <3>1. t \in 1 .. MaxPlays
        BY DEF PollInv, LinksTyped
      <3> QED
        BY <2>3, <3>1, NoLinkIs
    <2> QED
      BY <2>1, <2>2, <2>3
  <1>10. PollStands'
    <2>1. poll.at # "idle" => Listed'
      <3>1. CASE link = NoLink
        <4>1. link'.id = links + 1
          BY <1>2, <3>1, NoLinkIs
        <4>2. poll.at # "idle" => poll.link.id \in 1 .. links
          BY DEF PollInv, LinksTyped, Genuine
        <4> QED
          BY <1>1, <4>1, <4>2 DEF Listed, SameRow
      <3>2. CASE link # NoLink
        <4>1. link'.id = link.id
          BY <1>2, <3>2, NoLinkIs DEF PollInv, LinksTyped
        <4> QED
          BY <1>1, <1>4, <3>2, <4>1 DEF Listed, SameRow, PollInv, PollStands
      <3> QED
        BY <3>1, <3>2
    <2>2. /\ poll.at = "ingest" => Fetched'
          /\ poll.at = "mark" => GoneOver'
      BY <1>1, <1>8 DEF PollInv, PollStands, Fetched, GoneOver
    <2> QED
      BY <1>1, <2>1, <2>2, ClockStays DEF PollInv, PollStands
  <1> QED
    BY <1>6, <1>7, <1>9, <1>10 DEF PollInv

LEMMA LinkStepsKeep ==
  ASSUME PollInv, Disconnect \/ Revoke \/ ListAccounts
  PROVE  PollInv'
  <1>1. CASE Disconnect
    <2>1. /\ link' = NoLink
          /\ UNCHANGED <<links, revoked, streamed, recorded, poll, pollFaults, excused>>
      BY <1>1 DEF Disconnect
    <2>2. LinksTyped'
      BY <2>1, NoLinkIs DEF PollInv, LinksTyped, Genuine
    <2>3. PlaysNumbered'
      BY <2>1, NoLinkIs, ClockStays DEF PollInv, PlaysNumbered
    <2>4. BehindCursor' /\ PollStands'
      BY <2>1, ClockStays DEF PollInv, BehindCursor, PollStands, Listed, Fetched, GoneOver, Taken
    <2> QED
      BY <2>2, <2>3, <2>4 DEF PollInv
  <1>2. CASE Revoke
    <2>1. /\ link # NoLink /\ revoked' = revoked \cup {link.refresh}
          /\ UNCHANGED <<link, links, streamed, recorded, poll, pollFaults, excused>>
      BY <1>2 DEF Revoke
    <2>2. LinksTyped'
      BY <2>1 DEF PollInv, LinksTyped, Genuine
    <2>3. PlaysNumbered'
      BY <2>1, ClockStays DEF PollInv, PlaysNumbered
    <2>4. BehindCursor' /\ PollStands'
      BY <2>1, ClockStays
         DEF PollInv, BehindCursor, PollStands, Listed, Fetched, GoneOver, Taken, SameRow
    <2> QED
      BY <2>2, <2>3, <2>4 DEF PollInv
  <1>3. CASE ListAccounts
    <2>1. /\ link.active /\ poll' = [NoPoll EXCEPT !.at = "fetch", !.link = link]
          /\ UNCHANGED <<link, links, revoked, streamed, recorded, pollFaults, excused>>
      BY <1>3 DEF ListAccounts
    <2>2. /\ poll' \in PollRecords /\ poll'.at = "fetch" /\ poll'.link = link
          /\ poll'.items = {} /\ poll'.cursor = 0
      BY <2>1 DEF NoPoll, PollRecords, PollInv, LinksTyped
    <2>3. Genuine(link) /\ link # NoLink
      BY <2>1, NoLinkIs DEF PollInv, LinksTyped
    <2>4. LinksTyped'
      BY <2>1, <2>2, <2>3 DEF PollInv, LinksTyped, Genuine
    <2>5. PlaysNumbered'
      BY <2>1, <2>2, ClockStays DEF PollInv, PlaysNumbered
    <2>6. BehindCursor'
      BY <2>1 DEF PollInv, BehindCursor, Taken
    <2>7. PollStands'
      <3>1. link.cursor \in Nat
        BY DEF PollInv, LinksTyped, LinkRows
      <3> QED
        BY <2>1, <2>2, <3>1 DEF PollStands, Listed
    <2> QED
      BY <2>4, <2>5, <2>6, <2>7 DEF PollInv
  <1> QED
    BY <1>1, <1>2, <1>3

\* A step of the poll that leaves the row and the plays alone.
LEMMA PollMoves ==
  ASSUME PollInv, poll' \in PollRecords, poll.at # "idle", poll'.at # "idle",
         poll'.link.id = poll.link.id, poll'.link.cursor = poll.link.cursor,
         poll'.link.profile = poll.link.profile, poll'.link.refresh = poll.link.refresh,
         poll'.link.access \in Profiles, poll'.cursor <= Clock,
         recorded \subseteq recorded', excused \subseteq excused',
         recorded' \subseteq Profiles \X (1 .. MaxPlays), pollFaults' \in 0 .. MaxPollFaults,
         UNCHANGED <<link, links, revoked, streamed>>
  PROVE  LinksTyped' /\ PlaysNumbered' /\ BehindCursor' /\ Listed'
  <1>1. LinksTyped'
    BY DEF PollInv, LinksTyped, Genuine
  <1>2. PlaysNumbered'
    BY ClockStays DEF PollInv, PlaysNumbered
  <1>3. BehindCursor'
    BY TakenStays DEF PollInv, BehindCursor
  <1>4. Listed'
    BY DEF PollInv, PollStands, Listed, SameRow
  <1> QED
    BY <1>1, <1>2, <1>3, <1>4

LEMMA FetchKeeps ==
  ASSUME PollInv, FetchPlays
  PROVE  PollInv'
  <1> DEFINE p == poll.link.access
             after == {t \in streamed[p] : t > poll.link.cursor}
             reach == NewestOf(streamed[p], RecentPlays) \cap after
  <1>1. PICK answered \in SUBSET reach :
             /\ poll' = [poll EXCEPT !.at = "ingest", !.items = answered]
             /\ excused' = excused \cup {<<p, t>> : t \in (after \ reach)
                                                   \cup Overtaken(reach, answered)}
    BY DEF FetchPlays
  <1>0. poll.at = "fetch" /\ UNCHANGED <<link, links, revoked, streamed, recorded, pollFaults>>
    BY DEF FetchPlays
  <1>2. p \in Profiles /\ poll \in PollRecords /\ poll.cursor = 0
    BY <1>0 DEF PollInv, LinksTyped, PollStands, Genuine
  <1>3. streamed[p] \subseteq 1 .. Clock /\ Clock \in Nat
    BY <1>2 DEF PollInv, PlaysNumbered
  <1>4. answered \subseteq 1 .. Clock /\ answered \subseteq after /\ answered \in SUBSET Nat
    BY <1>3
  <1> HIDE DEF reach
  <1>5. /\ poll' \in PollRecords /\ poll'.at = "ingest" /\ poll'.items = answered
        /\ poll'.link = poll.link /\ poll'.cursor = 0
    <2> HIDE DEF p, after
    <2> QED
      BY <1>1, <1>2, <1>4 DEF PollRecords
  <1>6. LinksTyped' /\ PlaysNumbered' /\ BehindCursor' /\ Listed'
    <2>1. recorded \subseteq Profiles \X (1 .. MaxPlays) /\ pollFaults \in 0 .. MaxPollFaults
      BY DEF PollInv, LinksTyped
    <2>2. 0 <= Clock
      BY <1>3
    <2> HIDE DEF p, after
    <2> QED
      BY <1>0, <1>1, <1>2, <1>5, <2>1, <2>2, PollMoves DEF p
  <1>7. Fetched'
    <2> SUFFICES ASSUME NEW t \in streamed[p], t > poll.link.cursor
                 PROVE  \/ t \in answered \/ Taken(p, t)'
                        \/ t > 0 /\ \A i \in answered : t > i
      BY <1>0, <1>5 DEF Fetched
    <2>1. t \in after /\ t \in Nat /\ t > 0
      BY <1>3
    <2>2. ASSUME <<poll.link.access, t>> \in excused' PROVE Taken(p, t)'
      <3>1. poll'.link.access = poll.link.access
        BY <1>5
      <3> QED
        BY <2>2, <3>1 DEF Taken
    <2>3. CASE t \notin reach
      BY <1>1, <2>1, <2>2, <2>3
    <2>4. CASE t \in Overtaken(reach, answered)
      BY <1>1, <2>2, <2>4
    <2>5. CASE t \in reach /\ t \notin answered /\ t \notin Overtaken(reach, answered)
      <3>1. \A i \in answered : ~(t < i) /\ i # t /\ i \in Nat
        BY <1>4, <2>5 DEF Overtaken
      <3> QED
        BY <2>1, <3>1
    <2> QED
      BY <2>3, <2>4, <2>5
  <1>8. \A i \in answered : i > 0
    BY <1>3, <1>4
  <1>9. PollStands'
    BY <1>0, <1>4, <1>5, <1>6, <1>7, <1>8, ClockStays DEF PollStands, PollInv
  <1> QED
    BY <1>6, <1>9 DEF PollInv

LEMMA RefreshKeeps ==
  ASSUME PollInv, RefreshToken
  PROVE  PollInv'
  <1> DEFINE token == poll.link.refresh
  <1>1. /\ poll.at \in {"refresh", "playing"}
        /\ poll' = IF poll.at = "playing" THEN NoPoll
                   ELSE [poll EXCEPT !.at = "fetch", !.refreshed = TRUE, !.link.access = token[2]]
        /\ UNCHANGED <<links, revoked, streamed, recorded, pollFaults, excused>>
    BY DEF RefreshToken
  <1>2. PICK kept \in {link.refresh, token} :
          link' = IF SameRow /\ link # NoLink
                  THEN [link EXCEPT !.access = token[2], !.refresh = kept] ELSE link
    BY DEF RefreshToken
  <1>3. /\ poll \in PollRecords /\ link \in LinkRows /\ poll.link \in LinkRows
        /\ Genuine(poll.link) /\ (link # NoLink => Genuine(link))
    BY <1>1 DEF PollInv, LinksTyped, PollRecords, PollStands
  <1>4. token[2] \in Profiles /\ token \in (1 .. MaxLinks) \X Profiles
    BY <1>3 DEF Genuine
  <1>5. \/ poll.at = "playing" /\ poll' = NoPoll
        \/ /\ poll' \in PollRecords /\ poll'.at = "fetch" /\ poll'.cursor = 0
           /\ poll'.link.id = poll.link.id /\ poll'.link.cursor = poll.link.cursor
           /\ Genuine(poll'.link)
    <2>1. CASE poll.at = "playing"
      BY <1>1, <2>1
    <2>2. CASE poll.at = "refresh"
      <3>1. poll.cursor = 0
        BY <2>2 DEF PollInv, PollStands
      <3> QED
        BY <1>1, <1>3, <1>4, <2>2, <3>1 DEF PollRecords, LinkRows, Someone, Genuine
    <2> QED
      BY <1>1, <2>1, <2>2
  <1>6. /\ link' \in LinkRows /\ link'.id = link.id /\ link'.cursor = link.cursor
        /\ link'.profile = link.profile
        /\ link # NoLink => Genuine(link')
        /\ link = NoLink => link' = NoLink
    <2>1. CASE SameRow /\ link # NoLink
      <3>1. link' = [link EXCEPT !.access = token[2], !.refresh = kept]
        BY <1>2, <2>1
      <3>2. kept \in (1 .. MaxLinks) \X Profiles
        BY <1>2, <1>3, <1>4, <2>1 DEF Genuine
      <3>3. kept \in (0 .. MaxLinks) \X Someone /\ token[2] \in Someone
        BY <1>4, <3>2 DEF Someone
      <3> HIDE DEF token
      <3>4. /\ link' \in LinkRows /\ link'.id = link.id /\ link'.cursor = link.cursor
            /\ link'.profile = link.profile /\ link'.access = token[2] /\ link'.refresh = kept
        BY <1>3, <3>1, <3>3 DEF LinkRows
      <3> QED
        BY <1>3, <1>4, <2>1, <3>2, <3>4 DEF Genuine
    <2>2. CASE ~(SameRow /\ link # NoLink)
      BY <1>2, <1>3, <2>2
    <2> QED
      BY <2>1, <2>2
  <1>7. LinksTyped'
    BY <1>1, <1>5, <1>6, NoLinkIs DEF PollInv, LinksTyped, Genuine
  <1>8. PlaysNumbered'
    BY <1>1, <1>3, <1>5, <1>6, ClockStays, NoLinkIs DEF PollInv, PlaysNumbered
  <1>9. BehindCursor'
    BY <1>1, <1>6 DEF PollInv, BehindCursor, Taken
  <1>10. PollStands'
    <2>1. CASE poll' = NoPoll
      BY <2>1, NoLinkIs DEF PollStands
    <2>2. CASE poll' # NoPoll
      <3>1. Listed
        BY <1>1 DEF PollInv, PollStands
      <3>2. Listed'
        BY <1>5, <1>6, <2>2, <3>1 DEF Listed, SameRow
      <3> QED
        BY <1>5, <2>2, <3>2 DEF PollStands
    <2> QED
      BY <2>1, <2>2
  <1> QED
    BY <1>7, <1>8, <1>9, <1>10 DEF PollInv

\* The authorization is gone, or Spotify has told what is playing.
LEMMA PollEndsKeep ==
  ASSUME PollInv, RefreshRejected \/ PlayingTold
  PROVE  PollInv'
  <1>1. /\ poll' = NoPoll
        /\ UNCHANGED <<links, revoked, streamed, recorded, pollFaults, excused>>
        /\ link' = link \/ (link # NoLink /\ link' = [link EXCEPT !.active = FALSE])
    BY DEF RefreshRejected, PlayingTold
  <1>2. link \in LinkRows
    BY DEF PollInv, LinksTyped
  <1>3. /\ link' \in LinkRows /\ link'.id = link.id /\ link'.cursor = link.cursor
        /\ link'.profile = link.profile /\ link'.access = link.access
        /\ link'.refresh = link.refresh
        /\ link = NoLink => link' = NoLink
    BY <1>1, <1>2 DEF LinkRows
  <1>4. LinksTyped'
    BY <1>1, <1>3, NoLinkIs DEF PollInv, LinksTyped, Genuine
  <1>5. PlaysNumbered'
    BY <1>1, <1>3, NoLinkIs, ClockStays DEF PollInv, PlaysNumbered
  <1>6. BehindCursor'
    BY <1>1, <1>3 DEF PollInv, BehindCursor, Taken
  <1>7. PollStands'
    BY <1>1, NoLinkIs DEF PollStands
  <1> QED
    BY <1>4, <1>5, <1>6, <1>7 DEF PollInv

LEMMA IngestItemKeeps ==
  ASSUME PollInv, IngestItem
  PROVE  PollInv'
  <1> DEFINE t0 == OldestItem
             p == poll.link.access
  <1>1. /\ poll.at = "ingest" /\ poll.items # {}
        /\ recorded' = IF t0 \in Unusable THEN recorded ELSE recorded \cup {<<p, t0>>}
        /\ poll' = [poll EXCEPT !.items = poll.items \ {t0}, !.cursor = t0]
        /\ UNCHANGED <<link, links, revoked, streamed, pollFaults, excused>>
    BY DEF IngestItem
  <1>2. /\ poll \in PollRecords /\ p \in Profiles /\ Clock \in 0 .. MaxPlays
        /\ Fetched /\ poll.items \subseteq 1 .. Clock /\ \A i \in poll.items : i > poll.cursor
        /\ recorded \subseteq Profiles \X (1 .. MaxPlays) /\ pollFaults \in 0 .. MaxPollFaults
    BY <1>1 DEF PollInv, LinksTyped, PollStands, PlaysNumbered, Genuine
  <1>3. t0 \in poll.items /\ \A u \in poll.items : t0 <= u
    BY <1>1, <1>2, OldestIs
  <1> HIDE DEF t0
  <1>4. t0 \in 1 .. Clock /\ t0 \in 1 .. MaxPlays /\ t0 \in Nat /\ MaxPlays \in Nat
    BY <1>2, <1>3, PollsConstants
  <1>5. /\ poll' \in PollRecords /\ poll'.at = "ingest" /\ poll'.items = poll.items \ {t0}
        /\ poll'.link = poll.link /\ poll'.cursor = t0
    BY <1>1, <1>2, <1>4 DEF PollRecords
  <1>6. LinksTyped' /\ PlaysNumbered' /\ BehindCursor' /\ Listed'
    <2>1. recorded' \subseteq Profiles \X (1 .. MaxPlays) /\ recorded \subseteq recorded'
      BY <1>1, <1>2, <1>4
    <2>2. t0 <= Clock
      BY <1>2, <1>4
    <2> QED
      BY <1>1, <1>2, <1>5, <2>1, <2>2, PollMoves
  <1>7. Fetched'
    <2> SUFFICES ASSUME NEW t \in streamed[p], t > poll.link.cursor
                 PROVE  \/ t \in poll.items \ {t0} \/ Taken(p, t)'
                        \/ t > t0 /\ \A i \in poll.items \ {t0} : t > i
      BY <1>1, <1>5 DEF Fetched
    <2>1. CASE t = t0
      BY <1>1, <2>1 DEF Taken
    <2>2. CASE Taken(p, t)
      BY <1>1, <2>2 DEF Taken
    <2> QED
      BY <1>2, <1>3, <2>1, <2>2 DEF Fetched
  <1>8. \A i \in poll.items \ {t0} : i > t0
    BY <1>2, <1>3, <1>4
  <1>9. PollStands'
    BY <1>1, <1>2, <1>5, <1>6, <1>7, <1>8, ClockStays DEF PollStands, PollInv
  <1> QED
    BY <1>6, <1>9 DEF PollInv

\* The items are done, or the rest is left.
LEMMA IngestEndsKeep ==
  ASSUME PollInv, IngestDone \/ IngestFails
  PROVE  PollInv'
  <1>1. /\ poll.at = "ingest"
        /\ UNCHANGED <<link, links, revoked, streamed, recorded, excused>>
        /\ pollFaults' \in 0 .. MaxPollFaults
        /\ \/ poll' = [poll EXCEPT !.at = "mark"]
           \/ poll' = [poll EXCEPT !.at = "mark", !.items = {}]
    BY PollsConstants DEF IngestDone, IngestFails, Fails, PollInv, LinksTyped
  <1>2. poll \in PollRecords /\ Fetched /\ \A i \in poll.items : i > poll.cursor
    BY <1>1 DEF PollInv, LinksTyped, PollStands
  <1>3. /\ poll' \in PollRecords /\ poll'.at = "mark" /\ poll'.link = poll.link
        /\ poll'.cursor = poll.cursor
    BY <1>1, <1>2 DEF PollRecords
  <1>4. LinksTyped' /\ PlaysNumbered' /\ BehindCursor' /\ Listed'
    <2>1. /\ poll.link.access \in Profiles /\ poll.cursor <= Clock
          /\ recorded \subseteq Profiles \X (1 .. MaxPlays)
      BY <1>1 DEF PollInv, LinksTyped, PlaysNumbered, Genuine
    <2> QED
      BY <1>1, <1>3, <2>1, PollMoves
  <1>5. GoneOver'
    <2> SUFFICES ASSUME NEW t \in streamed[poll.link.access], t > poll.link.cursor,
                        t <= poll.cursor
                 PROVE  Taken(poll.link.access, t)
      BY <1>1, <1>3 DEF GoneOver, Taken
    <2>1. t \in 1 .. MaxPlays /\ poll.cursor \in Nat
      BY <1>1, <1>2 DEF PollInv, LinksTyped, PollRecords, Genuine
    <2> QED
      BY <1>2, <2>1 DEF Fetched
  <1>6. PollStands'
    BY <1>3, <1>4, <1>5 DEF PollStands
  <1> QED
    BY <1>4, <1>6 DEF PollInv

LEMMA MarkKeeps ==
  ASSUME PollInv, MarkPolled
  PROVE  PollInv'
  <1> DEFINE cursor == Later(link.cursor, poll.cursor)
  <1>1. /\ poll.at = "mark" /\ poll' = [NoPoll EXCEPT !.at = "playing", !.link = poll.link]
        /\ UNCHANGED <<links, revoked, streamed, recorded, pollFaults>>
        /\ IF SameRow /\ link # NoLink
           THEN /\ link' = [link EXCEPT !.cursor = cursor]
                /\ excused' = excused \cup UNION {PlaysUpTo(q, cursor) :
                                                  q \in Profiles \ {poll.link.access}}
           ELSE UNCHANGED <<link, excused>>
    BY DEF MarkPolled
  <1>2. /\ link \in LinkRows /\ poll \in PollRecords /\ link.cursor \in Nat /\ poll.cursor \in Nat
        /\ link.cursor <= Clock /\ poll.cursor <= Clock /\ Clock \in 0 .. MaxPlays
        /\ poll.link.cursor \in Nat
    BY DEF PollInv, LinksTyped, PlaysNumbered, LinkRows, PollRecords
  <1>3. cursor \in Nat /\ cursor <= Clock /\ (cursor = link.cursor \/ cursor = poll.cursor)
    BY <1>2 DEF Later
  <1>4. link.cursor <= cursor
    BY <1>2 DEF Later
  <1> HIDE DEF cursor
  <1>5. /\ link' \in LinkRows /\ link'.id = link.id /\ link'.profile = link.profile
        /\ link'.access = link.access /\ link'.refresh = link.refresh
        /\ link'.cursor <= Clock
        /\ link = NoLink => link' = NoLink
    BY <1>1, <1>2, <1>3 DEF LinkRows
  <1>0. /\ poll' \in PollRecords /\ poll'.at = "playing" /\ poll'.link = poll.link
        /\ poll'.cursor = 0 /\ poll'.items = {}
    <2>1. poll.link \in LinkRows
      BY <1>2 DEF PollRecords
    <2> QED
      BY <1>1, <2>1, NoLinkIs DEF NoPoll, PollRecords
  <1>6. excused \subseteq excused'
    BY <1>1
  <1>7. LinksTyped'
    BY <1>0, <1>1, <1>5 DEF PollInv, LinksTyped, Genuine
  <1>8. PlaysNumbered'
    <2>1. Clock' = Clock
      BY <1>1, ClockStays DEF PollInv
    <2> QED
      BY <1>0, <1>1, <1>2, <1>5, <2>1 DEF PollInv, PlaysNumbered
  <1>9. BehindCursor'
    <2>1. CASE ~(SameRow /\ link # NoLink)
      BY <1>1, <2>1 DEF PollInv, BehindCursor, Taken
    <2>2. CASE SameRow /\ link # NoLink
      <3> DEFINE p == link.profile
      <3>1. link'.cursor = cursor /\ Listed /\ GoneOver /\ p \in Profiles
        BY <1>1, <1>2, <2>2 DEF LinkRows, PollInv, PollStands, LinksTyped, Genuine
      <3> SUFFICES ASSUME NEW t \in streamed[p], t <= cursor
                   PROVE  Taken(p, t)'
        BY <1>1, <1>5, <3>1 DEF BehindCursor
      <3>2. CASE p # poll.link.access
        <4>1. <<p, t>> \in PlaysUpTo(p, cursor)
          BY DEF PlaysUpTo
        <4>2. <<p, t>> \in excused'
          BY <1>1, <2>2, <3>1, <3>2, <4>1
        <4> QED
          BY <1>5, <4>2 DEF Taken
      <3>3. CASE t <= link.cursor
        <4>1. Taken(p, t)
          BY <2>2, <3>3 DEF PollInv, BehindCursor
        <4> QED
          BY <1>1, <1>5, <1>6, <4>1 DEF Taken
      <3>4. CASE p = poll.link.access /\ ~(t <= link.cursor)
        <4>1. t \in 1 .. MaxPlays
          BY <3>1 DEF PollInv, LinksTyped
        <4>2. t > poll.link.cursor /\ t <= poll.cursor
          BY <1>2, <1>3, <2>2, <3>1, <3>4, <4>1 DEF Listed
        <4>3. Taken(p, t)
          BY <3>1, <3>4, <4>2 DEF GoneOver
        <4> QED
          BY <1>1, <1>5, <1>6, <4>3 DEF Taken
      <3> QED
        BY <3>2, <3>3, <3>4
    <2> QED
      BY <2>1, <2>2
  <1>10. PollStands'
    <2>1. Listed
      BY <1>1 DEF PollInv, PollStands
    <2>2. SameRow /\ link # NoLink => link'.cursor = cursor
      BY <1>1, <1>2 DEF LinkRows
    <2>3. Listed'
      BY <1>0, <1>1, <1>2, <1>3, <1>4, <1>5, <2>1, <2>2 DEF Listed, SameRow
    <2> QED
      BY <1>0, <2>3 DEF PollStands
  <1> QED
    BY <1>7, <1>8, <1>9, <1>10 DEF PollInv

LEMMA OthersKeep ==
  ASSUME PollInv, TokenRejected \/ PollLost \/ UNCHANGED pollVars
  PROVE  PollInv'
  <1>1. CASE TokenRejected
    <2>1. /\ poll.at = "fetch" /\ poll' = [poll EXCEPT !.at = "refresh"]
          /\ UNCHANGED <<link, links, revoked, streamed, recorded, pollFaults, excused>>
      BY <1>1 DEF TokenRejected
    <2>2. /\ poll' \in PollRecords /\ poll'.at = "refresh" /\ poll'.link = poll.link
          /\ poll'.cursor = 0 /\ poll.cursor = 0
      BY <2>1 DEF PollInv, PollStands, LinksTyped, PollRecords
    <2>3. LinksTyped' /\ PlaysNumbered' /\ BehindCursor' /\ Listed'
      <3>1. /\ poll.link.access \in Profiles /\ poll.cursor <= Clock
            /\ recorded \subseteq Profiles \X (1 .. MaxPlays) /\ pollFaults \in 0 .. MaxPollFaults
        BY <2>1 DEF PollInv, LinksTyped, PlaysNumbered, Genuine
      <3> QED
        BY <2>1, <2>2, <3>1, PollMoves
    <2> QED
      BY <2>2, <2>3 DEF PollInv, PollStands
  <1>2. CASE PollLost
    <2>1. /\ poll' = NoPoll /\ pollFaults' \in 0 .. MaxPollFaults
          /\ UNCHANGED <<link, links, revoked, streamed, recorded, excused>>
      BY <1>2, PollsConstants DEF PollLost, Fails, PollInv, LinksTyped
    <2>2. LinksTyped'
      BY <2>1, NoLinkIs DEF PollInv, LinksTyped, Genuine
    <2>3. PlaysNumbered'
      BY <2>1, NoLinkIs, ClockStays DEF PollInv, PlaysNumbered
    <2>4. BehindCursor' /\ PollStands'
      BY <2>1, NoLinkIs DEF PollInv, BehindCursor, PollStands, Taken
    <2> QED
      BY <2>2, <2>3, <2>4 DEF PollInv
  <1>3. CASE UNCHANGED pollVars
    BY <1>3 DEF pollVars, PollInv, LinksTyped, PlaysNumbered, BehindCursor, PollStands, Genuine,
                Clock, Taken, Listed, SameRow, Fetched, GoneOver
  <1> QED
    BY <1>1, <1>2, <1>3

LEMMA PollsKeep == PollSpec => []PollInv
  <1>1. ASSUME PollInv, [PollNext]_pollVars PROVE PollInv'
    BY <1>1, ListenKeeps, ConnectKeeps, LinkStepsKeep, FetchKeeps, RefreshKeeps,
       PollEndsKeep, IngestItemKeeps, IngestEndsKeep, MarkKeeps, OthersKeep
       DEF PollNext
  <1> QED
    BY <1>1, PollStarts, PTL DEF PollSpec

LEMMA PollsFollow == PollInv => PollTypeOK /\ NothingSkipped
  <1> SUFFICES ASSUME PollInv PROVE PollTypeOK /\ NothingSkipped
    OBVIOUS
  <1>1. PollTypeOK
    BY PollsConstants, NoLinkIs
       DEF PollInv, LinksTyped, PlaysNumbered, LinkRows, PollRecords, Someone, PollTypeOK, Genuine
  <1>2. NothingSkipped
    BY DEF PollInv, BehindCursor, NothingSkipped, PlaysUpTo, Taken
  <1> QED
    BY <1>1, <1>2

LEMMA PollsSkipNothing == PollSpec => [](PollTypeOK /\ NothingSkipped)
  BY PollsKeep, PollsFollow, PTL

(***************************************************************************)
(* Intake.                                                                 *)
(***************************************************************************)
\* However listens are told to Last.fm, scrobbled live, deleted again and
\* walked over, and however many imports fail or are cancelled: a finished
\* import has left no play out, and none is stored beside its own live scrobble
\* (shared/lastfm.rs, shared/import.rs, imports.rs).  Whatever becomes of links
\* and tokens, no link's cursor passes a play of its account that no poll
\* recorded, but those that none could have taken (connected_accounts.rs).
THEOREM PlaysComeInOnce == WalkSpec /\ PollSpec => []EveryPlayOnce
  BY WalkKeepsPlays, PollsSkipNothing, PTL DEF EveryPlayOnce

(***************************************************************************)
(* Coordination.                                                           *)
(***************************************************************************)
(* The inductive invariant.                                                 *)

FactorRows == [factor : 0 .. FULL_FACTOR, run : Nat]
NoRows == [d \in AllDays |-> NoRow]

FactorsTyped ==
    /\ today \in AllDays
    /\ weighedDays \in [Suspects -> SUBSET AllDays]
    /\ days \in [Suspects -> [AllDays -> FactorRows]]
    /\ \A u \in Suspects, d \in AllDays : days[u][d].run \in 0 .. nextRun - 1

\* The last run is there, and no two have one id.
RunsNumbered ==
    /\ nextRun \in Nat \ {0}
    /\ \A r \in runs : /\ r = [id |-> r.id, mode |-> r.mode, to |-> r.to, old |-> r.old]
                       /\ r.id \in 1 .. nextRun - 1
    /\ \A r, s \in runs : r.id = s.id => r = s
    /\ nextRun > 1 => \E r \in runs : r.id = nextRun - 1

\* A detection began on a day that was, and whoever it has a verdict on weighed
\* something in its window, or is erased.
Detected(p) ==
    /\ running[p].to \in AllDays /\ running[p].to <= today
    /\ DOMAIN running[p].verdict \subseteq Suspects
    /\ \A u \in DOMAIN running[p].verdict :
          /\ running[p].verdict[u] \in 0 .. FULL_FACTOR
          /\ u \in erased \/ weighedDays[u] \cap WindowTo(running[p].to) # {}
DetectionsStand ==
    /\ DOMAIN running = Detectors
    /\ \A p \in Detectors :
          /\ running[p] = [at |-> running[p].at, mode |-> running[p].mode,
                           to |-> running[p].to, verdict |-> running[p].verdict,
                           old |-> running[p].old]
          /\ running[p].at = "detected" => Detected(p)

\* The rows in the last run's window are its own.
LastRunsRows ==
    /\ \A r \in runs : r.id = nextRun - 1 =>
          \A u \in Suspects :
             /\ \A d \in WindowTo(r.to) : days[u][d] # NoRow => days[u][d].run = r.id
             /\ r.mode = "report" => days[u] = NoRows
    /\ \A u \in Suspects : u \in erased => days[u] = NoRows

CoordinationInv == FactorsTyped /\ RunsNumbered /\ DetectionsStand /\ LastRunsRows

-----------------------------------------------------------------------------
(* What the definitions the actions are built from yield.                   *)

LEMMA Windows ==
  /\ AllDays \subseteq Int /\ 1 \in AllDays
  /\ \A to \in AllDays : /\ WindowTo(to) \subseteq AllDays
                         /\ \A d \in AllDays : d \in WindowTo(to)
                                               <=> to - WindowDays + 1 <= d /\ d <= to
  BY CoordinationConstants DEF AllDays, WindowTo

LEMMA EmptyRows ==
  /\ NoRow \in FactorRows /\ NoRow.factor = FULL_FACTOR /\ NoRow.run = 0
  /\ NoRows \in [AllDays -> FactorRows]
  /\ \A d \in AllDays : NoRows[d] = NoRow
  BY DEF NoRow, NoRows, FactorRows, FULL_FACTOR

\* The lowest of some rows' factors.
IsLowest(kept, when, m) ==
    /\ m \in 0 .. FULL_FACTOR
    /\ \A d \in when : m <= kept[d].factor
    /\ m = FULL_FACTOR \/ \E d \in when : m = kept[d].factor

LEMMA LowestOfRows ==
  ASSUME NEW kept, NEW when, \A d \in when : kept[d].factor \in 0 .. FULL_FACTOR
  PROVE  IsLowest(kept, when, Min({FULL_FACTOR} \cup {kept[d].factor : d \in when}))
  <1> DEFINE S == {FULL_FACTOR} \cup {kept[d].factor : d \in when}
  <1>1. S \subseteq 0 .. FULL_FACTOR /\ FULL_FACTOR \in S
    BY DEF FULL_FACTOR
  <1>2. \A x \in S : x = FULL_FACTOR \/ \E d \in when : x = kept[d].factor
    OBVIOUS
  <1>3. \A d \in when : kept[d].factor \in S
    OBVIOUS
  <1>4. \E m \in S : \A x \in S : m <= x
    <2> HIDE DEF S
    <2>1. S \subseteq {0, 1, 2}
      BY <1>1 DEF FULL_FACTOR
    <2>2. CASE 0 \in S
      BY <2>1, <2>2
    <2>3. CASE 0 \notin S /\ 1 \in S
      BY <2>1, <2>3
    <2>4. CASE 0 \notin S /\ 1 \notin S
      BY <1>1, <2>1, <2>4
    <2> QED
      BY <2>2, <2>3, <2>4
  <1>5. Min(S) \in S /\ \A x \in S : Min(S) <= x
    BY <1>4 DEF Min
  <1> HIDE DEF S
  <1>6. IsLowest(kept, when, Min(S))
    BY <1>1, <1>2, <1>3, <1>5 DEF IsLowest
  <1> QED
    BY <1>6 DEF S

LEMMA LowestIs ==
  ASSUME FactorsTyped, NEW u \in Suspects, NEW when \in SUBSET AllDays
  PROVE  IsLowest(days[u], when, Lowest(u, when))
  <1>1. \A d \in when : days[u][d].factor \in 0 .. FULL_FACTOR
    BY DEF FactorsTyped, FactorRows
  <1> QED
    BY <1>1, LowestOfRows DEF Lowest

\* Nothing has two lowest factors.
LEMMA LowestUnique ==
  ASSUME NEW kept, NEW when, NEW m, NEW n, IsLowest(kept, when, m), IsLowest(kept, when, n)
  PROVE  m = n
  BY DEF IsLowest, FULL_FACTOR

\* The last run is the latest, and the one its id names.
LEMMA LatestIs ==
  ASSUME RunsNumbered
  PROVE  /\ runs # {} <=> nextRun > 1
         /\ runs # {} => /\ LatestRun = nextRun - 1
                         /\ RunOf(LatestRun) \in runs /\ RunOf(LatestRun).id = nextRun - 1
         /\ runs = {} => LatestRun = 0
  <1>1. runs # {} => nextRun > 1
    BY DEF RunsNumbered
  <1>2. nextRun > 1 => runs # {}
    BY DEF RunsNumbered
  <1>3. ASSUME runs # {}
        PROVE  LatestRun = nextRun - 1 /\ \E r \in runs : r.id = nextRun - 1
    <2>1. PICK r \in runs : r.id = nextRun - 1
      BY <1>1, <1>3 DEF RunsNumbered
    <2> DEFINE S == {s.id : s \in runs}
    <2>2. nextRun - 1 \in S /\ \A x \in S : x \in Int /\ x <= nextRun - 1
      BY <2>1 DEF RunsNumbered
    <2>3. Max(S) = nextRun - 1
      <3> HIDE DEF S
      <3>1. nextRun - 1 \in Int
        BY DEF RunsNumbered
      <3>2. \E x \in S : \A y \in S : x >= y
        BY <2>2, <3>1
      <3>3. Max(S) \in S /\ \A y \in S : Max(S) >= y
        BY <3>2 DEF Max
      <3> QED
        BY <2>2, <3>1, <3>3
    <2> QED
      BY <1>3, <2>1, <2>3 DEF LatestRun
  <1>4. ASSUME runs # {}
        PROVE  RunOf(LatestRun) \in runs /\ RunOf(LatestRun).id = nextRun - 1
    BY <1>3, <1>4 DEF RunOf
  <1> QED
    BY <1>1, <1>2, <1>3, <1>4 DEF LatestRun

-----------------------------------------------------------------------------
(* What a stored run leaves.                                                *)

\* A verdict that flags somebody is of an account that weighed something in
\* the window: otherwise it is erased, and the run fails.
LEMMA StoredRows ==
  ASSUME CoordinationInv, NEW p \in Detectors, StoreRun(p)
  PROVE  LET run == running[p] IN
         /\ run.to \in AllDays /\ run.to <= today
         /\ days' \in [Suspects -> [AllDays -> FactorRows]]
         /\ \A u \in Suspects, d \in AllDays :
               /\ run.mode # "apply" => days'[u][d] = NoRow
               /\ run.mode = "apply" /\ d \notin WindowTo(run.to) => days'[u][d] = days[u][d]
               /\ run.mode = "apply" /\ d \in WindowTo(run.to) =>
                     days'[u][d] = IF u \in VerdictFlags(run.verdict) /\ d \in weighedDays[u]
                                   THEN [factor |-> run.verdict[u], run |-> nextRun] ELSE NoRow
         /\ \A u \in VerdictFlags(run.verdict) :
               /\ u \in Suspects /\ u \notin erased
               /\ run.verdict[u] \in 0 .. FULL_FACTOR
               /\ \E d \in WindowTo(run.to) : d \in weighedDays[u]
  <1> DEFINE run == running[p]
  <1>1. run.at = "detected" /\ Detected(p)
    BY DEF CoordinationInv, DetectionsStand, StoreRun
  <1>2. /\ run.to \in AllDays /\ run.to <= today
        /\ \A u \in DOMAIN run.verdict :
              /\ u \in Suspects /\ run.verdict[u] \in 0 .. FULL_FACTOR
              /\ u \in erased \/ weighedDays[u] \cap WindowTo(run.to) # {}
    BY <1>1 DEF Detected
  <1>3. VerdictFlags(run.verdict) \cap erased = {} /\ days' = DaysAfter(run)
    BY DEF StoreRun
  <1>4. /\ nextRun \in Nat /\ days \in [Suspects -> [AllDays -> FactorRows]]
    BY DEF CoordinationInv, FactorsTyped, RunsNumbered
  <1> HIDE DEF run
  <1>5. ASSUME NEW u \in VerdictFlags(run.verdict)
        PROVE  /\ u \in Suspects /\ u \notin erased
               /\ run.verdict[u] \in 0 .. FULL_FACTOR
               /\ \E d \in WindowTo(run.to) : d \in weighedDays[u]
    <2>1. u \in DOMAIN run.verdict /\ u \notin erased
      BY <1>3 DEF VerdictFlags
    <2> QED
      BY <1>2, <2>1
  <1> DEFINE new(u, d) ==
               IF run.mode # "apply" THEN NoRow
               ELSE IF d \notin WindowTo(run.to) THEN days[u][d]
               ELSE IF u \in VerdictFlags(run.verdict) /\ d \in weighedDays[u]
                    THEN [factor |-> run.verdict[u], run |-> nextRun] ELSE NoRow
  <1>6. ASSUME NEW u \in Suspects, NEW d \in AllDays
        PROVE  new(u, d) \in FactorRows
    BY <1>4, <1>5, EmptyRows DEF FactorRows
  <1>7. days' = [u \in Suspects |-> [d \in AllDays |-> new(u, d)]]
    BY <1>3 DEF DaysAfter
  <1> HIDE DEF new
  <1>8. days' \in [Suspects -> [AllDays -> FactorRows]]
    BY <1>6, <1>7
  <1>9. \A u \in Suspects, d \in AllDays : days'[u][d] = new(u, d)
    BY <1>7
  <1> QED
    BY <1>2, <1>5, <1>8, <1>9 DEF new, run

LEMMA StoredRow ==
  ASSUME CoordinationInv, NEW p \in Detectors, StoreRun(p), NEW u \in Suspects, NEW d \in AllDays
  PROVE  \/ days'[u][d] = NoRow
         \/ /\ running[p].mode = "apply" /\ d \notin WindowTo(running[p].to)
            /\ days'[u][d] = days[u][d]
         \/ /\ running[p].mode = "apply" /\ u \in VerdictFlags(running[p].verdict)
            /\ days'[u][d] = [factor |-> running[p].verdict[u], run |-> nextRun]
  <1>1. PICK run : run = running[p]
    OBVIOUS
  <1>2. /\ run.mode # "apply" => days'[u][d] = NoRow
        /\ run.mode = "apply" /\ d \notin WindowTo(run.to) => days'[u][d] = days[u][d]
        /\ run.mode = "apply" /\ d \in WindowTo(run.to) =>
              days'[u][d] = IF u \in VerdictFlags(run.verdict) /\ d \in weighedDays[u]
                            THEN [factor |-> run.verdict[u], run |-> nextRun] ELSE NoRow
    BY <1>1, StoredRows
  <1> QED
    BY <1>1, <1>2

\* A run that is not overdue queues every account whose votes it gives another
\* weight.
LEMMA StoreTells ==
  ASSUME CoordinationInv, NEW p \in Detectors, StoreRun(p), ~Overdue(p),
         NEW u \in Suspects, u \notin ChangedBy(running[p])
  PROVE  Lowest(u, VotingDays)' = Lowest(u, VotingDays)
  <1> DEFINE run == running[p]
             W == WindowTo(run.to)
             V == VotingDays
  <1>1. FactorsTyped /\ today \in AllDays /\ today' = today /\ run.at = "detected"
    BY DEF CoordinationInv, FactorsTyped, StoreRun
  <1>2. run.to \in AllDays /\ run.to <= today /\ ~(run.to < today - 1)
    BY <1>1, StoredRows DEF Overdue
  <1>3. W \subseteq AllDays /\ V \subseteq AllDays /\ V' = V
    BY <1>1, <1>2, Windows DEF VotingDays
  <1>4. W \subseteq V
    <2>1. ASSUME NEW d \in W
          PROVE  d \in V
      <3>1. d \in AllDays /\ run.to - WindowDays + 1 <= d
        BY <1>2, <1>3, Windows
      <3>2. d \in Int /\ run.to \in Int /\ today \in Int /\ WindowDays \in Int
        BY <1>1, <1>2, <3>1, CoordinationConstants DEF AllDays
      <3>3. d >= today - WindowDays
        BY <1>2, <3>1, <3>2
      <3> QED
        BY <3>1, <3>3 DEF VotingDays
    <2> QED
      BY <2>1
  <1>5. PICK old, new :
          /\ old = days[u] /\ new = days'[u]
          /\ old \in [AllDays -> FactorRows] /\ new \in [AllDays -> FactorRows]
    BY <1>1, StoredRows DEF FactorsTyped
  <1>12. /\ run.mode # "apply" => \A d \in AllDays : new[d] = NoRow
         /\ run.mode = "apply" =>
              /\ \A d \in AllDays : d \notin W => new[d] = old[d]
              /\ \A d \in W : new[d] = IF u \in VerdictFlags(run.verdict) /\ d \in weighedDays[u]
                                      THEN [factor |-> run.verdict[u], run |-> nextRun]
                                      ELSE NoRow
    BY <1>3, <1>5, StoredRows
  <1>13. u \in VerdictFlags(run.verdict) => /\ run.verdict[u] \in 0 .. FULL_FACTOR
                                           /\ \E d \in W : d \in weighedDays[u]
    BY StoredRows
  <1>6. PICK m, n, all, inside :
          /\ m = Lowest(u, V) /\ n = Lowest(u, V)'
          /\ all = Lowest(u, AllDays) /\ inside = Lowest(u, W)
    OBVIOUS
  <1>7. IsLowest(old, V, m) /\ IsLowest(old, AllDays, all) /\ IsLowest(old, W, inside)
    BY <1>1, <1>3, <1>5, <1>6, LowestIs
  <1>8. IsLowest(new, V, n)
    <2>1. \A d \in V : new[d].factor \in 0 .. FULL_FACTOR
      BY <1>3, <1>5 DEF FactorRows
    <2>2. IsLowest(new, V, Min({FULL_FACTOR} \cup {new[d].factor : d \in V}))
      BY <2>1, LowestOfRows
    <2>3. n = Min({FULL_FACTOR} \cup {new[d].factor : d \in V})
      BY <1>3, <1>5, <1>6 DEF Lowest
    <2> QED
      BY <2>2, <2>3
  <1>9. FULL_FACTOR \in 0 .. FULL_FACTOR /\ NoRow.factor = FULL_FACTOR
    BY EmptyRows DEF FULL_FACTOR
  <1>10. CASE run.mode # "apply"
    <2>1. all = FULL_FACTOR
      BY <1>6, <1>10 DEF ChangedBy
    <2>2. \A d \in V : old[d].factor = FULL_FACTOR
      <3>1. \A d \in V : FULL_FACTOR <= old[d].factor /\ old[d].factor \in 0 .. FULL_FACTOR
        BY <1>3, <1>5, <1>7, <2>1 DEF IsLowest, FactorRows
      <3> QED
        BY <3>1 DEF FULL_FACTOR
    <2>3. m = FULL_FACTOR
      BY <1>7, <2>2 DEF IsLowest
    <2>4. \A d \in V : new[d] = NoRow
      BY <1>3, <1>10, <1>12
    <2>5. n = FULL_FACTOR
      BY <1>8, <1>9, <2>4 DEF IsLowest
    <2> QED
      BY <1>6, <2>3, <2>5
  <1>11. CASE run.mode = "apply"
    <2>1. inside = IF u \in VerdictFlags(run.verdict) THEN run.verdict[u] ELSE FULL_FACTOR
      BY <1>6, <1>11 DEF ChangedBy
    <2>2. \A d \in V : d \notin W => new[d] = old[d]
      BY <1>3, <1>11, <1>12
    <2>3. IsLowest(new, W, inside)
      <3>1. CASE u \in VerdictFlags(run.verdict)
        <4>1. PICK d \in W : d \in weighedDays[u]
          BY <3>1, <1>13
        <4>2. new[d].factor = run.verdict[u]
          BY <1>11, <1>12, <3>1, <4>1
        <4>3. \A e \in W : \/ new[e].factor = run.verdict[u]
                           \/ new[e].factor = FULL_FACTOR
          BY <1>9, <1>11, <1>12, <3>1
        <4>4. run.verdict[u] \in 0 .. FULL_FACTOR
          BY <3>1, <1>13
        <4>5. inside = run.verdict[u]
          BY <2>1, <3>1
        <4> HIDE DEF run, W
        <4> QED
          BY <4>1, <4>2, <4>3, <4>4, <4>5 DEF IsLowest, FULL_FACTOR
      <3>2. CASE u \notin VerdictFlags(run.verdict)
        <4>1. \A e \in W : new[e].factor = FULL_FACTOR
          BY <1>9, <1>11, <1>12, <3>2
        <4>2. inside = FULL_FACTOR
          BY <2>1, <3>2
        <4> HIDE DEF run, W
        <4> QED
          BY <4>1, <4>2 DEF IsLowest, FULL_FACTOR
      <3> QED
        BY <3>1, <3>2
    <2>4. IsLowest(new, V, m)
      <3> HIDE DEF run, W, V
      <3>1. m \in 0 .. FULL_FACTOR /\ inside \in 0 .. FULL_FACTOR
        BY <1>7 DEF IsLowest
      <3>2. m <= inside
        BY <1>4, <1>7 DEF IsLowest, FULL_FACTOR
      <3>3. \A d \in V : m <= new[d].factor
        <4>1. ASSUME NEW d \in V
              PROVE  m <= new[d].factor
          <5>1. CASE d \in W
            <6>1. inside <= new[d].factor /\ new[d].factor \in 0 .. FULL_FACTOR
              BY <1>3, <1>5, <2>3, <5>1 DEF IsLowest, FactorRows
            <6> QED
              BY <3>1, <3>2, <6>1 DEF FULL_FACTOR
          <5>2. CASE d \notin W
            BY <1>7, <2>2, <5>2 DEF IsLowest
          <5> QED
            BY <5>1, <5>2
        <4> QED
          BY <4>1
      <3>4. m = FULL_FACTOR \/ \E d \in V : m = new[d].factor
        <4>1. CASE m = FULL_FACTOR
          BY <4>1
        <4>2. CASE \E d \in V : m = old[d].factor
          <5>1. PICK d \in V : m = old[d].factor
            BY <4>2
          <5>2. CASE d \notin W
            BY <2>2, <5>1, <5>2
          <5>3. CASE d \in W
            <6>1. inside <= m
              BY <1>7, <5>1, <5>3 DEF IsLowest
            <6>2. inside = m
              BY <3>1, <3>2, <6>1 DEF FULL_FACTOR
            <6>3. m = FULL_FACTOR \/ \E e \in W : m = new[e].factor
              BY <2>3, <6>2 DEF IsLowest
            <6> QED
              BY <1>4, <6>3
          <5> QED
            BY <5>2, <5>3
        <4> QED
          BY <1>7, <4>1, <4>2 DEF IsLowest
      <3> QED
        BY <3>1, <3>3, <3>4 DEF IsLowest
    <2> QED
      BY <1>6, <1>8, <2>4, LowestUnique
  <1> QED
    BY <1>10, <1>11

LEMMA FactorStepsTold ==
  ASSUME CoordinationInv, [CoordinationNext]_coordinationVars
  PROVE  FactorChangesAreTold
  <1>1. SUFFICES ASSUME NEW u \in Suspects, today' = today, u \notin told',
                        ~\E p \in Detectors : Overdue(p) /\ StoreRun(p)
                 PROVE  Lowest(u, VotingDays)' = Lowest(u, VotingDays)
    BY <1>1 DEF FactorChangesAreTold
  <1>2. VotingDays' = VotingDays /\ VotingDays \subseteq AllDays
    BY <1>1 DEF VotingDays
  <1>3. ASSUME days'[u] = days[u]
        PROVE  Lowest(u, VotingDays)' = Lowest(u, VotingDays)
    BY <1>2, <1>3 DEF Lowest
  <1>4. FactorsTyped
    BY DEF CoordinationInv
  <1>5. CASE UNCHANGED days
    BY <1>3, <1>5
  <1>6. CASE \E p \in Detectors : StoreRun(p)
    <2>1. PICK p \in Detectors : StoreRun(p)
      BY <1>6
    <2>2. ~Overdue(p) /\ told' = told \cup ChangedBy(running[p])
      BY <1>1, <2>1 DEF StoreRun
    <2> QED
      BY <1>1, <2>1, <2>2, StoreTells
  <1>7. CASE \E mode : RestartWith(mode)
    <2>1. PICK mode : RestartWith(mode)
      BY <1>7
    <2>2. CASE mode # "off"
      BY <1>3, <2>1, <2>2 DEF RestartWith
    <2>3. CASE mode = "off"
      <3>1. /\ days' = [v \in Suspects |-> [d \in AllDays |-> NoRow]]
            /\ ~(Lowest(u, AllDays) < FULL_FACTOR)
        BY <1>1, <2>1, <2>3 DEF RestartWith
      <3>2. PICK old : old = days[u]
        OBVIOUS
      <3>3. IsLowest(old, AllDays, Lowest(u, AllDays)) /\ IsLowest(old, VotingDays, Lowest(u, VotingDays))
        BY <1>2, <1>4, <3>2, LowestIs
      <3>4. PICK all, m : all = Lowest(u, AllDays) /\ m = Lowest(u, VotingDays)
        OBVIOUS
      <3>5. m = FULL_FACTOR
        <4>1. all = FULL_FACTOR
          BY <3>1, <3>3, <3>4 DEF IsLowest, FULL_FACTOR
        <4> QED
          BY <1>2, <3>3, <3>4, <4>1 DEF IsLowest, FULL_FACTOR
      <3>6. PICK n : n = Lowest(u, VotingDays)'
        OBVIOUS
      <3>7. \A d \in VotingDays : days'[u][d] = NoRow
        BY <1>2, <3>1
      <3>8. n = FULL_FACTOR
        <4>1. n = Min({FULL_FACTOR} \cup {days'[u][d].factor : d \in VotingDays})
          BY <1>2, <3>6 DEF Lowest
        <4>2. {FULL_FACTOR} \cup {days'[u][d].factor : d \in VotingDays} = {FULL_FACTOR}
          BY <3>7, EmptyRows
        <4> QED
          BY <4>1, <4>2 DEF Min, FULL_FACTOR
      <3> QED
        BY <3>4, <3>5, <3>6, <3>8
    <2> QED
      BY <2>2, <2>3
  <1>8. CASE \E v \in Suspects : EraseSuspect(v)
    <2>1. PICK v \in Suspects : EraseSuspect(v)
      BY <1>8
    <2>2. v # u
      BY <1>1, <2>1 DEF EraseSuspect
    <2>3. days'[u] = days[u]
      BY <1>4, <2>1, <2>2 DEF EraseSuspect, FactorsTyped
    <2> QED
      BY <1>3, <2>3
  <1>9. CASE UNCHANGED coordinationVars
    BY <1>5, <1>9 DEF coordinationVars
  <1>10. ASSUME \/ \E v \in Suspects : WeighDay(v)
                \/ NextDayComes \/ IntervalPasses \/ WorkerRunsIfDue \/ OperatorRuns
                \/ \E p \in Detectors : StoreFails(p)
                \/ PurgeRuns \/ AlbumsDecided
         PROVE  UNCHANGED days
    BY <1>10 DEF WeighDay, NextDayComes, IntervalPasses, WorkerRunsIfDue, OperatorRuns,
       LoadAndDetect, StoreFails, PurgeRuns, AlbumsDecided
  <1> QED
    BY <1>5, <1>6, <1>7, <1>8, <1>9, <1>10 DEF CoordinationNext

-----------------------------------------------------------------------------
(* The invariant holds at first, and through every step.                    *)

LEMMA CoordinationStarts == CoordinationInit => CoordinationInv
  <1> SUFFICES ASSUME CoordinationInit PROVE CoordinationInv
    OBVIOUS
  <1>1. today = 1 /\ nextRun = 1 /\ runs = {} /\ erased = {}
    BY DEF CoordinationInit
  <1>2. days = [u \in Suspects |-> NoRows]
    BY DEF CoordinationInit, NoRows
  <1>3. FactorsTyped
    <2>1. weighedDays \in [Suspects -> SUBSET AllDays]
      BY DEF CoordinationInit
    <2>2. \A u \in Suspects, d \in AllDays : days[u][d].run \in 0 .. nextRun - 1
      BY <1>1, <1>2, EmptyRows
    <2>3. days \in [Suspects -> [AllDays -> FactorRows]]
      BY <1>2, EmptyRows
    <2> QED
      BY <1>1, <2>1, <2>2, <2>3, Windows DEF FactorsTyped
  <1>4. RunsNumbered
    BY <1>1 DEF RunsNumbered
  <1>5. DetectionsStand
    BY DEF CoordinationInit, DetectionsStand, NotDetecting
  <1>6. LastRunsRows
    BY <1>1 DEF LastRunsRows
  <1> QED
    BY <1>3, <1>4, <1>5, <1>6 DEF CoordinationInv

LEMMA FactorsStayTyped ==
  ASSUME CoordinationInv, [CoordinationNext]_coordinationVars
  PROVE  FactorsTyped'
  <1>1. /\ FactorsTyped /\ nextRun \in Nat \ {0}
    BY DEF CoordinationInv, RunsNumbered
  <1>2. CASE /\ UNCHANGED <<days, nextRun>> /\ today' \in AllDays
             /\ weighedDays' \in [Suspects -> SUBSET AllDays]
    BY <1>1, <1>2 DEF FactorsTyped
  <1>3. CASE UNCHANGED <<today, weighedDays, days, nextRun>>
    BY <1>1, <1>3, <1>2 DEF FactorsTyped
  <1>4. CASE \E u \in Suspects : WeighDay(u)
    <2>1. PICK u \in Suspects : WeighDay(u)
      BY <1>4
    <2>2. weighedDays' \in [Suspects -> SUBSET AllDays]
      BY <1>1, <2>1 DEF WeighDay, FactorsTyped
    <2> QED
      BY <1>1, <1>2, <2>1, <2>2 DEF WeighDay, FactorsTyped
  <1>5. CASE NextDayComes
    <2>1. today' \in AllDays
      BY <1>1, <1>5, CoordinationConstants DEF NextDayComes, FactorsTyped, AllDays
    <2> QED
      BY <1>1, <1>2, <1>5, <2>1 DEF NextDayComes, FactorsTyped
  <1>6. CASE \E p \in Detectors : StoreRun(p)
    <2>1. PICK p \in Detectors : StoreRun(p)
      BY <1>6
    <2>2. /\ nextRun' = nextRun + 1
          /\ UNCHANGED <<today, weighedDays>>
      BY <2>1 DEF StoreRun
    <2>3. days' \in [Suspects -> [AllDays -> FactorRows]]
      BY <2>1, StoredRows
    <2>4. ASSUME NEW u \in Suspects, NEW d \in AllDays
          PROVE  days'[u][d].run \in 0 .. nextRun' - 1
      <3>1. days'[u][d] = NoRow \/ days'[u][d] = days[u][d] \/ days'[u][d].run = nextRun
        <4>1. CASE days'[u][d] = [factor |-> running[p].verdict[u], run |-> nextRun]
          BY <4>1
        <4> QED
          BY <2>1, <4>1, StoredRow
      <3>2. days[u][d].run \in 0 .. nextRun - 1
        BY <1>1 DEF FactorsTyped
      <3> QED
        BY <1>1, <2>2, <3>1, <3>2, EmptyRows
    <2> QED
      BY <1>1, <2>2, <2>3, <2>4 DEF FactorsTyped
  <1>7. ASSUME days' = [u \in Suspects |-> [d \in AllDays |-> NoRow]],
               UNCHANGED <<today, weighedDays, nextRun>>
        PROVE  FactorsTyped'
    <2>1. days' = [u \in Suspects |-> NoRows]
      BY <1>7 DEF NoRows
    <2>2. days' \in [Suspects -> [AllDays -> FactorRows]]
      BY <2>1, EmptyRows
    <2>3. \A u \in Suspects, d \in AllDays : days'[u][d].run \in 0 .. nextRun' - 1
      BY <1>1, <1>7, <2>1, EmptyRows
    <2> QED
      BY <1>1, <1>7, <2>2, <2>3 DEF FactorsTyped
  <1>8. CASE \E mode : RestartWith(mode)
    BY <1>3, <1>7, <1>8 DEF RestartWith
  <1>9. CASE \E u \in Suspects : EraseSuspect(u)
    <2>1. PICK u \in Suspects : EraseSuspect(u)
      BY <1>9
    <2>2. /\ days' = [days EXCEPT ![u] = NoRows]
          /\ weighedDays' = [weighedDays EXCEPT ![u] = {}]
          /\ UNCHANGED <<today, nextRun>>
      BY <2>1 DEF EraseSuspect, NoRows
    <2>3. days' \in [Suspects -> [AllDays -> FactorRows]]
      BY <1>1, <2>2, EmptyRows DEF FactorsTyped
    <2>4. \A v \in Suspects, d \in AllDays : days'[v][d].run \in 0 .. nextRun' - 1
      BY <1>1, <2>2, EmptyRows DEF FactorsTyped
    <2>5. weighedDays' \in [Suspects -> SUBSET AllDays]
      BY <1>1, <2>2 DEF FactorsTyped
    <2> QED
      BY <1>1, <2>2, <2>3, <2>4, <2>5 DEF FactorsTyped
  <1>10. ASSUME \/ IntervalPasses \/ WorkerRunsIfDue \/ OperatorRuns
                \/ \E p \in Detectors : StoreFails(p)
                \/ PurgeRuns \/ AlbumsDecided \/ UNCHANGED coordinationVars
         PROVE  UNCHANGED <<today, weighedDays, days, nextRun>>
    BY <1>10 DEF IntervalPasses, WorkerRunsIfDue, OperatorRuns,
       LoadAndDetect, StoreFails, PurgeRuns, AlbumsDecided, coordinationVars
  <1> QED
    BY <1>3, <1>4, <1>5, <1>6, <1>8, <1>9, <1>10 DEF CoordinationNext

LEMMA RunsStayNumbered ==
  ASSUME CoordinationInv, [CoordinationNext]_coordinationVars
  PROVE  RunsNumbered'
  <1>1. RunsNumbered
    BY DEF CoordinationInv
  <1>2. CASE UNCHANGED <<runs, nextRun>>
    BY <1>1, <1>2 DEF RunsNumbered
  <1>3. CASE IntervalPasses
    <2>1. runs' = {[r EXCEPT !.old = TRUE] : r \in runs} /\ nextRun' = nextRun
      BY <1>3 DEF IntervalPasses
    <2>2. ASSUME NEW r \in runs, NEW n, n = [r EXCEPT !.old = TRUE]
          PROVE  /\ n = [id |-> n.id, mode |-> n.mode, to |-> n.to, old |-> n.old]
                 /\ n.id = r.id
      <3>1. r = [id |-> r.id, mode |-> r.mode, to |-> r.to, old |-> r.old]
        BY <1>1 DEF RunsNumbered
      <3> QED
        BY <2>2, <3>1
    <2>3. ASSUME NEW n \in runs'
          PROVE  \E r \in runs : n = [r EXCEPT !.old = TRUE] /\ n.id = r.id
      <3>1. PICK r \in runs : n = [r EXCEPT !.old = TRUE]
        BY <2>1
      <3> QED
        BY <2>2, <3>1
    <2>4. \A n \in runs' : /\ n = [id |-> n.id, mode |-> n.mode, to |-> n.to, old |-> n.old]
                           /\ n.id \in 1 .. nextRun' - 1
      <3>1. ASSUME NEW n \in runs'
            PROVE  /\ n = [id |-> n.id, mode |-> n.mode, to |-> n.to, old |-> n.old]
                   /\ n.id \in 1 .. nextRun' - 1
        <4>1. PICK r \in runs : n = [r EXCEPT !.old = TRUE] /\ n.id = r.id
          BY <2>3
        <4>2. n.id \in 1 .. nextRun' - 1
          BY <1>1, <2>1, <4>1 DEF RunsNumbered
        <4> QED
          BY <2>2, <4>1, <4>2
      <3> QED
        BY <3>1
    <2>5. ASSUME NEW m \in runs', NEW n \in runs', m.id = n.id
          PROVE  m = n
      <3>1. PICK a \in runs : m = [a EXCEPT !.old = TRUE] /\ m.id = a.id
        BY <2>3
      <3>2. PICK b \in runs : n = [b EXCEPT !.old = TRUE] /\ n.id = b.id
        BY <2>3
      <3>3. a = b
        BY <1>1, <2>5, <3>1, <3>2 DEF RunsNumbered
      <3> QED
        BY <3>1, <3>2, <3>3
    <2>6. ASSUME nextRun' > 1
          PROVE  \E r \in runs' : r.id = nextRun' - 1
      <3>1. PICK r \in runs : r.id = nextRun - 1
        BY <1>1, <2>1, <2>6 DEF RunsNumbered
      <3>2. PICK n \in runs' : n = [r EXCEPT !.old = TRUE]
        BY <2>1
      <3>3. n.id = nextRun' - 1
        BY <2>1, <2>2, <3>1, <3>2
      <3> QED
        BY <3>3
    <2> QED
      BY <1>1, <2>1, <2>4, <2>5, <2>6 DEF RunsNumbered
  <1>4. CASE \E p \in Detectors : StoreRun(p)
    <2>1. PICK p \in Detectors : StoreRun(p)
      BY <1>4
    <2>2. PICK new : /\ new = [id |-> nextRun, mode |-> running[p].mode, to |-> running[p].to,
                               old |-> running[p].old]
                     /\ runs' = runs \cup {new} /\ nextRun' = nextRun + 1
      BY <2>1 DEF StoreRun
    <2>3. \A r \in runs : r.id # nextRun
      BY <1>1 DEF RunsNumbered
    <2>4. new.id = nextRun /\ new = [id |-> new.id, mode |-> new.mode, to |-> new.to, old |-> new.old]
      BY <2>2
    <2> QED
      BY <1>1, <2>2, <2>3, <2>4 DEF RunsNumbered
  <1>5. CASE PurgeRuns
    <2>1. /\ runs' = {r \in runs : r.to >= today \/ r.id = LatestRun}
          /\ nextRun' = nextRun
      BY <1>5 DEF PurgeRuns
    <2>2. nextRun > 1 => LatestRun = nextRun - 1
      BY <1>1, LatestIs
    <2> QED
      BY <1>1, <2>1, <2>2 DEF RunsNumbered
  <1>6. ASSUME \/ \E u \in Suspects : WeighDay(u) \/ EraseSuspect(u)
               \/ NextDayComes \/ WorkerRunsIfDue \/ OperatorRuns
               \/ \E p \in Detectors : StoreFails(p)
               \/ \E mode : RestartWith(mode)
               \/ AlbumsDecided \/ UNCHANGED coordinationVars
        PROVE  UNCHANGED <<runs, nextRun>>
    BY <1>6 DEF WeighDay, EraseSuspect, NextDayComes, WorkerRunsIfDue, OperatorRuns,
       LoadAndDetect, StoreFails, RestartWith, AlbumsDecided, coordinationVars
  <1> QED
    BY <1>2, <1>3, <1>4, <1>5, <1>6 DEF CoordinationNext

\* A detector that is left alone, while days weigh and accounts go.
LEMMA DetectionStays ==
  ASSUME CoordinationInv, NEW p \in Detectors,
         running'[p] = running[p] \/ running'[p] = [running[p] EXCEPT !.old = TRUE],
         running'[p].at = "detected", today' \in Int, today <= today', erased \subseteq erased',
         \A u \in Suspects : weighedDays[u] \subseteq weighedDays'[u] \/ u \in erased'
  PROVE  Detected(p)'
  <1>1. PICK r : r = running[p]
    OBVIOUS
  <1>2. r = [at |-> r.at, mode |-> r.mode, to |-> r.to, verdict |-> r.verdict, old |-> r.old]
    BY <1>1 DEF CoordinationInv, DetectionsStand
  <1>3. PICK n : n = running'[p]
    OBVIOUS
  <1>4. n.at = r.at /\ n.to = r.to /\ n.verdict = r.verdict
    BY <1>1, <1>2, <1>3
  <1>5. Detected(p) /\ today \in AllDays
    BY <1>1, <1>3, <1>4 DEF CoordinationInv, DetectionsStand, FactorsTyped
  <1>6. n.to \in AllDays /\ n.to <= today'
    BY <1>1, <1>4, <1>5, Windows DEF Detected
  <1>7. DOMAIN n.verdict \subseteq Suspects
    BY <1>1, <1>4, <1>5 DEF Detected
  <1>8. \A u \in DOMAIN n.verdict :
          /\ n.verdict[u] \in 0 .. FULL_FACTOR
          /\ u \in erased' \/ weighedDays'[u] \cap WindowTo(n.to) # {}
    BY <1>1, <1>4, <1>5, <1>7 DEF Detected
  <1>9. WindowTo(running'[p].to) = WindowTo(n.to)
    BY <1>3
  <1> QED
    BY <1>3, <1>6, <1>7, <1>8 DEF Detected, WindowTo

LEMMA DetectionsStayStanding ==
  ASSUME CoordinationInv, [CoordinationNext]_coordinationVars
  PROVE  DetectionsStand'
  <1> USE DEF CoordinationInv
  <1>1. /\ FactorsTyped /\ DetectionsStand
        /\ today \in Int /\ \A d \in AllDays : d \in Int
    BY Windows DEF FactorsTyped
  <1>2. NotDetecting = [at |-> "idle", mode |-> NotDetecting.mode, to |-> NotDetecting.to,
                        verdict |-> NotDetecting.verdict, old |-> NotDetecting.old]
        /\ NotDetecting.at = "idle"
    BY DEF NotDetecting
  \* Each detector stops, is left alone, or has a new detection.
  <1>3. ASSUME DOMAIN running' = Detectors,
               \A p \in Detectors : \/ running'[p] = NotDetecting
                                    \/ running'[p] = running[p]
                                    \/ running'[p] = [running[p] EXCEPT !.old = TRUE],
               today' \in Int, today <= today', erased \subseteq erased',
               \A u \in Suspects : weighedDays[u] \subseteq weighedDays'[u] \/ u \in erased'
        PROVE  DetectionsStand'
    <2>1. ASSUME NEW p \in Detectors
          PROVE  /\ running'[p] = [at |-> running'[p].at, mode |-> running'[p].mode,
                                   to |-> running'[p].to, verdict |-> running'[p].verdict,
                                   old |-> running'[p].old]
                 /\ running'[p].at = "detected" => Detected(p)'
      <3>1. PICK r : /\ r = running[p]
                     /\ r = [at |-> r.at, mode |-> r.mode, to |-> r.to,
                             verdict |-> r.verdict, old |-> r.old]
        BY <1>1 DEF DetectionsStand
      <3>2. CASE running'[p] = NotDetecting
        BY <1>2, <3>2
      <3>3. CASE running'[p] = running[p] \/ running'[p] = [running[p] EXCEPT !.old = TRUE]
        <4>1. running'[p] = r \/ running'[p] = [r EXCEPT !.old = TRUE]
          BY <3>1, <3>3
        <4>2. running'[p] = [at |-> running'[p].at, mode |-> running'[p].mode,
                             to |-> running'[p].to, verdict |-> running'[p].verdict,
                             old |-> running'[p].old]
          BY <3>1, <4>1
        <4> QED
          BY <1>3, <3>3, <4>2, DetectionStays
      <3> QED
        BY <1>3, <3>2, <3>3
    <2> QED
      BY <1>3, <2>1 DEF DetectionsStand
  <1>4. ASSUME NEW p \in Detectors, NEW mode, LoadAndDetect(p, mode)
        PROVE  DetectionsStand'
    <2>1. PICK verdict \in [{u \in Suspects : weighedDays[u] \cap WindowTo(today) # {}}
                                -> 0 .. FULL_FACTOR] :
             running' = [running EXCEPT ![p] = [at |-> "detected", mode |-> mode, to |-> today,
                                                verdict |-> verdict, old |-> FALSE]]
      BY <1>4 DEF LoadAndDetect
    <2>2. UNCHANGED <<today, weighedDays, erased>>
      BY <1>4 DEF LoadAndDetect
    <2>3. DOMAIN running' = Detectors
      BY <1>1, <2>1 DEF DetectionsStand
    <2>4. PICK n : /\ n = running'[p]
                   /\ n = [at |-> "detected", mode |-> mode, to |-> today,
                           verdict |-> verdict, old |-> FALSE]
      BY <1>1, <2>1 DEF DetectionsStand
    <2>5. n.to = today /\ n.verdict = verdict
          /\ n = [at |-> n.at, mode |-> n.mode, to |-> n.to, verdict |-> n.verdict, old |-> n.old]
      BY <2>4
    <2>6. Detected(p)'
      <3>1. /\ n.to \in AllDays /\ n.to <= today'
            /\ DOMAIN n.verdict \subseteq Suspects
        BY <1>1, <2>2, <2>5 DEF FactorsTyped
      <3>2. \A u \in DOMAIN n.verdict :
               n.verdict[u] \in 0 .. FULL_FACTOR /\ weighedDays'[u] \cap WindowTo(n.to) # {}
        BY <2>2, <2>5
      <3> QED
        BY <2>4, <3>1, <3>2 DEF Detected, WindowTo
    <2>7. ASSUME NEW q \in Detectors, q # p
          PROVE  /\ running'[q] = [at |-> running'[q].at, mode |-> running'[q].mode,
                                   to |-> running'[q].to, verdict |-> running'[q].verdict,
                                   old |-> running'[q].old]
                 /\ running'[q].at = "detected" => Detected(q)'
      <3>1. running'[q] = running[q]
        BY <1>1, <2>1, <2>7 DEF DetectionsStand
      <3>2. \A u \in Suspects : weighedDays[u] \subseteq weighedDays'[u]
        BY <2>2
      <3>3. today' \in Int /\ today <= today' /\ erased \subseteq erased'
        BY <1>1, <2>2
      <3>4. running'[q].at = "detected" => Detected(q)'
        BY <3>1, <3>2, <3>3, DetectionStays
      <3> QED
        BY <1>1, <3>1, <3>4 DEF DetectionsStand
    <2> QED
      BY <2>3, <2>4, <2>5, <2>6, <2>7 DEF DetectionsStand
  <1>5. CASE WorkerRunsIfDue \/ OperatorRuns
    <2>1. "worker" \in Detectors /\ Operator \in Detectors
      BY DEF Detectors
    <2> QED
      BY <1>4, <1>5, <2>1 DEF WorkerRunsIfDue, OperatorRuns
  <1>6. DOMAIN running = Detectors
    BY <1>1 DEF DetectionsStand
  <1>7. CASE IntervalPasses
    <2>1. /\ running' = [p \in Detectors |->
                            IF running[p].at = "idle" THEN running[p]
                            ELSE [running[p] EXCEPT !.old = TRUE]]
          /\ UNCHANGED <<today, weighedDays, erased>>
      BY <1>7 DEF IntervalPasses
    <2> QED
      BY <1>1, <1>3, <2>1
  <1>8. CASE \E p \in Detectors : StoreRun(p) \/ StoreFails(p)
    <2>1. PICK p \in Detectors : /\ running' = [running EXCEPT ![p] = NotDetecting]
                                 /\ UNCHANGED <<today, weighedDays, erased>>
      BY <1>8 DEF StoreRun, StoreFails
    <2>2. \A q \in Detectors : running'[q] = NotDetecting \/ running'[q] = running[q]
      BY <1>6, <2>1
    <2> QED
      BY <1>1, <1>3, <1>6, <2>1, <2>2
  <1>9. CASE \E mode : RestartWith(mode)
    <2>1. /\ running' = [running EXCEPT !["worker"] = NotDetecting]
          /\ UNCHANGED <<today, weighedDays, erased>>
      BY <1>9 DEF RestartWith
    <2>2. \A q \in Detectors : running'[q] = NotDetecting \/ running'[q] = running[q]
      BY <1>6, <2>1
    <2> QED
      BY <1>1, <1>3, <1>6, <2>1, <2>2
  <1>10. CASE UNCHANGED running /\ UNCHANGED <<today, weighedDays, erased>>
    BY <1>1, <1>3, <1>6, <1>10
  <1>11. CASE NextDayComes
    <2>1. today' \in Int /\ today <= today' /\ UNCHANGED <<running, weighedDays, erased>>
      BY <1>1, <1>11 DEF NextDayComes
    <2> QED
      BY <1>1, <1>3, <1>6, <2>1
  <1>12. CASE \E u \in Suspects : WeighDay(u)
    <2>1. PICK u \in Suspects : WeighDay(u)
      BY <1>12
    <2>2. \A v \in Suspects : weighedDays[v] \subseteq weighedDays'[v]
      BY <1>1, <2>1 DEF WeighDay, FactorsTyped
    <2>3. UNCHANGED <<running, today, erased>>
      BY <2>1 DEF WeighDay
    <2> QED
      BY <1>1, <1>3, <1>6, <2>2, <2>3
  <1>13. CASE \E u \in Suspects : EraseSuspect(u)
    <2>1. PICK u \in Suspects : EraseSuspect(u)
      BY <1>13
    <2>2. \A v \in Suspects : weighedDays[v] \subseteq weighedDays'[v] \/ v \in erased'
      BY <1>1, <2>1 DEF EraseSuspect, FactorsTyped
    <2>3. UNCHANGED <<running, today>> /\ erased \subseteq erased'
      BY <2>1 DEF EraseSuspect
    <2> QED
      BY <1>1, <1>3, <1>6, <2>2, <2>3
  <1>14. ASSUME PurgeRuns \/ AlbumsDecided \/ UNCHANGED coordinationVars
         PROVE  UNCHANGED running /\ UNCHANGED <<today, weighedDays, erased>>
    BY <1>14 DEF PurgeRuns, AlbumsDecided, coordinationVars
  <1> QED
    BY <1>5, <1>7, <1>8, <1>9, <1>10, <1>11, <1>12, <1>13, <1>14 DEF CoordinationNext

LEMMA LastRunsRowsStay ==
  ASSUME CoordinationInv, [CoordinationNext]_coordinationVars
  PROVE  LastRunsRows'
  <1> USE DEF CoordinationInv
  <1>1. FactorsTyped /\ RunsNumbered /\ LastRunsRows
    OBVIOUS
  <1>2. CASE /\ UNCHANGED <<days, nextRun, erased>>
             /\ \A r \in runs' : \E s \in runs : r.id = s.id /\ r.to = s.to /\ r.mode = s.mode
    <2>1. ASSUME NEW r \in runs', r.id = nextRun' - 1, NEW u \in Suspects
          PROVE  /\ \A d \in WindowTo(r.to) : days'[u][d] # NoRow => days'[u][d].run = r.id
                 /\ r.mode = "report" => days'[u] = NoRows
      <3>1. PICK s \in runs : r.id = s.id /\ r.to = s.to /\ r.mode = s.mode
        BY <1>2
      <3> QED
        BY <1>1, <1>2, <2>1, <3>1 DEF LastRunsRows
    <2> QED
      BY <1>1, <1>2, <2>1 DEF LastRunsRows
  <1>3. CASE UNCHANGED <<days, nextRun, erased, runs>>
    BY <1>2, <1>3
  <1>4. CASE IntervalPasses
    <2>1. runs' = {[r EXCEPT !.old = TRUE] : r \in runs} /\ UNCHANGED <<days, nextRun, erased>>
      BY <1>4 DEF IntervalPasses
    <2>2. ASSUME NEW r \in runs
          PROVE  LET n == [r EXCEPT !.old = TRUE] IN
                 n.id = r.id /\ n.to = r.to /\ n.mode = r.mode
      <3>1. r = [id |-> r.id, mode |-> r.mode, to |-> r.to, old |-> r.old]
        BY <1>1 DEF RunsNumbered
      <3> QED
        BY <3>1
    <2> QED
      BY <1>2, <2>1, <2>2
  <1>5. CASE PurgeRuns
    <2>1. runs' \subseteq runs /\ UNCHANGED <<days, nextRun, erased>>
      BY <1>5 DEF PurgeRuns
    <2> QED
      BY <1>2, <2>1
  \* Rows that go: nobody's are left, or one account's.
  <1>6. ASSUME UNCHANGED <<runs, nextRun>>,
               \A u \in Suspects : days'[u] = days[u] \/ days'[u] = NoRows,
               \A u \in Suspects : u \in erased' => u \in erased \/ days'[u] = NoRows
        PROVE  LastRunsRows'
    <2>1. ASSUME NEW r \in runs, r.id = nextRun - 1, NEW u \in Suspects
          PROVE  /\ \A d \in WindowTo(r.to) : days'[u][d] # NoRow => days'[u][d].run = r.id
                 /\ r.mode = "report" => days'[u] = NoRows
      <3>1. r.mode = "report" => days'[u] = NoRows
        BY <1>1, <1>6, <2>1 DEF LastRunsRows
      <3>2. ASSUME NEW d \in WindowTo(r.to), days'[u][d] # NoRow
            PROVE  days'[u][d].run = r.id
        <4>1. d \in AllDays
          BY DEF WindowTo
        <4>2. days'[u] = days[u]
          BY <1>6, <3>2, <4>1, EmptyRows
        <4> QED
          BY <1>1, <2>1, <3>2, <4>2 DEF LastRunsRows
      <3> QED
        BY <3>1, <3>2
    <2>2. \A u \in Suspects : u \in erased' => days'[u] = NoRows
      BY <1>1, <1>6 DEF LastRunsRows
    <2> QED
      BY <1>6, <2>1, <2>2 DEF LastRunsRows
  <1>7. CASE \E mode : RestartWith(mode)
    <2>1. /\ UNCHANGED <<runs, nextRun, erased>>
          /\ \/ UNCHANGED days
             \/ days' = [u \in Suspects |-> [d \in AllDays |-> NoRow]]
      BY <1>7 DEF RestartWith
    <2>2. \A u \in Suspects : days'[u] = days[u] \/ days'[u] = NoRows
      BY <2>1 DEF NoRows
    <2> QED
      BY <1>6, <2>1, <2>2
  <1>8. CASE \E u \in Suspects : EraseSuspect(u)
    <2>1. PICK u \in Suspects : EraseSuspect(u)
      BY <1>8
    <2>2. /\ days' = [days EXCEPT ![u] = NoRows] /\ erased' = erased \cup {u}
          /\ UNCHANGED <<runs, nextRun>>
      BY <2>1 DEF EraseSuspect, NoRows
    <2>3. days'[u] = NoRows /\ \A v \in Suspects : v # u => days'[v] = days[v]
      BY <1>1, <2>2 DEF FactorsTyped
    <2> QED
      BY <1>6, <2>2, <2>3
  <1>9. CASE \E p \in Detectors : StoreRun(p)
    <2>1. PICK p \in Detectors : StoreRun(p)
      BY <1>9
    <2>2. PICK run : run = running[p]
      OBVIOUS
    <2>3. PICK new : /\ new.id = nextRun /\ new.mode = run.mode /\ new.to = run.to
                     /\ runs' = runs \cup {new}
                     /\ nextRun' = nextRun + 1 /\ erased' = erased
      BY <2>1, <2>2 DEF StoreRun
    <2>4. /\ nextRun \in Nat /\ \A r \in runs : r.id # nextRun
      BY <1>1 DEF RunsNumbered
    <2>5. /\ run.to \in AllDays
          /\ days' \in [Suspects -> [AllDays -> FactorRows]]
          /\ \A u \in VerdictFlags(run.verdict) : u \notin erased
      BY <2>1, <2>2, StoredRows
    <2>6. ASSUME NEW u \in Suspects, NEW d \in WindowTo(run.to), days'[u][d] # NoRow
          PROVE  days'[u][d].run = nextRun
      <3>1. d \in AllDays
        BY <2>5, Windows
      <3>2. days'[u][d] = [factor |-> run.verdict[u], run |-> nextRun]
        BY <2>1, <2>2, <2>6, <3>1, StoredRow
      <3> QED
        BY <3>2
    <2>7. ASSUME NEW u \in Suspects, run.mode = "report"
          PROVE  days'[u] = NoRows
      <3>1. \A d \in AllDays : days'[u][d] = NoRow
        BY <2>1, <2>2, <2>7, StoredRow
      <3> QED
        BY <2>5, <3>1 DEF NoRows
    <2>8. ASSUME NEW u \in Suspects, u \in erased
          PROVE  days'[u] = NoRows
      <3>1. u \notin VerdictFlags(run.verdict)
        BY <2>5, <2>8
      <3>2. \A d \in AllDays : days[u][d] = NoRow
        BY <1>1, <2>8, EmptyRows DEF LastRunsRows
      <3>3. \A d \in AllDays : days'[u][d] = NoRow
        BY <2>1, <2>2, <3>1, <3>2, StoredRow
      <3> QED
        BY <2>5, <3>3 DEF NoRows
    <2>9. ASSUME NEW r \in runs', r.id = nextRun' - 1
          PROVE  r.mode = run.mode /\ r.to = run.to /\ r.id = nextRun
      <3>1. nextRun' - 1 = nextRun
        BY <2>3, <2>4
      <3>2. r = new
        BY <2>3, <2>4, <2>9, <3>1
      <3> QED
        BY <2>3, <3>2
    <2> QED
      BY <2>3, <2>6, <2>7, <2>8, <2>9 DEF LastRunsRows
  <1>10. ASSUME \/ \E u \in Suspects : WeighDay(u)
                \/ NextDayComes \/ WorkerRunsIfDue \/ OperatorRuns
                \/ \E p \in Detectors : StoreFails(p)
                \/ AlbumsDecided \/ UNCHANGED coordinationVars
         PROVE  UNCHANGED <<days, nextRun, erased, runs>>
    BY <1>10 DEF WeighDay, NextDayComes, WorkerRunsIfDue, OperatorRuns,
       LoadAndDetect, StoreFails, AlbumsDecided, coordinationVars
  <1> QED
    BY <1>3, <1>4, <1>5, <1>7, <1>8, <1>9, <1>10 DEF CoordinationNext

-----------------------------------------------------------------------------
LEMMA CoordinationInvImplies ==
  ASSUME CoordinationInv
  PROVE  CoordinationTypeOK /\ FactorsAreOfOneRun
  <1>1. CoordinationTypeOK
    BY DEF CoordinationInv, CoordinationTypeOK, FactorsTyped, RunsNumbered, FactorRows
  <1>2. nextRun > 1 => LatestRun = nextRun - 1
    BY LatestIs DEF CoordinationInv
  <1>3. ASSUME runs # {}, NEW u \in Suspects
        PROVE  LET last == RunOf(LatestRun) IN
               /\ \A d \in WindowTo(last.to) : days[u][d] # NoRow => days[u][d].run = last.id
               /\ last.mode = "report" => days[u] = [d \in AllDays |-> NoRow]
               /\ u \in erased => days[u] = [d \in AllDays |-> NoRow]
    <2>1. RunOf(LatestRun) \in runs /\ RunOf(LatestRun).id = nextRun - 1
      BY <1>3, LatestIs DEF CoordinationInv
    <2> QED
      BY <2>1 DEF CoordinationInv, LastRunsRows, NoRows
  <1>4. FactorsAreOfOneRun
    BY <1>2, <1>3 DEF FactorsAreOfOneRun
  <1> QED
    BY <1>1, <1>4

LEMMA CoordinationInvariant == CoordinationSpec => []CoordinationInv
  <1>1. ASSUME CoordinationInv, [CoordinationNext]_coordinationVars
        PROVE  CoordinationInv'
    BY <1>1, FactorsStayTyped, RunsStayNumbered, DetectionsStayStanding, LastRunsRowsStay
    DEF CoordinationInv
  <1> QED
    BY <1>1, CoordinationStarts, PTL DEF CoordinationSpec

LEMMA FactorsStayOfOneRun == CoordinationSpec => [](CoordinationTypeOK /\ FactorsAreOfOneRun)
  BY CoordinationInvariant, CoordinationInvImplies, PTL

LEMMA FactorStepsAreTold == CoordinationSpec => [][FactorChangesAreTold]_coordinationVars
  BY CoordinationInvariant, FactorStepsTold, PTL DEF CoordinationSpec

(***************************************************************************)
(* Album votes.                                                            *)
(***************************************************************************)
(* The inductive invariant.                                                 *)

Placed == Albums \cup {NoAlbum}

\* The decision for every album the track may be on.
Chosen == [current \in Placed |-> Choose(current)]

Decisions == [at : {"idle", "claimed", "decided"}, from : Placed, to : Placed,
              recheck : Voters \cup {0}]

VotesTyped ==
    /\ AlbumTypeOK
    /\ \A u \in Voters : votes[u].album = NoAlbum => votes[u] = NoVote
    /\ decider \in Decisions /\ backfill \in Decisions
    /\ outrun \in BOOLEAN

\* What was decided waits for who would be waited for now.
StillFirst(d) ==
    d.at = "decided" => d.recheck = Youngest

\* What was decided is what would be decided now.
StillRight(d) ==
    d.at = "decided" => d.to = Chosen[d.from] /\ d.recheck = Youngest

\* The entry that waits, waits for the first young voter.
WaitsForTheFirst ==
    /\ dueAt.at = "age" => dueAt.waits \in YoungVoters
    /\ decider.at = "idle" /\ dueAt.at \in {"absent", "age"} =>
          \A u \in YoungVoters : dueAt.at = "age" /\ dueAt.waits <= u

\* A track nobody asks about is where it belongs; so is one that moved while
\* the worker was deciding.
Settled ==
    \/ decider.at = "idle" /\ dueAt.at \in {"absent", "age"}
    \/ decider.at = "decided" /\ album # decider.from
    => Chosen[album] = NoAlbum

EntryHeld == decider.at # "idle" => dueAt = DueNow

AlbumInv ==
    /\ VotesTyped /\ EntryHeld
    /\ StillFirst(decider)
    /\ ~lapsed => StillRight(decider)
    /\ ~outrun => StillRight(backfill) /\ WaitsForTheFirst
    /\ ~outrun /\ ~lapsed => Settled

-----------------------------------------------------------------------------
(* What the definitions the actions are built from yield.                   *)

LEMMA Entries ==
  /\ Absent.at = "absent" /\ DueNow.at = "now" /\ DueSoon.at = "soon"
  /\ Absent.waits = 0 /\ DueNow.waits = 0 /\ DueSoon.waits = 0
  /\ \A u : OfAge(u).at = "age" /\ OfAge(u).waits = u
  BY DEF Absent, DueNow, DueSoon, OfAge, Entry

LEMMA EntryIs ==
  ASSUME AlbumTypeOK
  PROVE  \/ dueAt = Absent \/ dueAt = DueNow \/ dueAt = DueSoon
         \/ dueAt.at = "age" /\ dueAt.waits \in Voters /\ dueAt = OfAge(dueAt.waits)
  BY Entries DEF AlbumTypeOK

LEMMA WeightsAreNumbers ==
  \A a : WeightOf(a) \in Nat /\ Score(a) \in Nat
  <1>1. ASSUME NEW a PROVE WeightOf(a) \in Nat
    <2> DEFINE all == Backers(a) \X (1 .. FULL)
               halves == {half \in all : half[2] <= Weight(half[1])}
    <2>1. IsFiniteSet(Backers(a))
      <3>1. Backers(a) \subseteq Voters
        BY DEF Backers
      <3> QED
        BY <3>1, AlbumConstants, FS_Subset
    <2>2. IsFiniteSet(1 .. FULL)
      <3>1. 1 \in Int /\ FULL \in Int
        BY DEF FULL
      <3> QED
        BY <3>1, FS_Interval
    <2>3. IsFiniteSet(all)
      BY <2>1, <2>2, FS_Product
    <2>4. halves \subseteq all
      OBVIOUS
    <2>5. IsFiniteSet(halves)
      <3> HIDE DEF all, halves
      <3> QED
        BY <2>3, <2>4, FS_Subset
    <2>6. Cardinality(halves) \in Nat
      <3> HIDE DEF all, halves
      <3> QED
        BY <2>5, FS_CardinalityType
    <2> QED
      BY <2>6 DEF WeightOf
  <1>2. \A a : Score(a) \in Nat
    BY <1>1 DEF Score, CONFIRMED_FACTOR
  <1> QED
    BY <1>1, <1>2

LEMMA BestExists ==
  ASSUME Weighed # {}
  PROVE  TheOne(Foremost) \in Weighed
  <1> DEFINE R == {r \in Weighed \X Weighed : Beats(r[1], r[2])}
  <1>1. /\ \A a \in Weighed : a \in Nat
        /\ IsFiniteSet(Weighed)
    <2>1. Weighed \subseteq Albums
      BY DEF Weighed, Candidates
    <2> QED
      BY <2>1, AlbumConstants, FS_Subset
  <1>2. \A a \in Weighed : <<a, a>> \notin R
    BY <1>1, WeightsAreNumbers DEF Beats
  <1>3. \A a, b, c \in Weighed : <<a, b>> \in R /\ <<b, c>> \in R => <<a, c>> \in R
    BY <1>1, WeightsAreNumbers DEF Beats
  <1>4. PICK a \in Weighed : \A b \in Weighed : <<b, a>> \notin R
    <2> HIDE DEF R
    <2> QED
      BY <1>1, <1>2, <1>3, MinimalExists
  <1>5. ASSUME NEW b \in Weighed \ {a} PROVE Beats(a, b)
    <2>1. ~Beats(b, a)
      BY <1>4
    <2> QED
      BY <1>1, <2>1, WeightsAreNumbers DEF Beats
  <1>6. a \in Foremost
    BY <1>5 DEF Foremost
  <1> QED
    BY <1>6 DEF TheOne, Foremost

\* The accounts behind an album keep their weights: the decisions stay.
LEMMA ChoicesStay ==
  ASSUME VotesTyped, votes' = votes, confirmed' = confirmed,
         \A u \in Voters : votes[u].album # NoAlbum => Weight(u)' = Weight(u)
  PROVE  Chosen' = Chosen
  <1>1. ASSUME NEW a \in Albums
        PROVE  /\ Backers(a)' = Backers(a)
               /\ WeightOf(a)' = WeightOf(a)
    <2>1. Backers(a)' = Backers(a)
      BY DEF Backers
    <2>2. \A u \in Backers(a) : Weight(u)' = Weight(u)
      <3>1. a # NoAlbum
        BY AlbumConstants DEF NoAlbum
      <3> QED
        BY <3>1 DEF Backers
    <2> DEFINE old == {half \in Backers(a) \X (1 .. FULL) : half[2] <= Weight(half[1])}
               new == {half \in Backers(a)' \X (1 .. FULL) : half[2] <= Weight(half[1])'}
    <2>3. new = old
      BY <2>1, <2>2
    <2>4. WeightOf(a) = Cardinality(old) /\ WeightOf(a)' = Cardinality(new)
      BY DEF WeightOf
    <2> HIDE DEF old, new
    <2> QED
      BY <2>1, <2>3, <2>4
  <1>2. Candidates' = Candidates
    BY <1>1 DEF Candidates
  <1>3. Candidates \subseteq Albums
    BY DEF Candidates
  <1>4. \A a \in Albums : Score(a)' = Score(a)
    BY <1>1 DEF Score
  <1>5. Weighed' = Weighed /\ Weighed \subseteq Albums
    BY <1>1, <1>2, <1>3 DEF Weighed
  <1>6. \A a, b \in Albums : Beats(a, b)' = Beats(a, b)
    BY <1>1, <1>4 DEF Beats
  <1>7. Foremost' = Foremost
    BY <1>5, <1>6 DEF Foremost
  <1>8. TheOne(Foremost)' = TheOne(Foremost)
    BY <1>7 DEF TheOne
  <1>9. ASSUME NEW current \in Placed
        PROVE  Choose(current)' = Choose(current)
    <2>1. current \in Candidates => Score(current)' = Score(current)
      BY <1>3, <1>4
    <2>2. PICK best : best = TheOne(Foremost) /\ best = TheOne(Foremost)'
      BY <1>8
    <2>3. CASE Weighed = {}
      BY <1>5, <2>3 DEF Choose
    <2>4. CASE Weighed # {}
      <3>1. Score(best)' = Score(best)
        BY <1>4, <1>5, <2>2, <2>4, BestExists
      <3>2. Choose(current) =
              IF current = NoAlbum THEN best
              ELSE IF /\ best # current
                      /\ Score(best) * 100
                           >= (IF current \in Candidates THEN Score(current) ELSE 0) * SWITCH_RATIO_PCT
                      /\ Score(best) - (IF current \in Candidates THEN Score(current) ELSE 0)
                           >= MIN_LEAD
                   THEN best ELSE NoAlbum
        BY <2>2, <2>4 DEF Choose
      <3>3. Choose(current)' =
              IF current = NoAlbum THEN best
              ELSE IF /\ best # current
                      /\ Score(best)' * 100
                           >= (IF current \in Candidates' THEN Score(current)' ELSE 0) * SWITCH_RATIO_PCT
                      /\ Score(best)' - (IF current \in Candidates' THEN Score(current)' ELSE 0)
                           >= MIN_LEAD
                   THEN best ELSE NoAlbum
        BY <1>5, <2>2, <2>4 DEF Choose
      <3> QED
        BY <1>2, <2>1, <3>1, <3>2, <3>3
    <2> QED
      BY <2>3, <2>4
  <1> QED
    BY <1>9 DEF Chosen

\* A move made by a decision is not undone by another.
LEMMA NoSecondMove ==
  ASSUME NEW current \in Placed, Choose(current) # NoAlbum
  PROVE  Choose(current) \in Albums /\ Choose(Choose(current)) = NoAlbum
  <1>1. Weighed # {} /\ Choose(current) = TheOne(Foremost)
    BY DEF Choose
  <1>2. Choose(current) \in Albums
    BY <1>1, BestExists DEF Weighed, Candidates
  <1>3. PICK best : best = TheOne(Foremost)
    OBVIOUS
  <1>4. best # NoAlbum
    BY <1>1, <1>2, <1>3, AlbumConstants DEF NoAlbum
  <1>5. Choose(best) = NoAlbum
    BY <1>1, <1>3, <1>4 DEF Choose
  <1> QED
    BY <1>1, <1>2, <1>3, <1>5

LEMMA ChoicesTyped ==
  /\ Chosen \in [Placed -> Placed] /\ NoAlbum \in Placed /\ NoAlbum \notin Albums
  /\ \A c \in Placed : Chosen[c] # NoAlbum => Chosen[Chosen[c]] = NoAlbum
  <1>1. NoAlbum \in Placed /\ NoAlbum \notin Albums
    BY AlbumConstants DEF Placed, NoAlbum
  <1>2. \A c \in Placed : Choose(c) \in Placed
    BY <1>1, NoSecondMove DEF Placed
  <1>3. ASSUME NEW c \in Placed, Chosen[c] # NoAlbum
        PROVE  Chosen[Chosen[c]] = NoAlbum
    <2>1. Choose(c) # NoAlbum /\ Choose(c) \in Placed
      BY <1>2, <1>3 DEF Chosen
    <2>2. Choose(Choose(c)) = NoAlbum
      BY <2>1, NoSecondMove
    <2> QED
      BY <2>1, <2>2 DEF Chosen
  <1> QED
    BY <1>1, <1>2, <1>3 DEF Chosen

\* Who is young and behind an album, and the first of them.
LEMMA YoungestIs ==
  /\ YoungVoters \subseteq Voters
  /\ YoungVoters = {} => Youngest = 0
  /\ YoungVoters # {} => Youngest \in YoungVoters /\ \A u \in YoungVoters : Youngest <= u
  /\ Youngest = 0 => YoungVoters = {}
  /\ Youngest \in Voters \cup {0}
  <1>1. YoungVoters \subseteq Voters
    BY DEF YoungVoters
  <1>2. Voters \subseteq Nat \ {0} /\ YoungVoters \subseteq Int /\ IsFiniteSet(YoungVoters)
    <2>1. Voters \subseteq Nat \ {0} /\ IsFiniteSet(Voters)
      BY AlbumConstants
    <2>2. IsFiniteSet(YoungVoters)
      BY <1>1, <2>1, FS_Subset
    <2> QED
      BY <1>1, <2>1, <2>2
  <1>3. YoungVoters # {} => Youngest \in YoungVoters /\ \A u \in YoungVoters : Youngest <= u
    BY <1>2, MinIs DEF Youngest
  <1> QED
    BY <1>1, <1>2, <1>3 DEF Youngest

LEMMA YoungestStays ==
  ASSUME VotesTyped, votes' = votes,
         \A u \in Voters : votes[u].album # NoAlbum => account'[u] = account[u]
  PROVE  YoungVoters' = YoungVoters /\ Youngest' = Youngest
  <1>1. YoungVoters' = YoungVoters
    BY DEF YoungVoters
  <1> QED
    BY <1>1 DEF Youngest

\* Either entry, due earlier.
LEMMA SoonerIs ==
  ASSUME AlbumTypeOK, NEW new, new \in {DueNow, DueSoon} \cup {OfAge(u) : u \in Voters}
  PROVE  /\ Sooner(new) \in {Absent, DueNow, DueSoon} \cup {OfAge(u) : u \in Voters}
         /\ new = DueNow => Sooner(new) = DueNow
         /\ new = DueSoon => Sooner(new) \in {DueNow, DueSoon}
         /\ new.at = "age" =>
              \/ Sooner(new) = dueAt /\ dueAt.at \in {"now", "soon"}
              \/ Sooner(new) = new /\ dueAt = Absent
              \/ /\ dueAt.at = "age" /\ Sooner(new).at = "age"
                 /\ Sooner(new).waits \in {dueAt.waits, new.waits}
                 /\ Sooner(new).waits <= dueAt.waits /\ Sooner(new).waits <= new.waits
  <1>1. CASE new = DueNow
    BY <1>1, Entries DEF Sooner
  <1>2. CASE new = DueSoon
    BY <1>2, Entries DEF Sooner
  <1>3. CASE new.at = "age"
    <2>1. new.waits \in Voters /\ new = OfAge(new.waits)
      BY <1>3, Entries
    <2>2. CASE dueAt = DueNow
      BY <1>3, <2>2, Entries DEF Sooner
    <2>3. CASE dueAt = DueSoon
      BY <1>3, <2>3, Entries DEF Sooner
    <2>4. CASE dueAt = Absent
      BY <1>3, <2>1, <2>4, Entries DEF Sooner
    <2>5. CASE dueAt.at = "age" /\ dueAt.waits \in Voters
      <3> DEFINE both == {dueAt.waits, new.waits}
      <3>1. both \subseteq Int /\ both # {} /\ IsFiniteSet(both)
        <4>1. both \subseteq Voters /\ both # {}
          BY <2>1, <2>5
        <4> HIDE DEF both
        <4>2. Voters \subseteq Int /\ IsFiniteSet(Voters)
          BY AlbumConstants
        <4>3. IsFiniteSet(both)
          BY <4>1, <4>2, FS_Subset
        <4> QED
          BY <4>1, <4>2, <4>3
      <3>2. Min(both) \in both /\ \A x \in both : Min(both) <= x
        BY <3>1, MinIs
      <3>3. Sooner(new) = OfAge(Min(both))
        BY <1>3, <2>5, Entries DEF Sooner
      <3>4. Min(both) \in Voters
        BY <2>1, <2>5, <3>2
      <3> HIDE DEF both
      <3>5. Sooner(new).at = "age" /\ Sooner(new).waits = Min(both)
        BY <3>3, Entries
      <3>6. dueAt.waits \in both /\ new.waits \in both /\ both \subseteq {dueAt.waits, new.waits}
        BY DEF both
      <3> QED
        BY <2>5, <1>3, <3>2, <3>3, <3>4, <3>5, <3>6, Entries
    <2> QED
      BY <2>2, <2>3, <2>4, <2>5, EntryIs
  <1> QED
    BY <1>1, <1>2, <1>3, Entries

-----------------------------------------------------------------------------
(* Types.                                                                   *)

VoteRows == [album : Placed, at : 0 .. LastPlay]
Standings == {"young", "counts", "leaving", "gone"}
DueEntries == {Absent, DueNow, DueSoon} \cup {OfAge(u) : u \in Voters}
Readings == [by : Voters \cup {0}, row : VoteRows]

LEMMA DecisionTyped ==
  ASSUME VotesTyped
  PROVE  /\ NoDecision \in Decisions /\ NoDecision.at = "idle"
         /\ Decision \in Decisions /\ Decision.at = "decided" /\ Decision.from = album
         /\ Decision.to = Chosen[album] /\ Decision.recheck = Youngest
         /\ album \in Placed
  <1>1. album \in Placed /\ Chosen[album] = Choose(album) /\ Choose(album) \in Placed
    BY ChoicesTyped DEF VotesTyped, AlbumTypeOK, Placed, Chosen
  <1> QED
    BY <1>1, YoungestIs, ChoicesTyped DEF Decision, NoDecision, Decisions

LEMMA TypesStay ==
  ASSUME VotesTyped, album' \in Placed, votes' \in [Voters -> VoteRows],
         \A u \in Voters : votes'[u].album = NoAlbum => votes'[u] = NoVote,
         account' \in [Voters -> Standings], factor' \in [Voters -> 1 .. FULL],
         confirmed' \subseteq Albums, dueAt' \in DueEntries,
         decider' \in Decisions, backfill' \in Decisions, outrun' \in BOOLEAN,
         lapsed' \in BOOLEAN, reading' \in Readings
  PROVE  VotesTyped'
  <1>1. decider'.at \in {"idle", "claimed", "decided"}
    BY DEF Decisions
  <1> QED
    BY <1>1 DEF VotesTyped, AlbumTypeOK, Placed, VoteRows, Standings, DueEntries, Readings

LEMMA TypesOf ==
  ASSUME VotesTyped
  PROVE  /\ album \in Placed /\ votes \in [Voters -> VoteRows]
         /\ account \in [Voters -> Standings] /\ factor \in [Voters -> 1 .. FULL]
         /\ confirmed \subseteq Albums /\ dueAt \in DueEntries
         /\ NoVote \in VoteRows /\ NoVote.album = NoAlbum
         /\ reading \in Readings /\ lapsed \in BOOLEAN
  BY ChoicesTyped, AlbumConstants
  DEF VotesTyped, AlbumTypeOK, Placed, VoteRows, Standings, DueEntries, NoVote, Readings

-----------------------------------------------------------------------------
(* Every step keeps the invariant.                                          *)

\* Nothing that counts changes, and nobody decides.
LEMMA NothingCounts ==
  ASSUME AlbumInv, VotesTyped', votes' = votes, confirmed' = confirmed,
         \A u \in Voters : votes[u].album # NoAlbum =>
             account'[u] = account[u] /\ Weight(u)' = Weight(u),
         UNCHANGED <<album, dueAt, decider, backfill, lapsed>>, outrun => outrun'
  PROVE  AlbumInv'
  <1>1. Chosen' = Chosen /\ YoungVoters' = YoungVoters /\ Youngest' = Youngest
    BY ChoicesStay, YoungestStays DEF AlbumInv
  <1>2. /\ EntryHeld' /\ StillFirst(decider)'
        /\ ~lapsed' => StillRight(decider)'
    BY <1>1 DEF AlbumInv, EntryHeld, StillFirst, StillRight
  <1>3. ASSUME ~outrun'
        PROVE  /\ StillRight(backfill)' /\ WaitsForTheFirst'
               /\ ~lapsed' => Settled'
    <2>1. StillRight(backfill) /\ WaitsForTheFirst /\ (~lapsed => Settled)
      BY <1>3 DEF AlbumInv
    <2>2. StillRight(backfill)'
      BY <1>1, <2>1 DEF StillRight
    <2>3. WaitsForTheFirst'
      BY <1>1, <2>1 DEF WaitsForTheFirst
    <2>4. ~lapsed' => Settled'
      BY <1>1, <2>1 DEF Settled
    <2> QED
      BY <2>2, <2>3, <2>4
  <1> QED
    BY <1>2, <1>3 DEF AlbumInv

\* Something that counts changes, and the track is due with it.
LEMMA ChangeAsks ==
  ASSUME AlbumInv, VotesTyped', decider.at = "idle", dueAt' \in {DueNow, DueSoon},
         UNCHANGED <<decider, backfill>>, Counted
  PROVE  AlbumInv'
  <1>1. dueAt'.at \in {"now", "soon"}
    BY Entries
  <1>2. EntryHeld' /\ StillFirst(decider)' /\ StillRight(decider)'
    BY DEF EntryHeld, StillFirst, StillRight
  <1>3. ASSUME ~outrun'
        PROVE  StillRight(backfill)' /\ WaitsForTheFirst' /\ Settled'
    <2>1. backfill.at = "idle"
      BY <1>3 DEF Counted
    <2>2. StillRight(backfill)'
      BY <2>1 DEF StillRight
    <2>3. WaitsForTheFirst'
      BY <1>1 DEF WaitsForTheFirst
    <2>4. Settled'
      BY <1>1 DEF Settled
    <2> QED
      BY <2>2, <2>3, <2>4
  <1> QED
    BY <1>2, <1>3 DEF AlbumInv

\* A vote written, by whatever row its statement read.
LEMMA VoteKeeps ==
  ASSUME AlbumInv, NEW u \in Voters, NEW a \in Albums, NEW at \in 1 .. LastPlay,
         NEW current, RecordVote(u, current, a, at), Counted, reading' \in Readings,
         UNCHANGED <<album, account, factor, confirmed, decider, backfill, lapsed>>
  PROVE  AlbumInv'
  <1>1. VotesTyped
    BY DEF AlbumInv
  <1>2. /\ votes' = [votes EXCEPT ![u] = [album |-> a, at |-> at]]
        /\ decider.at = "idle" /\ dueAt' = Sooner(DueSoon) /\ Counted
        /\ UNCHANGED <<album, account, factor, confirmed, decider, backfill>>
    BY DEF RecordVote, Enqueue
  <1>3. dueAt' \in {DueNow, DueSoon}
    BY <1>1, <1>2, SoonerIs DEF VotesTyped
  <1>4. VotesTyped'
    <2>1. votes' \in [Voters -> VoteRows]
      BY <1>1, <1>2, TypesOf DEF VoteRows, Placed
    <2>2. \A v \in Voters : votes'[v].album = NoAlbum => votes'[v] = NoVote
      BY <1>1, <1>2, TypesOf, ChoicesTyped DEF VotesTyped
    <2>3. outrun' \in BOOLEAN /\ dueAt' \in DueEntries
      BY <1>1, <1>2, <1>3 DEF VotesTyped, Counted, DueEntries
    <2>4. decider' \in Decisions /\ backfill' \in Decisions
      BY <1>1, <1>2 DEF VotesTyped
    <2> QED
      BY <1>1, <1>2, <2>1, <2>2, <2>3, <2>4, TypesOf, TypesStay
  <1> QED
    BY <1>2, <1>3, <1>4, ChangeAsks

\* A change of an account, or of its factor: queued if it voted, and of no
\* weight otherwise.
LEMMA AccountChangeKeeps ==
  ASSUME AlbumInv, NEW u \in Voters, EnqueueVoted(u), Counted,
         votes' = votes \/ votes' = [votes EXCEPT ![u] = NoVote],
         account' \in [Voters -> Standings], factor' \in [Voters -> 1 .. FULL],
         \A v \in Voters : v # u => account'[v] = account[v] /\ factor'[v] = factor[v],
         UNCHANGED <<album, confirmed, decider, backfill, lapsed, reading>>
  PROVE  AlbumInv'
  <1>1. VotesTyped /\ votes \in [Voters -> VoteRows]
    BY TypesOf DEF AlbumInv
  <1>2. votes[u] # NoVote => decider.at = "idle" /\ dueAt' = DueNow
    <2>1. ASSUME votes[u] # NoVote PROVE decider.at = "idle" /\ dueAt' = Sooner(DueNow)
      BY <2>1 DEF EnqueueVoted, Enqueue
    <2> QED
      BY <1>1, <2>1, SoonerIs DEF VotesTyped
  <1>3. votes[u] = NoVote => dueAt' = dueAt /\ votes' = votes
    BY <1>1 DEF EnqueueVoted
  <1>4. VotesTyped'
    <2>1. votes' \in [Voters -> VoteRows]
      BY <1>1, TypesOf
    <2>2. \A v \in Voters : votes'[v].album = NoAlbum => votes'[v] = NoVote
      BY <1>1 DEF VotesTyped
    <2>3. outrun' \in BOOLEAN
      BY <1>1 DEF VotesTyped, Counted
    <2>4. decider' \in Decisions /\ backfill' \in Decisions
      BY <1>1 DEF VotesTyped
    <2>5. dueAt' \in DueEntries
      BY <1>1, <1>2, <1>3, TypesOf DEF DueEntries
    <2> QED
      BY <1>1, <2>1, <2>2, <2>3, <2>4, <2>5, TypesOf, TypesStay
  <1>5. CASE votes[u] # NoVote
    BY <1>2, <1>4, <1>5, ChangeAsks
  <1>6. CASE votes[u] = NoVote
    <2>1. votes[u].album = NoAlbum
      BY <1>1, <1>6, TypesOf
    <2>2. \A v \in Voters : votes[v].album # NoAlbum =>
             account'[v] = account[v] /\ Weight(v)' = Weight(v)
      BY <2>1 DEF Weight
    <2>3. outrun => outrun'
      BY DEF Counted
    <2> QED
      BY <1>3, <1>4, <1>6, <2>2, <2>3, NothingCounts
  <1> QED
    BY <1>5, <1>6

\* A suspicious day leaves the window: nothing is queued, and only who is
\* waited for is as it was.
LEMMA FactorLapsesKeeps ==
  ASSUME AlbumInv, NEW u \in Voters, FactorLapses(u)
  PROVE  AlbumInv'
  <1>1. /\ factor' = [factor EXCEPT ![u] = FULL] /\ Counted
        /\ lapsed' = (lapsed \/ (votes[u] # NoVote /\ account[u] = "counts"))
        /\ UNCHANGED <<album, votes, reading, account, confirmed, dueAt, decider, backfill>>
    BY DEF FactorLapses, Change
  <1>2. VotesTyped /\ factor \in [Voters -> 1 .. FULL] /\ lapsed \in BOOLEAN
    BY TypesOf DEF AlbumInv
  <1>3. VotesTyped'
    <2>1. factor' \in [Voters -> 1 .. FULL] /\ lapsed' \in BOOLEAN
      BY <1>1, <1>2 DEF FULL
    <2>2. /\ outrun' \in BOOLEAN /\ decider' \in Decisions /\ backfill' \in Decisions
          /\ \A v \in Voters : votes'[v].album = NoAlbum => votes'[v] = NoVote
      BY <1>1, <1>2 DEF VotesTyped, Counted
    <2> QED
      BY <1>1, <1>2, <2>1, <2>2, TypesOf, TypesStay
  <1>4. CASE votes[u] # NoVote /\ account[u] = "counts"
    <2>1. YoungVoters' = YoungVoters /\ Youngest' = Youngest
      BY <1>1, <1>2, YoungestStays
    <2>2. lapsed' /\ EntryHeld' /\ StillFirst(decider)'
      BY <1>1, <1>4, <2>1 DEF AlbumInv, EntryHeld, StillFirst
    <2>3. ASSUME ~outrun' PROVE StillRight(backfill)' /\ WaitsForTheFirst'
      <3>1. ~outrun /\ backfill.at = "idle" /\ WaitsForTheFirst
        BY <1>1, <2>3 DEF Counted, AlbumInv
      <3>2. StillRight(backfill)'
        BY <1>1, <3>1 DEF StillRight
      <3>3. WaitsForTheFirst'
        BY <1>1, <2>1, <3>1 DEF WaitsForTheFirst
      <3> QED
        BY <3>2, <3>3
    <2> QED
      BY <1>3, <2>2, <2>3 DEF AlbumInv
  <1>5. CASE ~(votes[u] # NoVote /\ account[u] = "counts")
    <2>1. ASSUME NEW v \in Voters, votes[v].album # NoAlbum
          PROVE  account'[v] = account[v] /\ Weight(v)' = Weight(v)
      <3>1. NoVote.album = NoAlbum
        BY <1>2, TypesOf
      <3>2. CASE v = u
        BY <1>1, <1>5, <2>1, <3>1, <3>2 DEF Weight
      <3>3. CASE v # u
        BY <1>1, <1>2, <3>3 DEF Weight
      <3> QED
        BY <3>2, <3>3
    <2>2. lapsed' = lapsed /\ (outrun => outrun')
      BY <1>1, <1>2, <1>5 DEF Counted
    <2> QED
      BY <1>1, <1>3, <2>1, <2>2, NothingCounts
  <1> QED
    BY <1>4, <1>5

\* A vote's statement reads its row, and later writes by it, or nothing.
LEMMA ReadVotesKeep ==
  ASSUME AlbumInv, NEW u \in Voters, ReadVote(u) \/ VoteByRead(u)
  PROVE  AlbumInv'
  <1>1. /\ VotesTyped /\ votes \in [Voters -> VoteRows] /\ reading \in Readings
        /\ NoVote \in VoteRows
    BY TypesOf DEF AlbumInv
  <1>2. reading' \in Readings
    BY <1>1 DEF ReadVote, VoteByRead, NotReading, Readings
  <1>3. UNCHANGED <<album, account, factor, confirmed, decider, backfill, lapsed>>
    BY DEF ReadVote, VoteByRead
  <1>4. CASE UNCHANGED <<votes, dueAt, outrun>>
    <2>1. VotesTyped'
      <3>1. /\ outrun' \in BOOLEAN /\ decider' \in Decisions /\ backfill' \in Decisions
            /\ \A v \in Voters : votes'[v].album = NoAlbum => votes'[v] = NoVote
        BY <1>1, <1>3, <1>4 DEF VotesTyped
      <3> QED
        BY <1>1, <1>2, <1>3, <1>4, <3>1, TypesOf, TypesStay
    <2>2. \A v \in Voters : Weight(v)' = Weight(v)
      BY <1>3 DEF Weight
    <2> QED
      BY <1>3, <1>4, <2>1, <2>2, NothingCounts
  <1>5. CASE /\ \E a \in Albums, at \in 1 .. LastPlay : RecordVote(u, reading.row, a, at)
             /\ Counted
    <2>1. PICK a \in Albums, at \in 1 .. LastPlay : RecordVote(u, reading.row, a, at)
      BY <1>5
    <2> QED
      BY <1>2, <1>3, <1>5, <2>1, VoteKeeps
  <1> QED
    BY <1>4, <1>5 DEF ReadVote, VoteByRead

LEMMA ReleasesChangeKeeps ==
  ASSUME AlbumInv, ReleasesChange
  PROVE  AlbumInv'
  <1>1. VotesTyped
    BY DEF AlbumInv
  <1>2. /\ confirmed' \subseteq Albums
        /\ decider.at = "idle" /\ dueAt' = Sooner(DueNow) /\ Counted
        /\ UNCHANGED <<album, votes, account, factor, decider, backfill, lapsed, reading>>
    BY DEF ReleasesChange, Change, Enqueue
  <1>3. dueAt' = DueNow
    BY <1>1, <1>2, SoonerIs DEF VotesTyped
  <1>4. VotesTyped'
    <2>1. outrun' \in BOOLEAN /\ dueAt' \in DueEntries
      BY <1>1, <1>2, <1>3 DEF VotesTyped, Counted, DueEntries
    <2>2. decider' \in Decisions /\ backfill' \in Decisions
      BY <1>1, <1>2 DEF VotesTyped
    <2>3. \A v \in Voters : votes'[v].album = NoAlbum => votes'[v] = NoVote
      BY <1>1, <1>2 DEF VotesTyped
    <2> QED
      BY <1>1, <1>2, <2>1, <2>2, <2>3, TypesOf, TypesStay
  <1> QED
    BY <1>2, <1>3, <1>4, ChangeAsks

LEMMA ComesOfAgeKeeps ==
  ASSUME AlbumInv, NEW u \in Voters, ComesOfAge(u)
  PROVE  AlbumInv'
  <1>1. VotesTyped /\ account \in [Voters -> Standings]
    BY TypesOf DEF AlbumInv
  <1>2. /\ account[u] = "young" /\ \A v \in Voters : v < u => account[v] # "young"
        /\ decider.at = "idle" /\ account' = [account EXCEPT ![u] = "counts"]
        /\ dueAt' = (IF dueAt = OfAge(u) THEN DueNow ELSE dueAt) /\ Counted
        /\ UNCHANGED <<album, votes, factor, confirmed, decider, backfill, lapsed, reading>>
    BY DEF ComesOfAge
  <1>3. VotesTyped'
    <2>1. outrun' \in BOOLEAN
      BY <1>1, <1>2 DEF VotesTyped, Counted
    <2>2. decider' \in Decisions /\ backfill' \in Decisions
      BY <1>1, <1>2 DEF VotesTyped
    <2>3. \A v \in Voters : votes'[v].album = NoAlbum => votes'[v] = NoVote
      BY <1>1, <1>2 DEF VotesTyped
    <2>4. account' \in [Voters -> Standings]
      BY <1>1, <1>2 DEF Standings
    <2>5. dueAt' \in DueEntries
      BY <1>1, <1>2, TypesOf DEF DueEntries
    <2> QED
      BY <1>1, <1>2, <2>1, <2>2, <2>3, <2>4, <2>5, TypesOf, TypesStay
  <1>4. CASE dueAt' \in {DueNow, DueSoon}
    BY <1>2, <1>3, <1>4, ChangeAsks
  <1>5. CASE outrun'
    BY <1>2, <1>3, <1>5 DEF AlbumInv, EntryHeld, StillFirst, StillRight
  <1>6. CASE dueAt' \notin {DueNow, DueSoon} /\ ~outrun'
    <2>1. dueAt # OfAge(u) /\ dueAt' = dueAt
      BY <1>2, <1>6
    <2>2. dueAt.at \in {"absent", "age"}
      BY <1>1, <1>6, <2>1, EntryIs, Entries DEF VotesTyped
    <2>3. ~outrun /\ WaitsForTheFirst
      BY <1>2, <1>6 DEF Counted, AlbumInv
    <2>4. u \notin YoungVoters
      <3>1. SUFFICES ASSUME u \in YoungVoters PROVE FALSE
        OBVIOUS
      <3>2. dueAt.at = "age" /\ dueAt.waits <= u /\ dueAt.waits \in YoungVoters
        BY <1>2, <2>2, <2>3, <3>1 DEF WaitsForTheFirst
      <3>3. dueAt.waits \in Voters /\ account[dueAt.waits] = "young"
        BY <3>2 DEF YoungVoters
      <3>4. dueAt.waits # u
        BY <1>1, <2>1, <3>2, EntryIs, Entries DEF VotesTyped
      <3>5. dueAt.waits < u
        <4>1. dueAt.waits \in Nat /\ u \in Nat
          BY <3>3, AlbumConstants
        <4> QED
          BY <3>2, <3>4, <4>1
      <3> QED
        BY <1>2, <3>3, <3>5
    <2>5. votes[u].album = NoAlbum
      BY <1>2, <2>4 DEF YoungVoters
    <2>6. \A v \in Voters : votes[v].album # NoAlbum =>
             account'[v] = account[v] /\ Weight(v)' = Weight(v)
      BY <1>1, <1>2, <2>5 DEF Weight
    <2> QED
      BY <1>2, <1>3, <2>1, <2>3, <2>6, NothingCounts
  <1> QED
    BY <1>4, <1>5, <1>6

LEMMA BecomesDueKeeps ==
  ASSUME AlbumInv, BecomesDueNow
  PROVE  AlbumInv'
  <1>1. /\ dueAt' = DueNow
        /\ UNCHANGED <<album, votes, account, factor, confirmed, decider, backfill, outrun,
                       lapsed, reading>>
    BY DEF BecomesDueNow
  <1>2. VotesTyped
    BY DEF AlbumInv
  <1>3. VotesTyped'
    <2>1. dueAt' \in DueEntries
      BY <1>1 DEF DueEntries
    <2>2. decider' \in Decisions /\ backfill' \in Decisions /\ outrun' \in BOOLEAN
      BY <1>1, <1>2 DEF VotesTyped
    <2>3. \A v \in Voters : votes'[v].album = NoAlbum => votes'[v] = NoVote
      BY <1>1, <1>2 DEF VotesTyped
    <2> QED
      BY <1>1, <1>2, <2>1, <2>2, <2>3, TypesOf, TypesStay
  <1>4. Chosen' = Chosen /\ YoungVoters' = YoungVoters /\ Youngest' = Youngest
    BY <1>1, <1>2, ChoicesStay, YoungestStays DEF Weight
  <1>5. /\ EntryHeld' /\ StillFirst(decider)'
        /\ ~lapsed' => StillRight(decider)'
    BY <1>1, <1>4 DEF AlbumInv, EntryHeld, StillFirst, StillRight
  <1>6. ASSUME ~outrun'
        PROVE  /\ StillRight(backfill)' /\ WaitsForTheFirst'
               /\ ~lapsed' => Settled'
    <2>1. StillRight(backfill) /\ (~lapsed => Settled)
      BY <1>1, <1>6 DEF AlbumInv
    <2>2. StillRight(backfill)'
      BY <1>1, <1>4, <2>1 DEF StillRight
    <2>3. dueAt'.at = "now"
      BY <1>1, Entries
    <2>4. WaitsForTheFirst'
      BY <2>3 DEF WaitsForTheFirst
    <2>5. ~lapsed' => Settled'
      BY <1>1, <1>4, <2>1, <2>3 DEF Settled
    <2> QED
      BY <2>2, <2>4, <2>5
  <1> QED
    BY <1>3, <1>5, <1>6 DEF AlbumInv

\* The worker or the backfill moves on without a move of the track.
LEMMA DecidersKeep ==
  ASSUME AlbumInv, ClaimDue \/ DecideTrack \/ DecisionLost \/ BackfillDecides
  PROVE  AlbumInv'
  <1>1. UNCHANGED <<album, votes, account, factor, confirmed, dueAt, outrun, reading>>
    BY DEF ClaimDue, DecideTrack, DecisionLost, BackfillDecides
  <1>2. VotesTyped /\ EntryHeld /\ StillFirst(decider) /\ (~lapsed => StillRight(decider))
    BY DEF AlbumInv
  <1>3. Chosen' = Chosen /\ YoungVoters' = YoungVoters /\ Youngest' = Youngest
    BY <1>1, <1>2, ChoicesStay, YoungestStays DEF Weight
  <1>4. /\ NoDecision \in Decisions /\ NoDecision.at = "idle"
        /\ Decision \in Decisions /\ Decision.at = "decided" /\ Decision.from = album
        /\ Decision.to = Chosen[album] /\ Decision.recheck = Youngest
    BY <1>2, DecisionTyped
  <1>5. ASSUME decider' \in Decisions, backfill' \in Decisions
        PROVE  VotesTyped'
    <2>1. outrun' \in BOOLEAN /\ \A v \in Voters : votes'[v].album = NoAlbum => votes'[v] = NoVote
      BY <1>1, <1>2 DEF VotesTyped
    <2>2. lapsed' \in BOOLEAN
      BY <1>2, TypesOf DEF ClaimDue, DecideTrack, DecisionLost, BackfillDecides
    <2> QED
      BY <1>1, <1>2, <1>5, <2>1, <2>2, TypesOf, TypesStay
  <1>6. CASE ClaimDue
    <2>1. /\ dueAt = DueNow /\ dueAt.at = "now" /\ backfill' = backfill /\ lapsed' = lapsed
          /\ decider' \in Decisions /\ decider'.at = "claimed"
      BY <1>6, Entries DEF ClaimDue, NoDecision, Decisions, Placed
    <2>2. VotesTyped'
      BY <1>2, <1>5, <2>1 DEF VotesTyped
    <2>3. EntryHeld' /\ StillFirst(decider)' /\ StillRight(decider)'
      BY <1>1, <2>1 DEF EntryHeld, StillFirst, StillRight
    <2>4. ~outrun' => StillRight(backfill)' /\ WaitsForTheFirst' /\ Settled'
      BY <1>1, <1>3, <2>1 DEF AlbumInv, StillRight, WaitsForTheFirst, Settled
    <2> QED
      BY <2>2, <2>3, <2>4 DEF AlbumInv
  <1>7. CASE DecideTrack
    <2>1. decider.at = "claimed" /\ decider' = Decision /\ backfill' = backfill
      BY <1>7 DEF DecideTrack
    <2>2. dueAt = DueNow /\ dueAt.at = "now"
      BY <1>2, <2>1, Entries DEF EntryHeld
    <2>3. VotesTyped'
      BY <1>2, <1>4, <1>5, <2>1 DEF VotesTyped
    <2>4. EntryHeld' /\ StillFirst(decider)' /\ StillRight(decider)'
      BY <1>1, <1>3, <1>4, <2>1, <2>2 DEF EntryHeld, StillFirst, StillRight
    <2>5. decider'.at = "decided" /\ album' = decider'.from /\ dueAt'.at = "now"
      BY <1>1, <1>4, <2>1, <2>2
    <2>6. ASSUME ~outrun'
          PROVE  StillRight(backfill)' /\ WaitsForTheFirst' /\ Settled'
      <3>1. StillRight(backfill)
        BY <1>1, <2>6 DEF AlbumInv
      <3>2. StillRight(backfill)'
        BY <1>3, <2>1, <3>1 DEF StillRight
      <3>3. WaitsForTheFirst' /\ Settled'
        BY <2>5 DEF WaitsForTheFirst, Settled
      <3> QED
        BY <3>2, <3>3
    <2> QED
      BY <2>3, <2>4, <2>6 DEF AlbumInv
  <1>8. CASE DecisionLost
    <2>1. /\ decider.at # "idle" /\ decider' = NoDecision
          /\ backfill' = backfill /\ lapsed' = lapsed
          /\ dueAt = DueNow /\ dueAt.at = "now"
      BY <1>2, <1>8, Entries DEF DecisionLost, EntryHeld
    <2>2. VotesTyped'
      BY <1>2, <1>4, <1>5, <2>1 DEF VotesTyped
    <2>3. decider'.at = "idle" /\ dueAt'.at = "now"
      BY <1>1, <1>4, <2>1
    <2>4. EntryHeld' /\ StillFirst(decider)' /\ StillRight(decider)'
      BY <2>3 DEF EntryHeld, StillFirst, StillRight
    <2>5. ~outrun' => StillRight(backfill)' /\ WaitsForTheFirst' /\ Settled'
      BY <1>1, <1>3, <2>1, <2>3 DEF AlbumInv, StillRight, WaitsForTheFirst, Settled
    <2> QED
      BY <2>2, <2>4, <2>5 DEF AlbumInv
  <1>9. CASE BackfillDecides
    <2>1. backfill' = Decision /\ decider' = decider /\ lapsed' = lapsed
      BY <1>9 DEF BackfillDecides
    <2>2. VotesTyped'
      BY <1>2, <1>4, <1>5, <2>1 DEF VotesTyped
    <2>3. /\ EntryHeld' /\ StillFirst(decider)' /\ StillRight(backfill)'
          /\ ~lapsed' => StillRight(decider)'
      BY <1>1, <1>2, <1>3, <1>4, <2>1 DEF EntryHeld, StillFirst, StillRight
    <2>4. ~outrun' => WaitsForTheFirst' /\ (~lapsed' => Settled')
      BY <1>1, <1>3, <2>1 DEF AlbumInv, WaitsForTheFirst, Settled
    <2> QED
      BY <2>2, <2>3, <2>4 DEF AlbumInv
  <1> QED
    BY <1>6, <1>7, <1>8, <1>9

\* A move by a decision that is still right ends where nothing moves it.
LEMMA AppliedRight ==
  ASSUME VotesTyped, NEW d \in Decisions, d.at = "decided"
  PROVE  /\ Apply(d) \in Placed
         /\ StillRight(d) /\ album = d.from => Chosen[Apply(d)] = NoAlbum
         /\ album # d.from => Apply(d) = album
  <1>1. album \in Placed /\ d.to \in Placed /\ d.from \in Placed
    BY TypesOf DEF Decisions
  <1> QED
    BY <1>1, ChoicesTyped DEF Apply, StillRight

LEMMA CommitKeeps ==
  ASSUME AlbumInv, CommitDecision
  PROVE  AlbumInv'
  <1>1. /\ decider.at = "decided" /\ album' = Apply(decider)
        /\ dueAt' = IF decider.recheck = 0 THEN Absent ELSE OfAge(decider.recheck)
        /\ decider' = NoDecision
        /\ outrun' = (outrun /\ (backfill.at # "idle" \/ album # decider.from))
        /\ UNCHANGED <<votes, account, factor, confirmed, backfill, lapsed, reading>>
    BY DEF CommitDecision, Requeue
  <1>2. /\ VotesTyped /\ decider \in Decisions /\ StillFirst(decider)
        /\ ~lapsed => StillRight(decider)
    BY DEF AlbumInv, VotesTyped
  <1>3. Chosen' = Chosen /\ YoungVoters' = YoungVoters /\ Youngest' = Youngest
    BY <1>1, <1>2, ChoicesStay, YoungestStays DEF Weight
  <1>4. decider.recheck = Youngest /\ decider'.at = "idle"
    BY <1>1, <1>2, DecisionTyped DEF StillFirst
  <1>5. VotesTyped'
    <2>1. dueAt' \in DueEntries
      BY <1>1, <1>4, YoungestIs DEF DueEntries
    <2>2. album' \in Placed
      BY <1>1, <1>2, AppliedRight
    <2>3. decider' \in Decisions /\ backfill' \in Decisions
      BY <1>1, <1>2, DecisionTyped DEF VotesTyped
    <2>4. outrun' \in BOOLEAN /\ \A v \in Voters : votes'[v].album = NoAlbum => votes'[v] = NoVote
      BY <1>1, <1>2 DEF VotesTyped
    <2> QED
      BY <1>1, <1>2, <2>1, <2>2, <2>3, <2>4, TypesOf, TypesStay
  <1>6. EntryHeld' /\ StillFirst(decider)' /\ StillRight(decider)'
    BY <1>4 DEF EntryHeld, StillFirst, StillRight
  <1>7. ASSUME ~outrun'
        PROVE  /\ StillRight(backfill)' /\ WaitsForTheFirst'
               /\ ~lapsed' => Settled'
    <2>1. StillRight(backfill)'
      <3>1. CASE outrun
        <4>1. backfill'.at = "idle"
          BY <1>1, <1>7, <3>1
        <4> QED
          BY <4>1 DEF StillRight
      <3>2. CASE ~outrun
        <4>1. StillRight(backfill)
          BY <3>2 DEF AlbumInv
        <4> QED
          BY <1>1, <1>3, <4>1 DEF StillRight
      <3> QED
        BY <3>1, <3>2
    <2>2. WaitsForTheFirst'
      <3>1. CASE YoungVoters = {}
        <4>1. dueAt' = Absent
          BY <1>1, <1>4, <3>1, YoungestIs
        <4> QED
          BY <1>3, <3>1, <4>1, Entries DEF WaitsForTheFirst
      <3>2. CASE YoungVoters # {}
        <4>1. Youngest \in YoungVoters /\ \A u \in YoungVoters : Youngest <= u
          BY <3>2, YoungestIs
        <4>2. dueAt' = OfAge(Youngest)
          BY <1>1, <1>4, <3>2, YoungestIs
        <4>3. dueAt'.at = "age" /\ dueAt'.waits = Youngest
          BY <4>2, Entries
        <4> QED
          BY <1>3, <4>1, <4>3 DEF WaitsForTheFirst
      <3> QED
        BY <3>1, <3>2
    <2>3. ASSUME ~lapsed PROVE Chosen[album'] = NoAlbum
      <3>1. CASE album = decider.from
        BY <1>1, <1>2, <2>3, <3>1, AppliedRight
      <3>2. CASE album # decider.from
        <4>1. ~outrun /\ Settled
          BY <1>1, <1>7, <2>3, <3>2 DEF AlbumInv
        <4> QED
          BY <1>1, <1>2, <3>2, <4>1, AppliedRight DEF Settled
      <3> QED
        BY <3>1, <3>2
    <2>4. ~lapsed' => Settled'
      BY <1>1, <1>3, <2>3 DEF Settled
    <2> QED
      BY <2>1, <2>2, <2>4
  <1> QED
    BY <1>5, <1>6, <1>7 DEF AlbumInv

LEMMA BackfillSettleKeeps ==
  ASSUME AlbumInv, BackfillSettles
  PROVE  AlbumInv'
  <1>1. /\ backfill.at = "decided" /\ album' = Apply(backfill)
        /\ backfill.recheck = 0 => dueAt' = dueAt
        /\ backfill.recheck # 0 => /\ decider.at = "idle"
                                   /\ dueAt' = Sooner(OfAge(backfill.recheck))
        /\ backfill' = NoDecision
        /\ UNCHANGED <<votes, account, factor, confirmed, decider, outrun, lapsed, reading>>
    BY DEF BackfillSettles, Enqueue
  <1>2. VotesTyped /\ backfill \in Decisions /\ AlbumTypeOK
    BY DEF AlbumInv, VotesTyped
  <1>3. Chosen' = Chosen /\ YoungVoters' = YoungVoters /\ Youngest' = Youngest
    BY <1>1, <1>2, ChoicesStay, YoungestStays DEF Weight
  <1>4. backfill.recheck \in Voters \cup {0} /\ backfill'.at = "idle"
    BY <1>1, <1>2, DecisionTyped DEF Decisions
  <1>5. VotesTyped'
    <2>1. dueAt' \in DueEntries
      <3>1. CASE backfill.recheck = 0
        BY <1>1, <1>2, <3>1, TypesOf
      <3>2. CASE backfill.recheck # 0
        BY <1>1, <1>2, <1>4, <3>2, SoonerIs DEF DueEntries
      <3> QED
        BY <3>1, <3>2
    <2>2. album' \in Placed
      BY <1>1, <1>2, AppliedRight
    <2>3. decider' \in Decisions /\ backfill' \in Decisions
      BY <1>1, <1>2, DecisionTyped DEF VotesTyped
    <2>4. outrun' \in BOOLEAN /\ \A v \in Voters : votes'[v].album = NoAlbum => votes'[v] = NoVote
      BY <1>1, <1>2 DEF VotesTyped
    <2> QED
      BY <1>1, <1>2, <2>1, <2>2, <2>3, <2>4, TypesOf, TypesStay
  <1>6. EntryHeld'
    BY <1>1 DEF AlbumInv, EntryHeld
  <1>7. StillFirst(decider)' /\ (~lapsed' => StillRight(decider)')
    BY <1>1, <1>3 DEF AlbumInv, StillFirst, StillRight
  <1>8. ASSUME ~outrun'
        PROVE  /\ StillRight(backfill)' /\ WaitsForTheFirst'
               /\ ~lapsed' => Settled'
    <2>1. /\ StillRight(backfill) /\ WaitsForTheFirst /\ backfill.recheck = Youngest
          /\ ~lapsed' => Settled
      BY <1>1, <1>8 DEF AlbumInv, StillRight
    <2>2. StillRight(backfill)'
      BY <1>4 DEF StillRight
    <2>3. CASE YoungVoters = {}
      <3>1. dueAt' = dueAt
        BY <1>1, <2>1, <2>3, YoungestIs
      <3>2. WaitsForTheFirst'
        BY <1>1, <1>3, <2>1, <3>1 DEF WaitsForTheFirst
      <3>3. dueAt'.at \in {"absent", "age"} => dueAt.at \in {"absent", "age"}
        BY <3>1
      <3> QED
        BY <2>2, <3>2, <3>3, <1>1, <1>2, <1>3, <2>1, AppliedRight DEF Settled
    <2>4. CASE YoungVoters # {}
      <3>1. Youngest \in YoungVoters /\ \A u \in YoungVoters : Youngest <= u
        BY <2>4, YoungestIs
      <3>2. PICK new : new = OfAge(Youngest) /\ new.at = "age" /\ new.waits = Youngest
        BY Entries
      <3>3. Youngest # 0 /\ Youngest \in Voters
        BY <3>1, YoungestIs, AlbumConstants
      <3>4. decider.at = "idle" /\ dueAt' = Sooner(new)
        BY <1>1, <2>1, <3>2, <3>3
      <3>5. \/ Sooner(new) = dueAt /\ dueAt.at \in {"now", "soon"}
            \/ Sooner(new) = new /\ dueAt = Absent
            \/ /\ dueAt.at = "age" /\ Sooner(new).at = "age"
               /\ Sooner(new).waits \in {dueAt.waits, new.waits}
               /\ Sooner(new).waits <= dueAt.waits /\ Sooner(new).waits <= new.waits
        BY <1>2, <3>2, <3>3, SoonerIs
      <3>6. CASE dueAt' = dueAt /\ dueAt.at \in {"now", "soon"}
        <4>1. WaitsForTheFirst' /\ Settled'
          BY <1>1, <3>4, <3>6 DEF WaitsForTheFirst, Settled
        <4> QED
          BY <2>2, <4>1
      <3>7. CASE dueAt' = new /\ dueAt = Absent
        <4>1. WaitsForTheFirst'
          BY <1>3, <3>1, <3>2, <3>7 DEF WaitsForTheFirst
        <4>2. dueAt.at = "absent"
          BY <3>7, Entries
        <4> QED
          BY <2>2, <4>1, <4>2, <3>4, <1>1, <1>2, <1>3, <2>1, AppliedRight DEF Settled
      <3>8. CASE /\ dueAt.at = "age" /\ dueAt'.at = "age"
                 /\ dueAt'.waits \in {dueAt.waits, new.waits}
                 /\ dueAt'.waits <= dueAt.waits /\ dueAt'.waits <= new.waits
        <4>1. dueAt'.waits \in YoungVoters
          BY <2>1, <3>1, <3>2, <3>8 DEF WaitsForTheFirst
        <4>2. \A u \in YoungVoters : dueAt'.waits <= u
          <5>1. \A u \in YoungVoters : u \in Nat
            BY YoungestIs, AlbumConstants
          <5> QED
            BY <3>1, <3>2, <3>8, <4>1, <5>1
        <4>3. WaitsForTheFirst'
          BY <1>3, <3>8, <4>1, <4>2 DEF WaitsForTheFirst
        <4> QED
          BY <2>2, <4>3, <3>4, <3>8, <1>1, <1>2, <1>3, <2>1, AppliedRight DEF Settled
      <3> QED
        BY <3>4, <3>5, <3>6, <3>7, <3>8
    <2> QED
      BY <2>3, <2>4
  <1> QED
    BY <1>5, <1>6, <1>7, <1>8 DEF AlbumInv

-----------------------------------------------------------------------------
LEMMA AlbumStarts == AlbumInit => AlbumInv
  <1> SUFFICES ASSUME AlbumInit PROVE AlbumInv
    OBVIOUS
  <1>1. /\ votes = [u \in Voters |-> NoVote] /\ dueAt = Absent /\ outrun = FALSE
        /\ lapsed = FALSE /\ reading = [by |-> 0, row |-> NoVote]
        /\ decider = NoDecision /\ backfill = NoDecision /\ confirmed = {}
        /\ album \in Placed /\ account \in [Voters -> {"young", "counts"}]
        /\ factor = [u \in Voters |-> FULL]
    BY DEF AlbumInit, Placed, NotReading
  <1>2. NoVote.album = NoAlbum /\ NoVote \in VoteRows /\ NoAlbum \in Placed
    BY ChoicesTyped, AlbumConstants DEF NoVote, VoteRows
  <1>3. NoDecision \in Decisions /\ NoDecision.at = "idle"
    BY <1>2 DEF NoDecision, Decisions
  <1>4. AlbumTypeOK
    <2>1. votes \in [Voters -> VoteRows] /\ decider.at = "idle"
      BY <1>1, <1>2, <1>3
    <2>2. factor \in [Voters -> 1 .. FULL]
      BY <1>1 DEF FULL
    <2>3. reading \in Readings /\ lapsed \in BOOLEAN
      BY <1>1, <1>2 DEF Readings, NoVote
    <2> QED
      BY <1>1, <2>1, <2>2, <2>3 DEF AlbumTypeOK, VoteRows, Placed, Readings
  <1>5. VotesTyped
    BY <1>1, <1>2, <1>3, <1>4 DEF VotesTyped
  <1>6. YoungVoters = {}
    BY <1>1, <1>2 DEF YoungVoters
  <1>7. Chosen[album] = NoAlbum
    <2>1. \A a \in Albums : Backers(a) = {}
      BY <1>1, <1>2, ChoicesTyped DEF Backers
    <2>2. Weighed = {}
      BY <2>1 DEF Weighed, Candidates
    <2> QED
      BY <1>1, <2>2 DEF Chosen, Choose
  <1>8. dueAt.at = "absent"
    BY <1>1, Entries
  <1> QED
    BY <1>1, <1>3, <1>5, <1>6, <1>7, <1>8
    DEF AlbumInv, EntryHeld, StillFirst, StillRight, WaitsForTheFirst, Settled

LEMMA AlbumSteps ==
  ASSUME AlbumInv, [AlbumNext]_albumVars
  PROVE  AlbumInv'
  <1>1. VotesTyped /\ account \in [Voters -> Standings] /\ factor \in [Voters -> 1 .. FULL]
    BY TypesOf DEF AlbumInv
  <1>2. CASE UNCHANGED albumVars
    <2>1. UNCHANGED <<album, votes, reading, account, factor, confirmed, dueAt, decider,
                      backfill, outrun, lapsed>>
      BY <1>2 DEF albumVars
    <2>2. VotesTyped'
      <3>1. /\ decider' \in Decisions /\ backfill' \in Decisions /\ outrun' \in BOOLEAN
            /\ \A v \in Voters : votes'[v].album = NoAlbum => votes'[v] = NoVote
        BY <1>1, <2>1 DEF VotesTyped
      <3> QED
        BY <1>1, <2>1, <3>1, TypesOf, TypesStay
    <2>3. \A v \in Voters : Weight(v)' = Weight(v)
      BY <2>1 DEF Weight
    <2> QED
      BY <2>1, <2>2, <2>3, NothingCounts
  <1>3. CASE \E u \in Voters : ScheduleOrRestore(u) \/ EraseVoter(u) \/ StoreFactors(u)
    <2>1. PICK u \in Voters : ScheduleOrRestore(u) \/ EraseVoter(u) \/ StoreFactors(u)
      BY <1>3
    <2>2. /\ EnqueueVoted(u) /\ Counted
          /\ UNCHANGED <<album, confirmed, decider, backfill, lapsed, reading>>
          /\ votes' = votes \/ votes' = [votes EXCEPT ![u] = NoVote]
      BY <2>1 DEF ScheduleOrRestore, EraseVoter, StoreFactors, Change
    <2>3. /\ account' = account \/ \E s \in Standings : account' = [account EXCEPT ![u] = s]
          /\ factor' = factor \/ \E f \in 1 .. FULL : factor' = [factor EXCEPT ![u] = f]
      <3>1. CASE ScheduleOrRestore(u)
        BY <3>1 DEF ScheduleOrRestore, Standings
      <3>2. CASE EraseVoter(u)
        BY <3>2 DEF EraseVoter, Standings
      <3>3. CASE StoreFactors(u)
        <4>1. PICK f : f = (IF factor[u] = FULL THEN 1 ELSE FULL)
          OBVIOUS
        <4>2. f \in 1 .. FULL /\ account' = account
          BY <3>3, <4>1 DEF StoreFactors, FULL
        <4>3. factor' = [factor EXCEPT ![u] = f]
          BY <3>3, <4>1 DEF StoreFactors
        <4> QED
          BY <4>2, <4>3
      <3> QED
        BY <2>1, <3>1, <3>2, <3>3
    <2>4. /\ account' \in [Voters -> Standings] /\ factor' \in [Voters -> 1 .. FULL]
          /\ \A v \in Voters : v # u => account'[v] = account[v] /\ factor'[v] = factor[v]
      BY <1>1, <2>3
    <2> QED
      BY <2>2, <2>4, AccountChangeKeeps
  <1>4. CASE \E u \in Voters, a \in Albums, at \in 1 .. LastPlay : Vote(u, a, at)
    <2>1. PICK u \in Voters, a \in Albums, at \in 1 .. LastPlay : Vote(u, a, at)
      BY <1>4
    <2>2. reading' \in Readings
      BY <1>1, <2>1, TypesOf DEF Vote
    <2> QED
      BY <2>1, <2>2, VoteKeeps DEF Vote
  <1> QED
    BY <1>2, <1>3, <1>4, ReadVotesKeep, FactorLapsesKeeps, ReleasesChangeKeeps, ComesOfAgeKeeps,
       BecomesDueKeeps, DecidersKeep, CommitKeeps, BackfillSettleKeeps DEF AlbumNext

LEMMA AlbumInvImplies ==
  ASSUME AlbumInv
  PROVE  AlbumTypeOK /\ AlbumFollowsVotes
  <1>1. AlbumTypeOK /\ album \in Placed
    BY TypesOf DEF AlbumInv, VotesTyped
  <1>2. ASSUME dueAt = Absent \/ (dueAt.at = "age" /\ account[dueAt.waits] = "young"),
               decider.at = "idle", ~outrun, ~lapsed
        PROVE  Choose(album) = NoAlbum
    <2>1. dueAt.at \in {"absent", "age"}
      BY <1>2, Entries
    <2>2. Chosen[album] = NoAlbum
      BY <1>2, <2>1 DEF AlbumInv, Settled
    <2> QED
      BY <1>1, <2>2 DEF Chosen
  <1> QED
    BY <1>1, <1>2 DEF AlbumFollowsVotes

LEMMA AlbumsFollowVotes == AlbumSpec => [](AlbumTypeOK /\ AlbumFollowsVotes)
  <1>1. AlbumInv /\ [AlbumNext]_albumVars => AlbumInv'
    BY AlbumSteps
  <1>2. AlbumInv => AlbumTypeOK /\ AlbumFollowsVotes
    BY AlbumInvImplies
  <1> QED
    BY <1>1, <1>2, AlbumStarts, PTL DEF AlbumSpec

(***************************************************************************)
(* Catalog.                                                                *)
(***************************************************************************)
(* The inductive invariant.                                                 *)

IsRow(row) ==
    row = [album |-> row.album, length |-> row.length, hint |-> row.hint,
           mbid |-> row.mbid, enriched |-> row.enriched]

\* What is known of a row is known of the other.
Keeps(old, new) ==
    /\ old.album # "" => new.album = old.album
    /\ old.length # "" => new.length = old.length
    /\ old.hint # "" => new.hint = old.hint

RowsRight == \A k \in DOMAIN rows : IsRow(rows[k])

Lookups == {"artist", "album", "track", "featured"}
Inserts == {"insert artist", "insert album", "insert track", "insert featured"}
AfterTrack == {"gain", "hint", "featured", "insert featured", "credits"}
AtWork == Lookups \cup Inserts \cup {"gain", "hint", "credits"}

\* A submission looks a second time only for what is there, and inserts only
\* the first time.
Progresses(l) ==
    /\ l = [at |-> l.at, s |-> l.s, pass |-> l.pass, created |-> l.created]
    /\ l.s \in Submissions /\ l.created \in BOOLEAN
    /\ \/ l.pass = 1
       \/ l.pass = 2 /\ l.at \in Lookups /\ SubmissionKey(l.s, l.at) \in DOMAIN rows
    /\ l.at \in AfterTrack => TrackKey(l.s.artist, l.s.track) \in DOMAIN rows
    /\ l.at = "hint" => l.s.hint # ""
LivesStand ==
    /\ DOMAIN live = LiveWriters
    /\ \A w \in LiveWriters : /\ live[w].at \in {"idle", "done"} \cup AtWork
                              /\ live[w].at \in AtWork => Progresses(live[w])

Kinds == {"artists", "albums", "tracks"}
Working == Kinds \cup {"gains", "commit"}

\* What a page has of its own extends what is committed; what it was looking
\* for is there, from its statement's row on, and all of it in its second pass.
Collects(i) ==
    LET t == tx[i]
        there == DOMAIN rows \cup DOMAIN t.rows
    IN /\ t = [at |-> t.at, next |-> t.next, pass |-> t.pass, sees |-> t.sees,
               rows |-> t.rows, found |-> t.found, created |-> t.created]
       /\ t.next \in Nat \ {0} /\ t.pass \in {1, 2}
       /\ \A k \in DOMAIN t.rows : IsRow(t.rows[k])
       /\ DOMAIN t.rows \subseteq DOMAIN rows \cup t.created
       /\ \A k \in DOMAIN rows : k \in DOMAIN t.rows => Keeps(rows[k], t.rows[k])
       /\ t.found \cup t.sees \subseteq there
       /\ t.at \in Kinds =>
             \A n \in DOMAIN Wanted(i, t.at) :
                /\ n < t.next => Wanted(i, t.at)[n] \in there
                /\ t.pass = 2 => Wanted(i, t.at)[n] \in t.sees
       /\ t.at = "gains" =>
             \A n \in DOMAIN Wanted(i, "tracks") : Wanted(i, "tracks")[n] \in there
PagesStand ==
    /\ DOMAIN tx = PageWriters
    /\ \A i \in PageWriters : /\ tx[i].at \in {"none", "over"} \cup Working
                              /\ tx[i].at \in Working => Collects(i)
    /\ \A i, j \in PageWriters : i # j => HeldBy(i) \cap HeldBy(j) = {}

RequeuesRight ==
    \A k \in DOMAIN requeued :
        requeued[k] = 1 /\ k \in DOMAIN rows /\ rows[k].hint # ""

\* Whoever made a track credits it, or died.
CreatorAtWork(k) ==
    \E w \in LiveWriters :
        /\ live[w].at \in AtWork /\ live[w].created = TRUE
        /\ TrackKey(live[w].s.artist, live[w].s.track) = k
CreditsCome ==
    \A k \in DOMAIN rows :
        IsTrack(k) => <<k, k[2]>> \in credits \/ k \in uncredited \/ CreatorAtWork(k)

CatalogInv == RowsRight /\ LivesStand /\ PagesStand /\ RequeuesRight /\ CreditsCome

-----------------------------------------------------------------------------
(* What the definitions the actions are built from yield.                   *)

LEMMA KeepsOrders ==
  /\ \A r : Keeps(r, r)
  /\ \A r, s, t : Keeps(r, s) /\ Keeps(s, t) => Keeps(r, t)
  BY DEF Keeps

LEMMA NewRowsAre ==
  \A a, l, h : IsRow(NewRow(a, l, h))
  BY DEF IsRow, NewRow

LEMMA GainedIs ==
  ASSUME NEW row, IsRow(row), NEW a, NEW l, NEW h, NEW new, new = Gained(row, a, l, h)
  PROVE  IsRow(new) /\ Keeps(row, new)
  <1>2. row = [album |-> row.album, length |-> row.length, hint |-> row.hint,
               mbid |-> row.mbid, enriched |-> row.enriched]
    BY DEF IsRow
  <1>3. new = [row EXCEPT !.album = First(row.album, a), !.length = First(row.length, l),
                          !.hint = First(row.hint, h)]
    BY DEF Gained
  <1>4. /\ new.album = First(row.album, a) /\ new.length = First(row.length, l)
        /\ new.hint = First(row.hint, h)
    BY <1>2, <1>3
  <1>5. new = [album |-> new.album, length |-> new.length, hint |-> new.hint,
               mbid |-> new.mbid, enriched |-> new.enriched]
    BY <1>2, <1>3
  <1>6. Keeps(row, new)
    BY <1>4 DEF Keeps, First
  <1>7. IsRow(new)
    BY <1>5 DEF IsRow
  <1> QED
    BY <1>6, <1>7

LEMMA HintIs ==
  ASSUME NEW row, IsRow(row), row.hint = "", NEW h
  PROVE  Gained(row, "", "", h).hint = h
  <1>1. row = [album |-> row.album, length |-> row.length, hint |-> row.hint,
               mbid |-> row.mbid, enriched |-> row.enriched]
    BY DEF IsRow
  <1>2. First(row.hint, h) = h
    BY DEF First
  <1> QED
    BY <1>1, <1>2 DEF Gained

LEMMA MatchedIs ==
  ASSUME NEW row, IsRow(row), NEW matched \in BOOLEAN, NEW new,
         new = [row EXCEPT !.enriched = TRUE, !.mbid = matched]
  PROVE  IsRow(new) /\ Keeps(row, new) /\ new.hint = row.hint
  <1>1. row = [album |-> row.album, length |-> row.length, hint |-> row.hint,
               mbid |-> row.mbid, enriched |-> row.enriched]
    BY DEF IsRow
  <1>2. new = [album |-> new.album, length |-> new.length, hint |-> new.hint,
               mbid |-> new.mbid, enriched |-> new.enriched]
    BY <1>1
  <1>3. new.album = row.album /\ new.length = row.length /\ new.hint = row.hint
    BY <1>1
  <1> QED
    BY <1>2, <1>3 DEF IsRow, Keeps

LEMMA StepsAfter ==
  ASSUME NEW s
  PROVE  /\ StepAfter(s, "artist") \in {"album", "track"}
         /\ StepAfter(s, "album") = "track" /\ StepAfter(s, "track") = StepAfter(s, "gain")
         /\ StepAfter(s, "gain") \in {"hint", "featured", "credits"}
         /\ StepAfter(s, "gain") = "hint" => s.hint # ""
         /\ StepAfter(s, "hint") \in {"featured", "credits"}
         /\ StepAfter(s, "featured") = "credits"
  BY DEF StepAfter

LEMMA InsertingIs ==
  /\ Inserting("artist") = "insert artist" /\ Inserting("album") = "insert album"
  /\ Inserting("track") = "insert track" /\ Inserting("featured") = "insert featured"
  BY DEF Inserting

LEMMA KeysAre ==
  ASSUME NEW s
  PROVE  /\ SubmissionKey(s, "artist") = ArtistKey(s.artist)
         /\ SubmissionKey(s, "album") = AlbumKey(s.artist, s.album)
         /\ SubmissionKey(s, "track") = TrackKey(s.artist, s.track)
         /\ SubmissionKey(s, "featured") = ArtistKey(s.featured)
         /\ \A a, t : /\ ~IsTrack(ArtistKey(a)) /\ ~IsTrack(AlbumKey(a, t))
                      /\ IsTrack(TrackKey(a, t)) /\ TrackKey(a, t)[2] = a
  BY DEF SubmissionKey, ArtistKey, AlbumKey, TrackKey, IsTrack

LEMMA StoredIs ==
  ASSUME NEW rs
  PROVE  /\ DOMAIN Stored(rs) = DOMAIN rs \cup DOMAIN rows
         /\ \A k \in DOMAIN rs : Stored(rs)[k] = rs[k]
         /\ \A k \in DOMAIN rows : k \notin DOMAIN rs => Stored(rs)[k] = rows[k]
  BY DEF Stored

-----------------------------------------------------------------------------
(* What is committed only grows.                                            *)

\* Rows are written at most under some keys, and nothing known is lost.
Written(K) ==
    /\ DOMAIN rows \subseteq DOMAIN rows'
    /\ \A k \in DOMAIN rows' : IsRow(rows'[k])
    /\ \A k \in DOMAIN rows : Keeps(rows[k], rows'[k])
    /\ \A k \in DOMAIN rows' : k \notin K => k \in DOMAIN rows /\ rows'[k] = rows[k]

LEMMA NothingWritten ==
  ASSUME RowsRight, UNCHANGED rows
  PROVE  Written({})
  BY KeepsOrders DEF RowsRight, Written

\* A page that does nothing while what it holds is not written.
LEMMA PageStays ==
  ASSUME PagesStand, NEW i \in PageWriters, UNCHANGED tx[i], tx[i].at \in Working,
         NEW K, Written(K), K \cap HeldBy(i) = {}
  PROVE  Collects(i)'
  <1>1. PICK t : t = tx[i] /\ t = tx'[i]
    OBVIOUS
  <1>2. DOMAIN t.rows = HeldBy(i)
    BY <1>1 DEF HeldBy, Working, Kinds
  <1>3. Collects(i)
    BY DEF PagesStand
  <1>4. DOMAIN rows \subseteq DOMAIN rows'
    BY DEF Written
  <1>5. ASSUME NEW k \in DOMAIN rows', k \in DOMAIN t.rows
        PROVE  k \in DOMAIN rows /\ rows'[k] = rows[k]
    BY <1>2, <1>5 DEF Written
  <1>6. \A k \in DOMAIN rows' : k \in DOMAIN t.rows => Keeps(rows'[k], t.rows[k])
    BY <1>1, <1>3, <1>5 DEF Collects
  <1> QED
    BY <1>1, <1>3, <1>4, <1>6 DEF Collects

\* Pages wait while a live writer, or enrichment, writes what nobody holds.
LEMMA PagesStay ==
  ASSUME PagesStand, UNCHANGED tx, NEW K, Written(K),
         \A k \in K : ~Held(k)
  PROVE  PagesStand'
  <1>1. \A i \in PageWriters : HeldBy(i)' = HeldBy(i)
    BY DEF HeldBy
  <1>2. ASSUME NEW i \in PageWriters, tx'[i].at \in Working
        PROVE  Collects(i)'
    <2>1. K \cap HeldBy(i) = {}
      BY DEF Held
    <2> QED
      BY <1>2, <2>1, PageStays
  <1>3. /\ DOMAIN tx' = PageWriters
        /\ \A i \in PageWriters : tx'[i].at \in {"none", "over"} \cup Working
    BY DEF PagesStand
  <1>4. \A i, j \in PageWriters : i # j => HeldBy(i)' \cap HeldBy(j)' = {}
    BY <1>1 DEF PagesStand
  <1> QED
    BY <1>2, <1>3, <1>4 DEF PagesStand

LEMMA RequeuesStay ==
  ASSUME RequeuesRight, UNCHANGED requeued, NEW K, Written(K)
  PROVE  RequeuesRight'
  <1>1. ASSUME NEW k \in DOMAIN requeued
        PROVE  requeued[k] = 1 /\ k \in DOMAIN rows' /\ rows'[k].hint # ""
    <2>1. requeued[k] = 1 /\ k \in DOMAIN rows /\ rows[k].hint # ""
      BY DEF RequeuesRight
    <2>2. Keeps(rows[k], rows'[k]) /\ k \in DOMAIN rows'
      BY <2>1 DEF Written
    <2> QED
      BY <2>1, <2>2 DEF Keeps
  <1> QED
    BY <1>1 DEF RequeuesRight

\* A submission that moves on to n, and the others as they were.
LEMMA LivesAdvance ==
  ASSUME LivesStand, NEW K, Written(K), NEW w \in LiveWriters, NEW n,
         live' = [live EXCEPT ![w] = n],
         n.at \in {"idle", "done"} \cup AtWork,
         n.at \in AtWork =>
            /\ n = [at |-> n.at, s |-> n.s, pass |-> n.pass, created |-> n.created]
            /\ n.s \in Submissions /\ n.created \in BOOLEAN
            /\ \/ n.pass = 1
               \/ n.pass = 2 /\ n.at \in Lookups /\ SubmissionKey(n.s, n.at) \in DOMAIN rows'
            /\ n.at \in AfterTrack => TrackKey(n.s.artist, n.s.track) \in DOMAIN rows'
            /\ n.at = "hint" => n.s.hint # ""
  PROVE  LivesStand'
  <1>1. DOMAIN live' = LiveWriters
    BY DEF LivesStand
  <1>2. DOMAIN rows \subseteq DOMAIN rows'
    BY DEF Written
  <1>3. ASSUME NEW v \in LiveWriters
        PROVE  /\ live'[v].at \in {"idle", "done"} \cup AtWork
               /\ live'[v].at \in AtWork => Progresses(live[v])'
    <2>1. CASE v = w
      <3>1. live'[v] = n
        BY <2>1 DEF LivesStand
      <3> QED
        BY <3>1 DEF Progresses
    <2>2. CASE v # w
      <3>1. PICK l : l = live[v] /\ l = live'[v]
        BY <2>2 DEF LivesStand
      <3>2. /\ l.at \in {"idle", "done"} \cup AtWork
            /\ l.at \in AtWork => Progresses(l)
        BY <3>1 DEF LivesStand
      <3>3. ASSUME l.at \in AtWork
            PROVE  Progresses(live[v])'
        BY <1>2, <3>1, <3>2, <3>3 DEF Progresses
      <3> QED
        BY <3>1, <3>2, <3>3
    <2> QED
      BY <2>1, <2>2
  <1> QED
    BY <1>1, <1>3 DEF LivesStand

LEMMA LivesStay ==
  ASSUME LivesStand, UNCHANGED live, NEW K, Written(K)
  PROVE  LivesStand'
  <1>1. DOMAIN rows \subseteq DOMAIN rows'
    BY DEF Written
  <1>2. ASSUME NEW v \in LiveWriters, live[v].at \in AtWork
        PROVE  Progresses(live[v])'
    <2>1. PICK l : l = live[v] /\ l = live'[v]
      OBVIOUS
    <2>2. Progresses(l)
      BY <1>2, <2>1 DEF LivesStand
    <2> QED
      BY <1>1, <2>1, <2>2 DEF Progresses
  <1> QED
    BY <1>2 DEF LivesStand

\* Tracks are made by those who will credit them, and who did stays.
LEMMA CreditsStay ==
  ASSUME CreditsCome, credits \subseteq credits',
         \A k \in uncredited : k \in uncredited' \/ <<k, k[2]>> \in credits',
         \A k \in DOMAIN rows : CreatorAtWork(k) =>
             CreatorAtWork(k)' \/ <<k, k[2]>> \in credits' \/ k \in uncredited',
         \A k \in DOMAIN rows' : k \notin DOMAIN rows /\ IsTrack(k) =>
             CreatorAtWork(k)' \/ <<k, k[2]>> \in credits'
  PROVE  CreditsCome'
  <1>1. ASSUME NEW k \in DOMAIN rows', IsTrack(k)
        PROVE  <<k, k[2]>> \in credits' \/ k \in uncredited' \/ CreatorAtWork(k)'
    <2>1. CASE k \in DOMAIN rows
      BY <1>1, <2>1 DEF CreditsCome
    <2>2. CASE k \notin DOMAIN rows
      BY <1>1, <2>2
    <2> QED
      BY <2>1, <2>2
  <1> QED
    BY <1>1 DEF CreditsCome

\* A submission that goes on with what it made goes on to credit it.
LEMMA CreatorsAdvance ==
  ASSUME LivesStand, NEW w \in LiveWriters, NEW n, live' = [live EXCEPT ![w] = n],
         live[w].at \in AtWork => /\ n.at \in AtWork /\ n.s = live[w].s
                                  /\ live[w].created = TRUE => n.created = TRUE,
         NEW k, CreatorAtWork(k)
  PROVE  CreatorAtWork(k)'
  <1>1. PICK v \in LiveWriters :
          /\ live[v].at \in AtWork /\ live[v].created = TRUE
          /\ TrackKey(live[v].s.artist, live[v].s.track) = k
    BY DEF CreatorAtWork
  <1>2. CASE v = w
    <2>1. live'[w] = n
      BY DEF LivesStand
    <2> QED
      BY <1>1, <1>2, <2>1 DEF CreatorAtWork
  <1>3. CASE v # w
    <2>1. live'[v] = live[v]
      BY <1>3 DEF LivesStand
    <2> QED
      BY <1>1, <2>1 DEF CreatorAtWork
  <1> QED
    BY <1>2, <1>3

-----------------------------------------------------------------------------
(* Live submissions.                                                        *)

\* A submission at work moves on, and writes at most one row nobody holds.
LEMMA SubmissionMoves ==
  ASSUME CatalogInv, NEW w \in LiveWriters, live[w].at \in AtWork, NEW n,
         live' = [live EXCEPT ![w] = n],
         NEW k, Written({k}), Written({}) \/ ~Held(k),
         UNCHANGED <<tx, credits, uncredited>>,
         n = [at |-> n.at, s |-> n.s, pass |-> n.pass, created |-> n.created],
         n.at \in AtWork, n.s = live[w].s, n.created \in BOOLEAN,
         live[w].created = TRUE => n.created = TRUE,
         \/ n.pass = 1
         \/ n.pass = 2 /\ n.at \in Lookups /\ SubmissionKey(n.s, n.at) \in DOMAIN rows',
         n.at \in AfterTrack => TrackKey(n.s.artist, n.s.track) \in DOMAIN rows',
         n.at = "hint" => n.s.hint # "",
         k \notin DOMAIN rows /\ k \in DOMAIN rows' /\ IsTrack(k) =>
             n.created = TRUE /\ TrackKey(n.s.artist, n.s.track) = k
  PROVE  RowsRight' /\ LivesStand' /\ PagesStand' /\ CreditsCome'
  <1>1. RowsRight'
    BY DEF Written, RowsRight
  <1>2. n.s \in Submissions
    BY DEF CatalogInv, LivesStand, Progresses
  <1>3. LivesStand'
    BY <1>2, LivesAdvance DEF CatalogInv
  <1>4. PagesStand'
    <2>1. CASE Written({})
      BY <2>1, PagesStay DEF CatalogInv
    <2>2. CASE ~Held(k)
      BY <2>2, PagesStay DEF CatalogInv
    <2> QED
      BY <2>1, <2>2
  <1>5. \A x : CreatorAtWork(x) => CreatorAtWork(x)'
    BY CreatorsAdvance DEF CatalogInv
  <1>6. live'[w] = n
    BY DEF CatalogInv, LivesStand
  <1>7. ASSUME NEW x \in DOMAIN rows', x \notin DOMAIN rows, IsTrack(x)
        PROVE  CreatorAtWork(x)'
    <2>1. x = k
      BY <1>7 DEF Written
    <2> QED
      BY <1>6, <1>7, <2>1 DEF CreatorAtWork
  <1>8. CreditsCome'
    BY <1>5, <1>7, CreditsStay DEF CatalogInv
  <1> QED
    BY <1>1, <1>3, <1>4, <1>8

LEMMA WrittenMore ==
  ASSUME NEW k, Written({})
  PROVE  Written({k})
  BY DEF Written

LEMMA ResolveKeeps ==
  ASSUME CatalogInv, NEW w \in LiveWriters, Resolve(w)
  PROVE  CatalogInv' /\ Written({})
  <1>1. live[w].at = "idle" /\ UNCHANGED <<rows, credits, requeued, tx, uncredited>>
    BY DEF Resolve, Advance
  <1>2. PICK s \in Submissions :
           live' = [live EXCEPT ![w] = [at |-> "artist", s |-> s, pass |-> 1, created |-> FALSE]]
    BY DEF Resolve, Advance
  <1>3. PICK n : n = [at |-> "artist", s |-> s, pass |-> 1, created |-> FALSE]
    OBVIOUS
  <1>4. /\ n.at = "artist" /\ n.s = s /\ n.pass = 1 /\ n.created \in BOOLEAN
        /\ n = [at |-> n.at, s |-> n.s, pass |-> n.pass, created |-> n.created]
    BY <1>3
  <1>5. n.at \in AtWork /\ n.at \notin AfterTrack /\ "idle" \notin AtWork
    BY <1>4 DEF AtWork, Lookups, Inserts, AfterTrack
  <1>6. Written({})
    BY <1>1, NothingWritten DEF CatalogInv
  <1>7. LivesStand'
    BY <1>2, <1>3, <1>4, <1>5, <1>6, LivesAdvance DEF CatalogInv
  <1>8. PagesStand' /\ RequeuesRight' /\ RowsRight'
    BY <1>1, <1>6, PagesStay, RequeuesStay DEF CatalogInv, RowsRight
  <1>9. \A x : CreatorAtWork(x) => CreatorAtWork(x)'
    BY <1>1, <1>2, <1>3, <1>5, CreatorsAdvance DEF CatalogInv
  <1>10. CreditsCome'
    BY <1>1, <1>9, CreditsStay DEF CatalogInv
  <1> QED
    BY <1>6, <1>7, <1>8, <1>10 DEF CatalogInv

LEMMA LookupKeeps ==
  ASSUME CatalogInv, NEW w \in LiveWriters, Lookup(w)
  PROVE  CatalogInv' /\ Written({})
  <1>1. PICK l : l = live[w]
    OBVIOUS
  <1>2. l.at \in Lookups /\ l.at \in AtWork /\ Progresses(l)
    BY <1>1 DEF Lookup, CatalogInv, LivesStand, Lookups, AtWork
  <1>3. /\ l = [at |-> l.at, s |-> l.s, pass |-> l.pass, created |-> l.created]
        /\ l.s \in Submissions /\ l.created \in BOOLEAN
    BY <1>2 DEF Progresses
  <1>4. UNCHANGED <<rows, credits, requeued, tx, uncredited>>
    BY DEF Lookup, Advance
  <1>5. Written({})
    BY <1>4, NothingWritten DEF CatalogInv
  <1>6. ASSUME NEW n, live' = [live EXCEPT ![w] = n],
               n = [at |-> n.at, s |-> n.s, pass |-> n.pass, created |-> n.created],
               n.s = l.s, n.created = l.created,
               n.at \in AtWork, n.pass = 1,
               n.at \in AfterTrack => TrackKey(l.s.artist, l.s.track) \in DOMAIN rows,
               n.at = "hint" => l.s.hint # ""
        PROVE  CatalogInv'
    <2>1. PICK k : TRUE
      OBVIOUS
    <2>2. Written({k})
      BY <1>5, WrittenMore
    <2>3. n.created \in BOOLEAN /\ (live[w].created = TRUE => n.created = TRUE)
      BY <1>1, <1>3, <1>6
    <2>4. RowsRight' /\ LivesStand' /\ PagesStand' /\ CreditsCome'
      BY <1>1, <1>2, <1>3, <1>4, <1>5, <1>6, <2>2, <2>3, SubmissionMoves
    <2> QED
      BY <1>4, <1>5, <2>4, RequeuesStay DEF CatalogInv
  <1>7. CASE SubmissionKey(l.s, l.at) \in DOMAIN rows
    <2> DEFINE lacks == l.at = "track" /\ Gains(rows[SubmissionKey(l.s, l.at)], l.s)
               next == IF lacks THEN "gain" ELSE StepAfter(l.s, l.at)
    <2>1. PICK n : n = [l EXCEPT !.at = next, !.pass = 1]
      OBVIOUS
    <2>2. live' = [live EXCEPT ![w] = n]
      BY <1>1, <1>7, <2>1 DEF Lookup, Advance
    <2>0. \/ l.at \in {"artist", "album"} /\ next \in {"album", "track"}
          \/ /\ l.at = "track" /\ next \in {"gain", "hint", "featured", "credits"}
             /\ next = "hint" => l.s.hint # ""
          \/ l.at = "featured" /\ next = "credits"
      <3> HIDE DEF lacks
      <3>1. lacks => l.at = "track"
        BY DEF lacks
      <3>2. CASE lacks
        BY <3>1, <3>2
      <3>3. CASE ~lacks
        BY <1>2, <3>3, StepsAfter DEF Lookups
      <3> QED
        BY <3>2, <3>3
    <2> HIDE DEF next
    <2>3. /\ n = [at |-> n.at, s |-> n.s, pass |-> n.pass, created |-> n.created]
          /\ n.s = l.s /\ n.created = l.created /\ n.pass = 1 /\ n.at = next
      BY <1>3, <2>1
    <2>4. \/ l.at \in {"artist", "album"} /\ n.at \in {"album", "track"}
          \/ l.at = "track" /\ n.at \in {"gain", "hint", "featured", "credits"}
          \/ l.at = "featured" /\ n.at = "credits"
      BY <2>0, <2>3
    <2>5. n.at \in AtWork /\ (n.at = "hint" => l.s.hint # "")
      BY <2>0, <2>3, <2>4 DEF AtWork, Lookups
    <2>6. n.at \in AfterTrack => TrackKey(l.s.artist, l.s.track) \in DOMAIN rows
      BY <1>2, <1>7, <2>4, KeysAre DEF AfterTrack, Progresses
    <2>7. CatalogInv'
      BY <1>6, <2>2, <2>3, <2>5, <2>6
    <2> QED
      BY <1>5, <2>7
  <1>8. CASE SubmissionKey(l.s, l.at) \notin DOMAIN rows
    <2>1. PICK n : n = [l EXCEPT !.at = Inserting(l.at)]
      OBVIOUS
    <2>2. live' = [live EXCEPT ![w] = n]
      BY <1>1, <1>8, <2>1 DEF Lookup, Advance
    <2>3. l.pass = 1
      BY <1>2, <1>8 DEF Progresses
    <2>4. /\ n = [at |-> n.at, s |-> n.s, pass |-> n.pass, created |-> n.created]
          /\ n.s = l.s /\ n.created = l.created /\ n.pass = 1 /\ n.at = Inserting(l.at)
      BY <1>3, <2>1, <2>3
    <2>5. \/ l.at \in {"artist", "album", "track"}
             /\ n.at \in {"insert artist", "insert album", "insert track"}
          \/ l.at = "featured" /\ n.at = "insert featured"
      BY <1>2, <2>4, InsertingIs DEF Lookups
    <2>6. n.at \in AtWork /\ n.at # "hint"
      BY <2>5 DEF AtWork, Inserts
    <2>7. n.at \in AfterTrack => TrackKey(l.s.artist, l.s.track) \in DOMAIN rows
      BY <1>2, <2>5 DEF AfterTrack, Progresses
    <2>8. CatalogInv'
      BY <1>6, <2>2, <2>4, <2>6, <2>7
    <2> QED
      BY <1>5, <2>8
  <1> QED
    BY <1>5, <1>7, <1>8

LEMMA InsertKeeps ==
  ASSUME CatalogInv, NEW w \in LiveWriters, NEW step \in Lookups, NEW row, IsRow(row),
         Insert(w, step, row)
  PROVE  CatalogInv' /\ \E K : Written(K)
  <1>1. PICK l : l = live[w]
    OBVIOUS
  <1>2. PICK k : k = SubmissionKey(l.s, step)
    OBVIOUS
  <1>3. /\ l.at = Inserting(step) /\ ~Held(k)
        /\ UNCHANGED <<credits, requeued, tx, uncredited>>
    BY <1>1, <1>2 DEF Insert, Advance
  <1>4. l.at \in Inserts /\ l.at \in AtWork /\ l.at \notin Lookups
    BY <1>3, InsertingIs DEF Inserts, Lookups, AtWork
  <1>5. Progresses(l)
    BY <1>1, <1>4 DEF CatalogInv, LivesStand
  <1>6. /\ l = [at |-> l.at, s |-> l.s, pass |-> l.pass, created |-> l.created]
        /\ l.s \in Submissions /\ l.created \in BOOLEAN /\ l.pass = 1
        /\ step = "featured" => TrackKey(l.s.artist, l.s.track) \in DOMAIN rows
    BY <1>3, <1>4, <1>5, InsertingIs DEF Progresses, AfterTrack
  <1>7. CASE k \in DOMAIN rows
    <2>0. l.pass + 1 = 2
      BY <1>6
    <2>1. PICK n : n = [l EXCEPT !.at = step, !.pass = 2]
      OBVIOUS
    <2>2. AfterConflict(l.pass) = "again"
      BY <1>6 DEF AfterConflict
    <2>3. live' = [live EXCEPT ![w] = n] /\ UNCHANGED rows
      <3>1. /\ live' = [live EXCEPT ![w] = [l EXCEPT !.at = step, !.pass = l.pass + 1]]
            /\ UNCHANGED rows
        BY <1>1, <1>2, <1>7, <2>2 DEF Insert, Advance
      <3> QED
        BY <2>0, <2>1, <3>1
    <2>4. /\ n = [at |-> n.at, s |-> n.s, pass |-> n.pass, created |-> n.created]
          /\ n.s = l.s /\ n.created = l.created /\ n.pass = 2 /\ n.at = step
      BY <1>6, <2>1
    <2>5. n.at \in AtWork /\ n.at # "hint" /\ n.at \in Lookups
      BY <2>4 DEF AtWork, Lookups
    <2>6. n.at \in AfterTrack => TrackKey(n.s.artist, n.s.track) \in DOMAIN rows'
      BY <1>6, <2>3, <2>4 DEF AfterTrack, Lookups
    <2>7. Written({}) /\ Written({k})
      BY <2>3, NothingWritten, WrittenMore DEF CatalogInv
    <2>8. SubmissionKey(n.s, n.at) \in DOMAIN rows'
      BY <1>2, <1>7, <2>3, <2>4
    <2>9. n.created \in BOOLEAN /\ (live[w].created = TRUE => n.created = TRUE)
      BY <1>1, <1>6, <2>4
    <2>10. RowsRight' /\ LivesStand' /\ PagesStand' /\ CreditsCome'
      BY <1>1, <1>3, <1>4, <1>7, <2>3, <2>4, <2>5, <2>6, <2>7, <2>8, <2>9, SubmissionMoves
    <2> QED
      BY <1>3, <2>7, <2>10, RequeuesStay DEF CatalogInv
  <1>8. CASE k \notin DOMAIN rows
    <2>1. PICK new : new = [x \in {k} |-> row]
      OBVIOUS
    <2>2. PICK n : n = [l EXCEPT !.at = StepAfter(l.s, step), !.pass = 1,
                                 !.created = step = "track" \/ @]
      OBVIOUS
    <2>3. rows' = Stored(new) /\ live' = [live EXCEPT ![w] = n]
      BY <1>1, <1>2, <1>8, <2>1, <2>2 DEF Insert, Advance
    <2>4. /\ DOMAIN rows' = {k} \cup DOMAIN rows /\ rows'[k] = row
          /\ \A x \in DOMAIN rows : rows'[x] = rows[x]
      <3>1. DOMAIN new = {k} /\ new[k] = row
        BY <2>1
      <3> QED
        BY <1>8, <2>3, <3>1, StoredIs
    <2>5. Written({k})
      BY <2>4, KeepsOrders DEF Written, CatalogInv, RowsRight
    <2>6. n.s = l.s /\ n.pass = 1 /\ n.at = StepAfter(l.s, step)
      BY <1>6, <2>2
    <2>7. /\ n.created = (step = "track" \/ l.created)
          /\ n = [at |-> n.at, s |-> n.s, pass |-> n.pass, created |-> n.created]
      BY <1>6, <2>2
    <2>8. /\ n.created \in BOOLEAN /\ (live[w].created = TRUE => n.created = TRUE)
          /\ step = "track" => n.created = TRUE
      BY <1>1, <1>6, <2>7
    <2>9. \/ step \in {"artist", "album"} /\ n.at \in {"album", "track"}
          \/ step = "track" /\ n.at \in {"hint", "featured", "credits"}
          \/ step = "featured" /\ n.at = "credits"
      BY <2>6, StepsAfter DEF Lookups
    <2>10. n.at \in AtWork /\ (n.at = "hint" => n.s.hint # "")
      <3>1. n.at \in AtWork
        BY <2>9 DEF AtWork, Lookups
      <3>2. n.at = "hint" => step = "track"
        BY <2>9
      <3> QED
        BY <2>6, <3>1, <3>2, StepsAfter
    <2>11. n.at \in AfterTrack => TrackKey(n.s.artist, n.s.track) \in DOMAIN rows'
      BY <1>2, <1>6, <2>4, <2>6, <2>9, KeysAre DEF AfterTrack
    <2>12. IsTrack(k) => n.created = TRUE /\ TrackKey(n.s.artist, n.s.track) = k
      <3>1. IsTrack(k) => step = "track"
        <4>1. /\ ~IsTrack(SubmissionKey(l.s, "artist")) /\ ~IsTrack(SubmissionKey(l.s, "album"))
              /\ ~IsTrack(SubmissionKey(l.s, "featured"))
          BY DEF SubmissionKey, ArtistKey, AlbumKey, IsTrack
        <4> QED
          BY <1>2, <4>1 DEF Lookups
      <3> QED
        BY <1>2, <2>6, <2>8, <3>1, KeysAre
    <2>13. RowsRight' /\ LivesStand' /\ PagesStand' /\ CreditsCome'
      BY <1>1, <1>3, <1>4, <2>3, <2>5, <2>6, <2>7, <2>8, <2>10, <2>11, <2>12, SubmissionMoves
    <2> QED
      BY <1>3, <2>5, <2>13, RequeuesStay DEF CatalogInv
  <1> QED
    BY <1>7, <1>8

\* Gain and the hint write the row of the submission's track.
LEMMA TrackRowWritten ==
  ASSUME RowsRight, NEW k \in DOMAIN rows, NEW a, NEW l, NEW h,
         rows' = [rows EXCEPT ![k] = Gained(@, a, l, h)]
  PROVE  Written({k}) /\ DOMAIN rows' = DOMAIN rows
  <1>1. rows'[k] = Gained(rows[k], a, l, h) /\ DOMAIN rows' = DOMAIN rows
    OBVIOUS
  <1>2. \A x \in DOMAIN rows : x # k => rows'[x] = rows[x]
    OBVIOUS
  <1>3. IsRow(rows[k])
    BY DEF RowsRight
  <1>4. IsRow(rows'[k]) /\ Keeps(rows[k], rows'[k])
    <2>1. PICK row : row = rows[k]
      OBVIOUS
    <2>2. PICK new : new = Gained(row, a, l, h)
      OBVIOUS
    <2>3. rows'[k] = new
      BY <1>1, <2>1, <2>2
    <2>4. IsRow(row)
      BY <1>3, <2>1
    <2>5. IsRow(new) /\ Keeps(row, new)
      BY <2>2, <2>4, GainedIs
    <2> QED
      BY <2>1, <2>3, <2>5
  <1> QED
    BY <1>1, <1>2, <1>4, KeepsOrders DEF Written, RowsRight

LEMMA GainKeeps ==
  ASSUME CatalogInv, NEW w \in LiveWriters, Gain(w)
  PROVE  CatalogInv' /\ \E K : Written(K)
  <1>1. PICK l : l = live[w]
    OBVIOUS
  <1>2. PICK k : k = TrackKey(l.s.artist, l.s.track)
    OBVIOUS
  <1>3. /\ l.at = "gain" /\ ~Held(k)
        /\ rows' = [rows EXCEPT ![k] = Gained(@, l.s.album, l.s.length, "")]
        /\ UNCHANGED <<credits, requeued, tx, uncredited>>
    BY <1>1, <1>2 DEF Gain, Advance
  <1>4. l.at \in AtWork /\ l.at \in AfterTrack /\ l.at \notin Lookups
    BY <1>3 DEF AtWork, AfterTrack, Lookups
  <1>5. Progresses(l)
    BY <1>1, <1>4 DEF CatalogInv, LivesStand
  <1>6. /\ l = [at |-> l.at, s |-> l.s, pass |-> l.pass, created |-> l.created]
        /\ l.s \in Submissions /\ l.created \in BOOLEAN /\ l.pass = 1
        /\ k \in DOMAIN rows
    BY <1>2, <1>4, <1>5 DEF Progresses
  <1>7. PICK n : n = [l EXCEPT !.at = StepAfter(l.s, "gain")]
    OBVIOUS
  <1>8. live' = [live EXCEPT ![w] = n]
    BY <1>1, <1>7 DEF Gain, Advance
  <1>9. /\ n = [at |-> n.at, s |-> n.s, pass |-> n.pass, created |-> n.created]
        /\ n.s = l.s /\ n.created = l.created /\ n.pass = 1 /\ n.at = StepAfter(l.s, "gain")
    BY <1>6, <1>7
  <1>10. n.at \in {"hint", "featured", "credits"} /\ (n.at = "hint" => n.s.hint # "")
    BY <1>9, StepsAfter
  <1>11. n.at \in AtWork
    BY <1>10 DEF AtWork, Lookups
  <1>12. Written({k}) /\ DOMAIN rows' = DOMAIN rows
    BY <1>3, <1>6, TrackRowWritten DEF CatalogInv
  <1>13. n.created \in BOOLEAN /\ (live[w].created = TRUE => n.created = TRUE)
    BY <1>1, <1>6, <1>9
  <1>14. TrackKey(n.s.artist, n.s.track) \in DOMAIN rows'
    BY <1>2, <1>6, <1>9, <1>12
  <1>15. RowsRight' /\ LivesStand' /\ PagesStand' /\ CreditsCome'
    BY <1>1, <1>3, <1>4, <1>6, <1>8, <1>9, <1>10, <1>11, <1>12, <1>13, <1>14, SubmissionMoves
  <1> QED
    BY <1>3, <1>12, <1>15, RequeuesStay DEF CatalogInv

LEMMA HintKeeps ==
  ASSUME CatalogInv, NEW w \in LiveWriters, RecordMbidHint(w)
  PROVE  CatalogInv' /\ \E K : Written(K)
  <1>1. PICK l : l = live[w]
    OBVIOUS
  <1>2. PICK k : k = TrackKey(l.s.artist, l.s.track)
    OBVIOUS
  <1>3. /\ l.at = "hint" /\ ~Held(k)
        /\ \/ rows' = rows /\ requeued' = requeued
           \/ /\ rows[k].hint = ""
              /\ rows' = [rows EXCEPT ![k] = Gained(@, "", "", l.s.hint)]
              /\ \/ requeued' = requeued
                 \/ requeued' = [x \in DOMAIN requeued \cup {k} |->
                                   IF x # k THEN requeued[x]
                                   ELSE IF k \in DOMAIN requeued THEN requeued[k] + 1 ELSE 1]
        /\ UNCHANGED <<credits, tx, uncredited>>
    BY <1>1, <1>2 DEF RecordMbidHint, Advance, MayHint
  <1>4. l.at \in AtWork /\ l.at \in AfterTrack /\ l.at \notin Lookups
    BY <1>3 DEF AtWork, AfterTrack, Lookups
  <1>5. Progresses(l)
    BY <1>1, <1>4 DEF CatalogInv, LivesStand
  <1>6. /\ l = [at |-> l.at, s |-> l.s, pass |-> l.pass, created |-> l.created]
        /\ l.s \in Submissions /\ l.created \in BOOLEAN /\ l.pass = 1
        /\ k \in DOMAIN rows /\ l.s.hint # ""
    BY <1>2, <1>3, <1>4, <1>5 DEF Progresses
  <1>7. PICK n : n = [l EXCEPT !.at = StepAfter(l.s, "hint")]
    OBVIOUS
  <1>8. live' = [live EXCEPT ![w] = n]
    BY <1>1, <1>7 DEF RecordMbidHint, Advance
  <1>9. /\ n = [at |-> n.at, s |-> n.s, pass |-> n.pass, created |-> n.created]
        /\ n.s = l.s /\ n.created = l.created /\ n.pass = 1 /\ n.at = StepAfter(l.s, "hint")
    BY <1>6, <1>7
  <1>10. n.at \in {"featured", "credits"} /\ n.at # "hint"
    BY <1>9, StepsAfter
  <1>11. n.at \in AtWork
    BY <1>10 DEF AtWork, Lookups
  <1>12. Written({k}) /\ DOMAIN rows' = DOMAIN rows
    <2>1. CASE rows' = rows
      BY <2>1, NothingWritten, WrittenMore DEF CatalogInv
    <2>2. CASE rows' = [rows EXCEPT ![k] = Gained(@, "", "", l.s.hint)]
      BY <1>6, <2>2, TrackRowWritten DEF CatalogInv
    <2> QED
      BY <1>3, <2>1, <2>2
  <1>13. n.created \in BOOLEAN /\ (live[w].created = TRUE => n.created = TRUE)
    BY <1>1, <1>6, <1>9
  <1>14. TrackKey(n.s.artist, n.s.track) \in DOMAIN rows'
    BY <1>2, <1>6, <1>9, <1>12
  <1>15. RowsRight' /\ LivesStand' /\ PagesStand' /\ CreditsCome'
    BY <1>1, <1>3, <1>4, <1>6, <1>8, <1>9, <1>10, <1>11, <1>12, <1>13, <1>14, SubmissionMoves
  <1>16. RequeuesRight'
    <2>1. CASE requeued' = requeued
      BY <1>12, <2>1, RequeuesStay DEF CatalogInv
    <2>2. CASE /\ rows[k].hint = ""
               /\ rows' = [rows EXCEPT ![k] = Gained(@, "", "", l.s.hint)]
               /\ requeued' = [x \in DOMAIN requeued \cup {k} |->
                                   IF x # k THEN requeued[x]
                                   ELSE IF k \in DOMAIN requeued THEN requeued[k] + 1 ELSE 1]
      <3>1. k \notin DOMAIN requeued
        BY <2>2 DEF CatalogInv, RequeuesRight
      <3>2. DOMAIN requeued' = DOMAIN requeued \cup {k} /\ requeued'[k] = 1
        BY <2>2, <3>1
      <3>3. rows'[k].hint = l.s.hint
        <4>1. PICK h : h = l.s.hint
          OBVIOUS
        <4>2. PICK row : row = rows[k]
          OBVIOUS
        <4>3. IsRow(row) /\ row.hint = ""
          BY <1>6, <2>2, <4>2 DEF CatalogInv, RowsRight
        <4>4. rows'[k] = Gained(row, "", "", h)
          BY <1>6, <2>2, <4>1, <4>2
        <4>5. rows'[k].hint = h
          BY <4>3, <4>4, HintIs
        <4> QED
          BY <4>1, <4>5
      <3>4. ASSUME NEW x \in DOMAIN requeued
            PROVE  requeued'[x] = 1 /\ x \in DOMAIN rows' /\ rows'[x].hint # ""
        <4>1. x # k /\ requeued[x] = 1 /\ x \in DOMAIN rows /\ rows[x].hint # ""
          BY <3>1 DEF CatalogInv, RequeuesRight
        <4>2. requeued'[x] = requeued[x]
          BY <2>2, <4>1
        <4>3. rows'[x] = rows[x]
          BY <2>2, <4>1
        <4> QED
          BY <1>12, <4>1, <4>2, <4>3
      <3> QED
        BY <1>6, <1>12, <3>2, <3>3, <3>4 DEF RequeuesRight
    <2> QED
      BY <1>3, <2>1, <2>2
  <1> QED
    BY <1>12, <1>15, <1>16 DEF CatalogInv

LEMMA CreditKeeps ==
  ASSUME CatalogInv, NEW w \in LiveWriters, RecordTrackCredits(w)
  PROVE  CatalogInv' /\ Written({})
  <1>1. PICK l : l = live[w]
    OBVIOUS
  <1>2. PICK k : k = TrackKey(l.s.artist, l.s.track)
    OBVIOUS
  <1>3. PICK n : n = [at |-> "done"]
    OBVIOUS
  <1>4. /\ l.at = "credits"
        /\ credits' = credits \cup ({k} \X ({l.s.artist, l.s.featured} \ {""}))
        /\ live' = [live EXCEPT ![w] = n]
        /\ uncredited' = uncredited \ {k}
        /\ UNCHANGED <<rows, tx, requeued>>
    BY <1>1, <1>2, <1>3 DEF RecordTrackCredits
  <1>5. l.at \in AtWork /\ Progresses(l)
    BY <1>1, <1>4 DEF AtWork, CatalogInv, LivesStand
  <1>6. l.s \in Submissions /\ l.s.artist # ""
    BY <1>5, CatalogConstants DEF Progresses
  <1>7. <<k, k[2]>> \in credits'
    <2>1. k[2] = l.s.artist
      BY <1>2 DEF TrackKey
    <2>2. l.s.artist \in {l.s.artist, l.s.featured} \ {""}
      BY <1>6
    <2>3. <<k, l.s.artist>> \in {k} \X ({l.s.artist, l.s.featured} \ {""})
      BY <2>2
    <2> QED
      BY <1>4, <2>1, <2>3
  <1>8. Written({})
    BY <1>4, NothingWritten DEF CatalogInv
  <1>9. n.at = "done" /\ n.at \in {"idle", "done"} \cup AtWork /\ n.at \notin AtWork
    BY <1>3 DEF AtWork, Lookups, Inserts
  <1>10. LivesStand'
    BY <1>4, <1>8, <1>9, LivesAdvance DEF CatalogInv
  <1>11. PagesStand' /\ RequeuesRight' /\ RowsRight'
    BY <1>4, <1>8, PagesStay, RequeuesStay DEF CatalogInv, RowsRight
  <1>12. CreditsCome'
    <2>1. ASSUME NEW x, CreatorAtWork(x)
          PROVE  CreatorAtWork(x)' \/ x = k
      <3>1. PICK v \in LiveWriters :
              /\ live[v].at \in AtWork /\ live[v].created = TRUE
              /\ TrackKey(live[v].s.artist, live[v].s.track) = x
        BY <2>1 DEF CreatorAtWork
      <3>2. CASE v = w
        BY <1>1, <1>2, <3>1, <3>2
      <3>3. CASE v # w
        <4>1. live'[v] = live[v]
          BY <1>4, <3>3 DEF CatalogInv, LivesStand
        <4> QED
          BY <3>1, <4>1 DEF CreatorAtWork
      <3> QED
        BY <3>2, <3>3
    <2>2. credits \subseteq credits'
      BY <1>4
    <2>3. \A x \in uncredited : x \in uncredited' \/ x = k
      BY <1>4
    <2> QED
      BY <1>4, <1>7, <2>1, <2>2, <2>3, CreditsStay DEF CatalogInv
  <1> QED
    BY <1>8, <1>10, <1>11, <1>12 DEF CatalogInv

LEMMA CrashKeeps ==
  ASSUME CatalogInv, NEW w \in LiveWriters, LiveCrash(w)
  PROVE  CatalogInv' /\ Written({})
  <1>1. PICK l : l = live[w]
    OBVIOUS
  <1>2. PICK k : k = TrackKey(l.s.artist, l.s.track)
    OBVIOUS
  <1>3. PICK n : n = [at |-> "done"]
    OBVIOUS
  <1>4. /\ l.at \notin {"idle", "done", "not found"}
        /\ live' = [live EXCEPT ![w] = n]
        /\ uncredited \subseteq uncredited'
        /\ l.created = TRUE => k \in uncredited'
        /\ UNCHANGED <<rows, tx, credits, requeued>>
    BY <1>1, <1>2, <1>3 DEF LiveCrash
  <1>5. Written({})
    BY <1>4, NothingWritten DEF CatalogInv
  <1>6. n.at = "done" /\ n.at \in {"idle", "done"} \cup AtWork /\ n.at \notin AtWork
    BY <1>3 DEF AtWork, Lookups, Inserts
  <1>7. LivesStand'
    BY <1>4, <1>5, <1>6, LivesAdvance DEF CatalogInv
  <1>8. PagesStand' /\ RequeuesRight' /\ RowsRight'
    BY <1>4, <1>5, PagesStay, RequeuesStay DEF CatalogInv, RowsRight
  <1>9. CreditsCome'
    <2>1. ASSUME NEW x, CreatorAtWork(x)
          PROVE  CreatorAtWork(x)' \/ x \in uncredited'
      <3>1. PICK v \in LiveWriters :
              /\ live[v].at \in AtWork /\ live[v].created = TRUE
              /\ TrackKey(live[v].s.artist, live[v].s.track) = x
        BY <2>1 DEF CreatorAtWork
      <3>2. CASE v = w
        BY <1>1, <1>2, <1>4, <3>1, <3>2
      <3>3. CASE v # w
        <4>1. live'[v] = live[v]
          BY <1>4, <3>3 DEF CatalogInv, LivesStand
        <4> QED
          BY <3>1, <4>1 DEF CreatorAtWork
      <3> QED
        BY <3>2, <3>3
    <2> QED
      BY <1>4, <2>1, CreditsStay DEF CatalogInv
  <1> QED
    BY <1>5, <1>7, <1>8, <1>9 DEF CatalogInv

-----------------------------------------------------------------------------
(* Enrichment.                                                              *)

LEMMA MatchKeeps ==
  ASSUME CatalogInv, NEW k, MatchTrack(k)
  PROVE  CatalogInv' /\ Written({k})
  <1>1. /\ k \in DOMAIN rows /\ ~Held(k)
        /\ UNCHANGED <<tx, live, credits, requeued, uncredited>>
    BY DEF MatchTrack
  <1>2. PICK matched \in BOOLEAN :
           rows' = [rows EXCEPT ![k].enriched = TRUE, ![k].mbid = matched]
    BY DEF MatchTrack
  <1>3. PICK row : row = rows[k]
    OBVIOUS
  <1>4. PICK new : new = [row EXCEPT !.enriched = TRUE, !.mbid = matched]
    OBVIOUS
  <1>5. IsRow(row)
    BY <1>1, <1>3 DEF CatalogInv, RowsRight
  <1>6. DOMAIN rows' = DOMAIN rows /\ (\A x \in DOMAIN rows : x # k => rows'[x] = rows[x])
    BY <1>1, <1>2
  <1>7. rows'[k] = new
    BY <1>1, <1>2, <1>3, <1>4
  <1>8. IsRow(new) /\ Keeps(row, new)
    BY <1>4, <1>5, MatchedIs
  <1>9. Written({k})
    BY <1>1, <1>3, <1>6, <1>7, <1>8, KeepsOrders DEF Written, CatalogInv, RowsRight
  <1>10. RowsRight' /\ LivesStand' /\ PagesStand' /\ RequeuesRight'
    <2>1. RowsRight'
      BY <1>9 DEF Written, RowsRight
    <2>2. PagesStand'
      BY <1>1, <1>9, PagesStay DEF CatalogInv
    <2>3. LivesStand' /\ RequeuesRight'
      BY <1>1, <1>9, LivesStay, RequeuesStay DEF CatalogInv
    <2> QED
      BY <2>1, <2>2, <2>3
  <1>11. \A x : CreatorAtWork(x) => CreatorAtWork(x)'
    BY <1>1 DEF CreatorAtWork
  <1>12. CreditsCome'
    BY <1>1, <1>6, <1>11, CreditsStay DEF CatalogInv
  <1> QED
    BY <1>9, <1>10, <1>12 DEF CatalogInv

-----------------------------------------------------------------------------
(* Pages.                                                                   *)

LEMMA WantedIs ==
  ASSUME NEW i \in PageWriters, NEW kind
  PROVE  /\ Len(Wanted(i, kind)) \in Nat
         /\ DOMAIN Wanted(i, kind) = 1 .. Len(Wanted(i, kind))
  <1>1. FirstPlays(i, kind) \subseteq DOMAIN PagePlays[i]
    BY DEF FirstPlays
  <1>2. IsFiniteSet(DOMAIN PagePlays[i])
    BY CatalogConstants
  <1>3. IsFiniteSet(FirstPlays(i, kind))
    BY <1>1, <1>2, FS_Subset
  <1>4. PICK n \in Nat : n = Cardinality(FirstPlays(i, kind))
    BY <1>3, FS_CardinalityType
  <1>5. Wanted(i, kind) = [nth \in 1 .. n |-> NthKey(i, kind, nth)]
    BY <1>4 DEF Wanted
  <1>6. PICK S : S = {NthKey(i, kind, nth) : nth \in 1 .. n}
    OBVIOUS
  <1>7. PICK s : s = Wanted(i, kind)
    OBVIOUS
  <1>8. s \in [1 .. n -> S]
    BY <1>5, <1>6, <1>7
  <1>9. s \in Seq(S)
    BY <1>4, <1>8, SeqDef
  <1> QED
    BY <1>7, <1>9, LenProperties

\* A page does a step, and the others stay as they were.
LEMMA PageAdvances ==
  ASSUME PagesStand, NEW i \in PageWriters, NEW u, tx' = [tx EXCEPT ![i] = u],
         u.at \in {"none", "over"} \cup Working, u.at \in Working => Collects(i)',
         NEW K, Written(K),
         \A j \in PageWriters : j # i => K \cap HeldBy(j) = {},
         NEW H, HeldBy(i)' \subseteq H,
         \A j \in PageWriters : j # i => H \cap HeldBy(j) = {}
  PROVE  PagesStand'
  <1>1. DOMAIN tx' = PageWriters /\ tx'[i] = u
    BY DEF PagesStand
  <1>2. \A j \in PageWriters : j # i => tx'[j] = tx[j]
    BY DEF PagesStand
  <1>3. \A j \in PageWriters : j # i => HeldBy(j)' = HeldBy(j)
    BY <1>2 DEF HeldBy
  <1>4. ASSUME NEW j \in PageWriters
        PROVE  /\ tx'[j].at \in {"none", "over"} \cup Working
               /\ tx'[j].at \in Working => Collects(j)'
    <2>1. CASE j = i
      BY <1>1, <2>1
    <2>2. CASE j # i
      <3>1. UNCHANGED tx[j] /\ K \cap HeldBy(j) = {}
        BY <1>2, <2>2
      <3>2. tx[j].at \in {"none", "over"} \cup Working
        BY DEF PagesStand
      <3>3. tx[j].at \in Working => Collects(j)'
        BY <3>1, PageStays
      <3> QED
        BY <3>1, <3>2, <3>3
    <2> QED
      BY <2>1, <2>2
  <1>5. ASSUME NEW j \in PageWriters, NEW m \in PageWriters, j # m
        PROVE  HeldBy(j)' \cap HeldBy(m)' = {}
    <2>1. CASE j = i
      BY <1>3, <1>5, <2>1
    <2>2. CASE m = i
      BY <1>3, <1>5, <2>2
    <2>3. CASE j # i /\ m # i
      BY <1>3, <1>5, <2>3 DEF PagesStand
    <2> QED
      BY <2>1, <2>2, <2>3
  <1> QED
    BY <1>1, <1>4, <1>5 DEF PagesStand

\* A page's own step writes nothing that others read.
LEMMA PageMoves ==
  ASSUME CatalogInv, NEW i \in PageWriters, NEW u, Page(i, u),
         UNCHANGED <<rows, credits, requeued>>,
         u.at \in Working, Collects(i)', NEW H, DOMAIN u.rows \subseteq HeldBy(i) \cup H,
         \A j \in PageWriters : j # i => H \cap HeldBy(j) = {}
  PROVE  CatalogInv' /\ Written({})
  <1>1. tx' = [tx EXCEPT ![i] = u] /\ UNCHANGED <<live, uncredited>>
    BY DEF Page
  <1>2. Written({})
    BY NothingWritten DEF CatalogInv
  <1>3. PICK G : G = HeldBy(i) \cup H
    OBVIOUS
  <1>4. \A j \in PageWriters : j # i => G \cap HeldBy(j) = {}
    BY <1>3 DEF CatalogInv, PagesStand
  <1>5. HeldBy(i)' \subseteq G
    <2>1. tx'[i] = u
      BY <1>1 DEF CatalogInv, PagesStand
    <2> QED
      BY <1>3, <2>1 DEF HeldBy
  <1>6. PagesStand'
    BY <1>1, <1>2, <1>4, <1>5, PageAdvances DEF CatalogInv
  <1>7. LivesStand' /\ RequeuesRight' /\ RowsRight'
    BY <1>1, <1>2, LivesStay, RequeuesStay DEF CatalogInv, RowsRight
  <1>8. \A x : CreatorAtWork(x) => CreatorAtWork(x)'
    BY <1>1 DEF CreatorAtWork
  <1>9. CreditsCome'
    BY <1>1, <1>8, CreditsStay DEF CatalogInv
  <1> QED
    BY <1>2, <1>6, <1>7, <1>9 DEF CatalogInv

LEMMA BeginKeeps ==
  ASSUME CatalogInv, NEW i \in PageWriters, BeginPage(i)
  PROVE  CatalogInv' /\ Written({})
  <1>1. PICK e : e = [at |-> "", next |-> 1, pass |-> 1, sees |-> {}, rows |-> <<>>,
                      found |-> {}, created |-> {}]
    OBVIOUS
  <1>2. PICK u : u = UpsertKind(i, e, "artists", 1)
    OBVIOUS
  <1>3. Page(i, u) /\ UNCHANGED <<rows, credits, requeued>>
    BY <1>1, <1>2 DEF BeginPage
  <1>4. DOMAIN e.rows = {} /\ e.found = {} /\ e.created = {}
    <2>1. e.rows = <<>> /\ e.found = {} /\ e.created = {}
      BY <1>1
    <2>2. DOMAIN <<>> = {}
      OBVIOUS
    <2> QED
      BY <2>1, <2>2
  <1>5. /\ u = [at |-> u.at, next |-> u.next, pass |-> u.pass, sees |-> u.sees,
                rows |-> u.rows, found |-> u.found, created |-> u.created]
        /\ u.at = "artists" /\ u.next = 1 /\ u.pass = 1 /\ u.sees = DOMAIN rows \cup DOMAIN e.rows
        /\ u.rows = e.rows /\ u.found = e.found
    BY <1>1, <1>2 DEF UpsertKind
  <1>6. u.at \in Working /\ u.at \in Kinds
    BY <1>5 DEF Working, Kinds
  <1>7. tx'[i] = u
    BY <1>3 DEF Page, CatalogInv, PagesStand
  <1>8. \A n \in DOMAIN Wanted(i, u.at) : ~(n < u.next)
    <2>1. PICK len \in Nat : DOMAIN Wanted(i, u.at) = 1 .. len
      BY WantedIs
    <2>2. \A n \in 1 .. len : ~(n < 1)
      OBVIOUS
    <2> QED
      BY <1>5, <2>1, <2>2
  <1>9. Collects(i)'
    BY <1>3, <1>4, <1>5, <1>6, <1>7, <1>8 DEF Collects
  <1>10. DOMAIN u.rows \subseteq HeldBy(i) \cup {}
    BY <1>4, <1>5
  <1> QED
    BY <1>3, <1>6, <1>9, <1>10, PageMoves

LEMMA RowKeeps ==
  ASSUME CatalogInv, NEW i \in PageWriters, NEW kind \in Kinds,
         UpsertRow(i, kind)
  PROVE  CatalogInv' /\ Written({})
  <1>1. PICK t : t = tx[i]
    OBVIOUS
  <1>2. PICK k : k = Wanted(i, kind)[t.next]
    OBVIOUS
  <1>3. /\ t.at = kind /\ t.next <= Len(Wanted(i, kind))
        /\ \A j \in PageWriters : j # i => k \notin HeldBy(j)
        /\ UNCHANGED <<rows, credits, requeued>>
    BY <1>1, <1>2 DEF UpsertRow
  <1>4. t.at \in Working
    BY <1>3 DEF Working
  <1>5. Collects(i)
    BY <1>1, <1>4 DEF CatalogInv, PagesStand
  <1>6. PICK there : there = DOMAIN rows \cup DOMAIN t.rows
    OBVIOUS
  <1>7. /\ t = [at |-> t.at, next |-> t.next, pass |-> t.pass, sees |-> t.sees,
                rows |-> t.rows, found |-> t.found, created |-> t.created]
        /\ t.next \in Nat \ {0} /\ t.pass \in {1, 2}
        /\ \A x \in DOMAIN t.rows : IsRow(t.rows[x])
        /\ DOMAIN t.rows \subseteq DOMAIN rows \cup t.created
        /\ \A x \in DOMAIN rows : x \in DOMAIN t.rows => Keeps(rows[x], t.rows[x])
        /\ t.found \cup t.sees \subseteq there
        /\ \A n \in DOMAIN Wanted(i, kind) :
              /\ n < t.next => Wanted(i, kind)[n] \in there
              /\ t.pass = 2 => Wanted(i, kind)[n] \in t.sees
    BY <1>1, <1>3, <1>5, <1>6 DEF Collects
  <1>8. HeldBy(i) = DOMAIN t.rows
    BY <1>1, <1>4 DEF HeldBy, Working, Kinds
  <1>9. \A n \in DOMAIN Wanted(i, kind) :
           n < t.next + 1 => Wanted(i, kind)[n] \in there \cup {k}
    <2>1. PICK len \in Nat : DOMAIN Wanted(i, kind) = 1 .. len
      BY WantedIs
    <2>2. PICK m \in Nat : m = t.next
      BY <1>7
    <2>3. \A n \in 1 .. len : n < m + 1 => n < m \/ n = m
      BY <2>1, <2>2
    <2> QED
      BY <1>2, <1>7, <2>1, <2>2, <2>3
  <1>10. kind # "gains"
    BY DEF Kinds
  <1>11. t.next + 1 \in Nat \ {0}
    <2>1. PICK m \in Nat \ {0} : m = t.next
      BY <1>7
    <2>2. m + 1 \in Nat \ {0}
      BY <2>1
    <2> QED
      BY <2>1, <2>2
  <1>12. CASE k \in there
    <2>1. PICK u : u = [t EXCEPT !.next = t.next + 1]
      OBVIOUS
    <2>2. Page(i, u)
      BY <1>1, <1>2, <1>6, <1>12, <2>1 DEF UpsertRow
    <2>3. /\ u = [at |-> u.at, next |-> u.next, pass |-> u.pass, sees |-> u.sees,
                  rows |-> u.rows, found |-> u.found, created |-> u.created]
          /\ u.at = kind /\ u.next = t.next + 1 /\ u.pass = t.pass /\ u.sees = t.sees
          /\ u.rows = t.rows /\ u.found = t.found /\ u.created = t.created
      BY <1>3, <1>7, <2>1
    <2>4. tx'[i] = u
      BY <2>2 DEF Page, CatalogInv, PagesStand
    <2>5. \A n \in DOMAIN Wanted(i, kind) : n < u.next => Wanted(i, kind)[n] \in there
      BY <1>9, <1>12, <2>3
    <2>6. u.next \in Nat \ {0}
      BY <1>11, <2>3
    <2>7. Collects(i)'
      BY <1>3, <1>6, <1>7, <1>10, <2>3, <2>4, <2>5, <2>6 DEF Collects
    <2>8. DOMAIN u.rows \subseteq HeldBy(i) \cup {}
      BY <1>8, <2>3
    <2>9. u.at \in Working
      BY <2>3 DEF Working
    <2>10. \A j \in PageWriters : j # i => {} \cap HeldBy(j) = {}
      OBVIOUS
    <2> QED
      BY <1>3, <2>2, <2>7, <2>8, <2>9, <2>10, PageMoves
  <1>13. CASE k \notin there
    <2>1. PICK new : new = [x \in DOMAIN t.rows \cup {k} |->
                              IF x = k THEN RowOf(i, k, kind) ELSE t.rows[x]]
      OBVIOUS
    <2>2. PICK u : u = [t EXCEPT !.next = t.next + 1, !.rows = new,
                                 !.found = t.found \cup {k}, !.created = t.created \cup {k}]
      OBVIOUS
    <2>3. Page(i, u)
      BY <1>1, <1>2, <1>6, <1>13, <2>1, <2>2 DEF UpsertRow
    <2>4. /\ u = [at |-> u.at, next |-> u.next, pass |-> u.pass, sees |-> u.sees,
                  rows |-> u.rows, found |-> u.found, created |-> u.created]
          /\ u.at = kind /\ u.next = t.next + 1 /\ u.pass = t.pass /\ u.sees = t.sees
          /\ u.rows = new /\ u.found = t.found \cup {k} /\ u.created = t.created \cup {k}
      BY <1>3, <1>7, <2>2
    <2>5. tx'[i] = u
      BY <2>3 DEF Page, CatalogInv, PagesStand
    <2>6. /\ DOMAIN new = DOMAIN t.rows \cup {k} /\ new[k] = RowOf(i, k, kind)
          /\ \A x \in DOMAIN t.rows : new[x] = t.rows[x]
      BY <1>6, <1>13, <2>1
    <2>7. IsRow(RowOf(i, k, kind))
      BY NewRowsAre DEF RowOf
    <2>8. \A x \in DOMAIN new : IsRow(new[x])
      BY <1>7, <2>6, <2>7
    <2>9. DOMAIN new \subseteq DOMAIN rows \cup u.created
      BY <1>7, <2>4, <2>6
    <2>10. \A x \in DOMAIN rows : x \in DOMAIN new => Keeps(rows[x], new[x])
      BY <1>6, <1>7, <1>13, <2>6
    <2>11. u.found \cup u.sees \subseteq DOMAIN rows \cup DOMAIN new
      BY <1>6, <1>7, <2>4, <2>6
    <2>12. \A n \in DOMAIN Wanted(i, kind) :
              /\ n < u.next => Wanted(i, kind)[n] \in DOMAIN rows \cup DOMAIN new
              /\ u.pass = 2 => Wanted(i, kind)[n] \in u.sees
      BY <1>6, <1>7, <1>9, <2>4, <2>6
    <2>13. u.next \in Nat \ {0} /\ u.pass \in {1, 2}
      BY <1>7, <1>11, <2>4
    <2>14. Collects(i)'
      BY <1>3, <1>10, <2>4, <2>5, <2>8, <2>9, <2>10, <2>11, <2>12, <2>13 DEF Collects
    <2>15. DOMAIN u.rows \subseteq HeldBy(i) \cup {k}
      BY <1>8, <2>4, <2>6
    <2>16. u.at \in Working
      BY <2>4 DEF Working
    <2>17. \A j \in PageWriters : j # i => {k} \cap HeldBy(j) = {}
      BY <1>3
    <2> QED
      BY <1>3, <2>3, <2>14, <2>15, <2>16, <2>17, PageMoves
  <1> QED
    BY <1>12, <1>13

LEMMA DoneKeeps ==
  ASSUME CatalogInv, NEW i \in PageWriters, NEW kind \in Kinds, UpsertDone(i, kind)
  PROVE  CatalogInv' /\ Written({})
  <1>1. PICK t : t = tx[i]
    OBVIOUS
  <1>2. PICK there : there = DOMAIN rows \cup DOMAIN t.rows
    OBVIOUS
  <1>3. PICK found : found = t.found \cup t.sees
    OBVIOUS
  <1>4. PICK e : e = [t EXCEPT !.found = found]
    OBVIOUS
  <1>5. /\ t.at = kind /\ t.next > Len(Wanted(i, kind))
        /\ UNCHANGED <<rows, credits, requeued>>
    BY <1>1 DEF UpsertDone
  <1>6. t.at \in Working
    BY <1>5 DEF Working
  <1>7. Collects(i)
    BY <1>1, <1>6 DEF CatalogInv, PagesStand
  <1>8. /\ t = [at |-> t.at, next |-> t.next, pass |-> t.pass, sees |-> t.sees,
                rows |-> t.rows, found |-> t.found, created |-> t.created]
        /\ t.next \in Nat \ {0} /\ t.pass \in {1, 2}
        /\ \A x \in DOMAIN t.rows : IsRow(t.rows[x])
        /\ DOMAIN t.rows \subseteq DOMAIN rows \cup t.created
        /\ \A x \in DOMAIN rows : x \in DOMAIN t.rows => Keeps(rows[x], t.rows[x])
        /\ t.found \cup t.sees \subseteq there
        /\ \A n \in DOMAIN Wanted(i, kind) :
              /\ n < t.next => Wanted(i, kind)[n] \in there
              /\ t.pass = 2 => Wanted(i, kind)[n] \in t.sees
    BY <1>1, <1>2, <1>5, <1>7 DEF Collects
  <1>9. HeldBy(i) = DOMAIN t.rows
    BY <1>1, <1>6 DEF HeldBy, Working, Kinds
  <1>10. \A n \in DOMAIN Wanted(i, kind) : Wanted(i, kind)[n] \in there
    <2>1. PICK len \in Nat : len = Len(Wanted(i, kind)) /\ DOMAIN Wanted(i, kind) = 1 .. len
      BY WantedIs
    <2>2. PICK m \in Nat : m = t.next
      BY <1>8
    <2>3. \A n \in 1 .. len : n < m
      BY <1>5, <2>1, <2>2
    <2> QED
      BY <1>8, <2>1, <2>2, <2>3
  <1>11. PICK all \in BOOLEAN :
            all <=> \A n \in DOMAIN Wanted(i, kind) : Wanted(i, kind)[n] \in found
    OBVIOUS
  <1>12. ASSUME NEW k, NEW p \in {1, 2}, NEW u, u = UpsertKind(i, e, k, p), Page(i, u),
                k \in Working,
                k \in Kinds => p = 1 \/ k = kind,
                k = "gains" => kind = "tracks"
         PROVE  CatalogInv' /\ Written({})
    <2>1. /\ u = [at |-> u.at, next |-> u.next, pass |-> u.pass, sees |-> u.sees,
                  rows |-> u.rows, found |-> u.found, created |-> u.created]
          /\ u.at = k /\ u.next = 1 /\ u.pass = p
          /\ u.rows = t.rows /\ u.found = found /\ u.created = t.created
      BY <1>4, <1>8, <1>12 DEF UpsertKind
    <2>2. u.sees = there
      BY <1>2, <1>4, <1>8, <1>12 DEF UpsertKind
    <2>3. tx'[i] = u
      BY <1>12 DEF Page, CatalogInv, PagesStand
    <2>4. \A n \in DOMAIN Wanted(i, k) : ~(n < u.next)
      <3>1. PICK len \in Nat : DOMAIN Wanted(i, k) = 1 .. len
        BY WantedIs
      <3>2. \A n \in 1 .. len : ~(n < 1)
        OBVIOUS
      <3> QED
        BY <2>1, <3>1, <3>2
    <2>5. ASSUME k \in Kinds, NEW n \in DOMAIN Wanted(i, k), u.pass = 2
          PROVE  Wanted(i, k)[n] \in u.sees
      <3>1. k = kind
        BY <1>12, <2>1, <2>5
      <3> QED
        BY <1>10, <2>2, <2>5, <3>1
    <2>6. k = "gains" => \A n \in DOMAIN Wanted(i, "tracks") : Wanted(i, "tracks")[n] \in there
      BY <1>10, <1>12
    <2>7. u.found \cup u.sees \subseteq there
      BY <1>3, <1>8, <2>1, <2>2
    <2>8. u.next \in Nat \ {0} /\ u.pass \in {1, 2}
      BY <1>12, <2>1
    <2>9. there = DOMAIN rows' \cup DOMAIN u.rows
      BY <1>2, <1>5, <2>1
    <2>10. Collects(i)'
      BY <1>5, <1>8, <2>1, <2>3, <2>4, <2>5, <2>6, <2>7, <2>8, <2>9 DEF Collects
    <2>11. DOMAIN u.rows \subseteq HeldBy(i) \cup {}
      BY <1>9, <2>1
    <2>12. \A j \in PageWriters : j # i => {} \cap HeldBy(j) = {}
      OBVIOUS
    <2>13. u.at \in Working
      BY <1>12, <2>1
    <2> QED
      BY <1>5, <1>12, <2>10, <2>11, <2>12, <2>13, PageMoves
  <1>13. CASE all
    <2>1. PICK u : u = UpsertKind(i, e, KindAfter(kind), 1)
      OBVIOUS
    <2>2. Page(i, u)
      BY <1>1, <1>3, <1>4, <1>11, <1>13, <2>1 DEF UpsertDone
    <2>3. /\ KindAfter(kind) \in {"albums", "tracks", "gains"}
          /\ KindAfter(kind) = "gains" => kind = "tracks"
      BY DEF KindAfter, Kinds
    <2>4. KindAfter(kind) \in Working
      BY <2>3 DEF Working, Kinds
    <2> QED
      BY <1>12, <2>1, <2>2, <2>3, <2>4
  <1>14. CASE ~all
    <2>1. t.pass = 1
      BY <1>3, <1>8, <1>11, <1>14
    <2>2. AfterConflict(t.pass) = "again"
      BY <2>1 DEF AfterConflict
    <2>3. PICK u : u = UpsertKind(i, e, kind, 2)
      OBVIOUS
    <2>4. Page(i, u)
      BY <1>1, <1>3, <1>4, <1>11, <1>14, <2>2, <2>3 DEF UpsertDone
    <2>5. kind \in Working /\ kind # "gains"
      BY DEF Working, Kinds
    <2> QED
      BY <1>12, <2>3, <2>4, <2>5
  <1> QED
    BY <1>13, <1>14

LEMMA UpsertsKeep ==
  ASSUME CatalogInv, NEW i \in PageWriters,
         UpsertArtists(i) \/ UpsertAlbums(i) \/ UpsertTracks(i)
  PROVE  CatalogInv' /\ Written({})
  <1>1. PICK kind \in Kinds : UpsertRow(i, kind) \/ UpsertDone(i, kind)
    BY DEF Kinds, UpsertArtists, UpsertAlbums, UpsertTracks
  <1> QED
    BY <1>1, RowKeeps, DoneKeeps

\* The rows of the tracks that gained something, over those the page had.
LEMMA GainsKeep ==
  ASSUME CatalogInv, NEW i \in PageWriters, PageGains(i)
  PROVE  CatalogInv' /\ Written({})
  <1>1. PICK t : t = tx[i]
    OBVIOUS
  <1>2. PICK now : now = Stored(t.rows)
    OBVIOUS
  <1>3. PICK gained :
           gained = [k \in DOMAIN now |->
                       Gained(now[k], PlayOf(i, k, "tracks").album, "",
                              IF now[k].mbid THEN "" ELSE PlayOf(i, k, "tracks").hint)]
    OBVIOUS
  <1>4. t.at = "gains" /\ UNCHANGED <<rows, credits, requeued>>
    BY <1>1 DEF PageGains
  <1>5. t.at \in Working
    BY <1>4 DEF Working
  <1>6. Collects(i)
    BY <1>1, <1>5 DEF CatalogInv, PagesStand
  <1>7. PICK there : there = DOMAIN rows \cup DOMAIN t.rows
    OBVIOUS
  <1>8. /\ t = [at |-> t.at, next |-> t.next, pass |-> t.pass, sees |-> t.sees,
                rows |-> t.rows, found |-> t.found, created |-> t.created]
        /\ t.next \in Nat \ {0} /\ t.pass \in {1, 2}
        /\ \A x \in DOMAIN t.rows : IsRow(t.rows[x])
        /\ DOMAIN t.rows \subseteq DOMAIN rows \cup t.created
        /\ \A x \in DOMAIN rows : x \in DOMAIN t.rows => Keeps(rows[x], t.rows[x])
        /\ t.found \cup t.sees \subseteq there
        /\ \A n \in DOMAIN Wanted(i, "tracks") : Wanted(i, "tracks")[n] \in there
    BY <1>1, <1>4, <1>6, <1>7 DEF Collects
  <1>9. HeldBy(i) = DOMAIN t.rows
    BY <1>1, <1>5 DEF HeldBy, Working, Kinds
  <1>10. PICK ks : ks = ToSet(Wanted(i, "tracks"))
    OBVIOUS
  <1>11. ks \subseteq DOMAIN now
    <2>1. ks = {Wanted(i, "tracks")[n] : n \in DOMAIN Wanted(i, "tracks")}
      BY <1>10 DEF ToSet
    <2>2. ks \subseteq there
      BY <1>8, <2>1
    <2>3. DOMAIN now = there
      BY <1>2, <1>7, StoredIs
    <2> QED
      BY <2>2, <2>3
  <1>12. PICK changed : changed = {k \in ks : gained[k] # now[k]}
    OBVIOUS
  <1>13. changed = {k \in ks : Gained(now[k], PlayOf(i, k, "tracks").album, "",
                          IF now[k].mbid THEN "" ELSE PlayOf(i, k, "tracks").hint) # now[k]}
    BY <1>3, <1>11, <1>12
  <1>14. PICK new : new = [k \in DOMAIN t.rows \cup changed |->
                             IF k \in changed THEN gained[k] ELSE t.rows[k]]
    OBVIOUS
  <1>15. new = [k \in DOMAIN t.rows \cup changed |->
                  IF k \in changed
                  THEN Gained(now[k], PlayOf(i, k, "tracks").album, "",
                              IF now[k].mbid THEN "" ELSE PlayOf(i, k, "tracks").hint)
                  ELSE t.rows[k]]
    BY <1>3, <1>11, <1>12, <1>14
  <1>16. PICK u : u = [t EXCEPT !.at = "commit", !.rows = new]
    OBVIOUS
  <1>17. /\ Page(i, u)
         /\ \A k \in changed, j \in PageWriters \ {i} : k \notin HeldBy(j)
    BY <1>1, <1>2, <1>10, <1>13, <1>15, <1>16 DEF PageGains
  <1>18. /\ u = [at |-> u.at, next |-> u.next, pass |-> u.pass, sees |-> u.sees,
                 rows |-> u.rows, found |-> u.found, created |-> u.created]
         /\ u.at = "commit" /\ u.next = t.next /\ u.pass = t.pass /\ u.sees = t.sees
         /\ u.rows = new /\ u.found = t.found /\ u.created = t.created
    BY <1>8, <1>16
  <1>19. tx'[i] = u
    BY <1>17 DEF Page, CatalogInv, PagesStand
  <1>20. ASSUME NEW k \in DOMAIN now
         PROVE  /\ IsRow(now[k]) /\ IsRow(gained[k]) /\ Keeps(now[k], gained[k])
                /\ k \in DOMAIN rows => Keeps(rows[k], now[k])
    <2>1. IsRow(now[k]) /\ (k \in DOMAIN rows => Keeps(rows[k], now[k]))
      <3>1. CASE k \in DOMAIN t.rows
        BY <1>2, <1>8, <3>1, StoredIs
      <3>2. CASE k \notin DOMAIN t.rows
        BY <1>2, <1>20, <3>2, StoredIs, KeepsOrders DEF CatalogInv, RowsRight
      <3> QED
        BY <3>1, <3>2
    <2>2. PICK row : row = now[k]
      OBVIOUS
    <2>3. PICK a, h : gained[k] = Gained(row, a, "", h)
      BY <1>3, <1>20, <2>2
    <2>4. PICK g : g = Gained(row, a, "", h)
      OBVIOUS
    <2>5. IsRow(row)
      BY <2>1, <2>2
    <2>6. IsRow(g) /\ Keeps(row, g)
      BY <2>4, <2>5, GainedIs
    <2> QED
      BY <2>1, <2>2, <2>3, <2>4, <2>6
  <1>21. DOMAIN new = DOMAIN t.rows \cup changed /\ changed \subseteq DOMAIN now
    BY <1>11, <1>12, <1>14
  <1>22. DOMAIN now = there
    BY <1>2, <1>7, StoredIs
  <1>23. ASSUME NEW k \in DOMAIN new
         PROVE  IsRow(new[k]) /\ (k \in DOMAIN rows => Keeps(rows[k], new[k]))
    <2>1. CASE k \in changed
      <3>1. new[k] = gained[k] /\ k \in DOMAIN now
        BY <1>14, <1>21, <2>1
      <3> QED
        BY <1>20, <3>1, KeepsOrders
    <2>2. CASE k \notin changed
      <3>1. new[k] = t.rows[k] /\ k \in DOMAIN t.rows
        BY <1>14, <1>21, <2>2
      <3> QED
        BY <1>8, <3>1
    <2> QED
      BY <2>1, <2>2
  <1>24. DOMAIN new \subseteq there /\ there \subseteq DOMAIN rows \cup u.created
    BY <1>7, <1>8, <1>18, <1>21, <1>22
  <1>25. u.found \cup u.sees \subseteq DOMAIN rows \cup DOMAIN new
    BY <1>7, <1>8, <1>18, <1>21
  <1>26. Collects(i)'
    <2>1. u.at \notin Kinds /\ u.at # "gains"
      BY <1>18 DEF Kinds
    <2>2. u.next \in Nat \ {0} /\ u.pass \in {1, 2}
      BY <1>8, <1>18
    <2>3. DOMAIN u.rows \subseteq DOMAIN rows \cup u.created
      BY <1>18, <1>24
    <2> QED
      BY <1>4, <1>18, <1>19, <1>23, <1>25, <2>1, <2>2, <2>3 DEF Collects
  <1>27. DOMAIN u.rows \subseteq HeldBy(i) \cup changed
    BY <1>9, <1>18, <1>21
  <1>28. u.at \in Working
    BY <1>18 DEF Working
  <1>29. \A j \in PageWriters : j # i => changed \cap HeldBy(j) = {}
    BY <1>17
  <1> QED
    BY <1>4, <1>17, <1>26, <1>27, <1>28, <1>29, PageMoves

LEMMA PageCommitKeeps ==
  ASSUME CatalogInv, NEW i \in PageWriters, CommitPage(i)
  PROVE  CatalogInv' /\ \E K : Written(K)
  <1>1. PICK t : t = tx[i]
    OBVIOUS
  <1>2. PICK u : u = [t EXCEPT !.at = "over", !.rows = <<>>]
    OBVIOUS
  <1>3. /\ t.at = "commit" /\ rows' = Stored(t.rows)
        /\ credits' = credits \cup {<<k, k[2]>> : k \in {c \in t.created : IsTrack(c)}}
        /\ tx' = [tx EXCEPT ![i] = u]
        /\ UNCHANGED <<requeued, live, uncredited>>
    BY <1>1, <1>2 DEF CommitPage, Page
  <1>4. t.at \in Working
    BY <1>3 DEF Working
  <1>5. Collects(i)
    BY <1>1, <1>4 DEF CatalogInv, PagesStand
  <1>6. /\ t = [at |-> t.at, next |-> t.next, pass |-> t.pass, sees |-> t.sees,
                rows |-> t.rows, found |-> t.found, created |-> t.created]
        /\ \A x \in DOMAIN t.rows : IsRow(t.rows[x])
        /\ DOMAIN t.rows \subseteq DOMAIN rows \cup t.created
        /\ \A x \in DOMAIN rows : x \in DOMAIN t.rows => Keeps(rows[x], t.rows[x])
    BY <1>1, <1>5 DEF Collects
  <1>7. PICK K : K = DOMAIN t.rows
    OBVIOUS
  <1>8. HeldBy(i) = K
    BY <1>1, <1>4, <1>7 DEF HeldBy, Working, Kinds
  <1>9. /\ DOMAIN rows' = K \cup DOMAIN rows
        /\ \A k \in K : rows'[k] = t.rows[k]
        /\ \A k \in DOMAIN rows : k \notin K => rows'[k] = rows[k]
    BY <1>3, <1>7, StoredIs
  <1>10. Written(K)
    <2>1. \A k \in DOMAIN rows' : IsRow(rows'[k])
      BY <1>6, <1>7, <1>9 DEF CatalogInv, RowsRight
    <2>2. \A k \in DOMAIN rows : Keeps(rows[k], rows'[k])
      BY <1>6, <1>7, <1>9, KeepsOrders
    <2> QED
      BY <1>9, <2>1, <2>2 DEF Written
  <1>11. u.at = "over"
    BY <1>2, <1>6
  <1>12. PagesStand'
    <2>1. u.at \in {"none", "over"} \cup Working /\ u.at \notin Working
      BY <1>11 DEF Working, Kinds
    <2>2. HeldBy(i)' \subseteq {}
      <3>1. tx'[i] = u
        BY <1>3 DEF CatalogInv, PagesStand
      <3> QED
        BY <1>11, <3>1 DEF HeldBy
    <2>3. \A j \in PageWriters : j # i => K \cap HeldBy(j) = {}
      BY <1>8 DEF CatalogInv, PagesStand
    <2>4. \A j \in PageWriters : j # i => {} \cap HeldBy(j) = {}
      OBVIOUS
    <2> QED
      BY <1>3, <1>10, <2>1, <2>2, <2>3, <2>4, PageAdvances DEF CatalogInv
  <1>13. LivesStand' /\ RequeuesRight'
    BY <1>3, <1>10, LivesStay, RequeuesStay DEF CatalogInv
  <1>14. RowsRight'
    BY <1>10 DEF Written, RowsRight
  <1>15. \A x : CreatorAtWork(x) => CreatorAtWork(x)'
    BY <1>3 DEF CreatorAtWork
  <1>16. \A k \in DOMAIN rows' : k \notin DOMAIN rows /\ IsTrack(k) => <<k, k[2]>> \in credits'
    BY <1>3, <1>6, <1>7, <1>9
  <1>17. CreditsCome'
    BY <1>3, <1>15, <1>16, CreditsStay DEF CatalogInv
  <1> QED
    BY <1>10, <1>12, <1>13, <1>14, <1>17 DEF CatalogInv

LEMMA AbortKeeps ==
  ASSUME CatalogInv, NEW i \in PageWriters, AbortPage(i)
  PROVE  CatalogInv' /\ Written({})
  <1>1. /\ tx' = [tx EXCEPT ![i] = NoTx]
        /\ UNCHANGED <<rows, live, credits, requeued, uncredited>>
    BY DEF AbortPage
  <1>2. Written({})
    BY <1>1, NothingWritten DEF CatalogInv
  <1>3. NoTx.at = "none" /\ NoTx.at \notin Working
    BY DEF NoTx, Working, Kinds
  <1>4. HeldBy(i)' \subseteq {}
    <2>1. tx'[i] = NoTx
      BY <1>1 DEF CatalogInv, PagesStand
    <2> QED
      BY <1>3, <2>1 DEF HeldBy
  <1>5. \A j \in PageWriters : j # i => {} \cap HeldBy(j) = {}
    OBVIOUS
  <1>6. PICK u : u = NoTx
    OBVIOUS
  <1>7. PagesStand'
    BY <1>1, <1>2, <1>3, <1>4, <1>5, <1>6, PageAdvances DEF CatalogInv
  <1>8. LivesStand' /\ RequeuesRight' /\ RowsRight'
    BY <1>1, <1>2, LivesStay, RequeuesStay DEF CatalogInv, RowsRight
  <1>9. \A x : CreatorAtWork(x) => CreatorAtWork(x)'
    BY <1>1 DEF CreatorAtWork
  <1>10. CreditsCome'
    BY <1>1, <1>9, CreditsStay DEF CatalogInv
  <1> QED
    BY <1>2, <1>7, <1>8, <1>10 DEF CatalogInv

-----------------------------------------------------------------------------
(* The theorems.                                                            *)

LEMMA CatalogStarts == CatalogInit => CatalogInv
  <1> SUFFICES ASSUME CatalogInit PROVE CatalogInv
    OBVIOUS
  <1>1. DOMAIN rows = {} /\ DOMAIN requeued = {}
    BY DEF CatalogInit
  <1>2. \A i \in PageWriters : tx[i] = NoTx
    BY DEF CatalogInit
  <1>3. NoTx.at = "none" /\ NoTx.at \notin Working
    BY DEF NoTx, Working, Kinds
  <1>4. PagesStand
    BY <1>2, <1>3 DEF PagesStand, CatalogInit, HeldBy
  <1>5. \A w \in LiveWriters : live[w].at = "idle"
    BY DEF CatalogInit
  <1>6. LivesStand
    BY <1>5 DEF LivesStand, CatalogInit, AtWork, Lookups, Inserts
  <1> QED
    BY <1>1, <1>4, <1>6 DEF CatalogInv, RowsRight, RequeuesRight, CreditsCome

LEMMA CatalogAdvances ==
  ASSUME CatalogInv, CatalogNext
  PROVE  CatalogInv' /\ \E K : Written(K)
  <1>1. ASSUME NEW w \in LiveWriters,
               \/ Resolve(w) \/ Lookup(w)
               \/ FindOrCreateArtist(w) \/ FindOrCreateAlbum(w) \/ FindOrCreateTrack(w)
               \/ FeaturedArtist(w) \/ Gain(w) \/ RecordMbidHint(w) \/ RecordTrackCredits(w)
               \/ LiveCrash(w)
        PROVE  CatalogInv' /\ \E K : Written(K)
    <2>1. CASE Resolve(w) \/ Lookup(w)
      BY <2>1, ResolveKeeps, LookupKeeps
    <2>2. CASE FindOrCreateArtist(w)
      <3>1. "artist" \in Lookups
        BY DEF Lookups
      <3> QED
        BY <2>2, <3>1, InsertKeeps, NewRowsAre DEF FindOrCreateArtist
    <2>3. CASE FindOrCreateAlbum(w)
      <3>1. "album" \in Lookups
        BY DEF Lookups
      <3> QED
        BY <2>3, <3>1, InsertKeeps, NewRowsAre DEF FindOrCreateAlbum
    <2>4. CASE FindOrCreateTrack(w)
      <3>1. "track" \in Lookups
        BY DEF Lookups
      <3> QED
        BY <2>4, <3>1, InsertKeeps, NewRowsAre DEF FindOrCreateTrack
    <2>5. CASE FeaturedArtist(w)
      <3>1. "featured" \in Lookups
        BY DEF Lookups
      <3> QED
        BY <2>5, <3>1, InsertKeeps, NewRowsAre DEF FeaturedArtist
    <2>6. CASE Gain(w)
      BY <2>6, GainKeeps
    <2>7. CASE RecordMbidHint(w)
      BY <2>7, HintKeeps
    <2>8. CASE RecordTrackCredits(w)
      BY <2>8, CreditKeeps
    <2>9. CASE LiveCrash(w)
      BY <2>9, CrashKeeps
    <2> QED
      BY <1>1, <2>1, <2>2, <2>3, <2>4, <2>5, <2>6, <2>7, <2>8, <2>9
  <1>2. ASSUME NEW k \in DOMAIN rows, MatchTrack(k)
        PROVE  CatalogInv' /\ \E K : Written(K)
    BY <1>2, MatchKeeps
  <1>3. ASSUME NEW i \in PageWriters,
               \/ BeginPage(i)
               \/ UpsertArtists(i) \/ UpsertAlbums(i) \/ UpsertTracks(i)
               \/ PageGains(i) \/ CommitPage(i) \/ AbortPage(i)
        PROVE  CatalogInv' /\ \E K : Written(K)
    <2>1. CASE BeginPage(i)
      BY <2>1, BeginKeeps
    <2>2. CASE UpsertArtists(i) \/ UpsertAlbums(i) \/ UpsertTracks(i)
      BY <2>2, UpsertsKeep
    <2>3. CASE PageGains(i)
      BY <2>3, GainsKeep
    <2>4. CASE CommitPage(i)
      BY <2>4, PageCommitKeeps
    <2>5. CASE AbortPage(i)
      BY <2>5, AbortKeeps
    <2> QED
      BY <1>3, <2>1, <2>2, <2>3, <2>4, <2>5
  <1> QED
    BY <1>1, <1>2, <1>3 DEF CatalogNext

LEMMA CatalogStands ==
  ASSUME CatalogInv, UNCHANGED catalogVars
  PROVE  CatalogInv'
  <1>1. UNCHANGED <<rows, tx, live, credits, requeued, uncredited>>
    BY DEF catalogVars
  <1>2. Written({})
    BY <1>1, NothingWritten DEF CatalogInv
  <1>3. PagesStand' /\ LivesStand' /\ RequeuesRight' /\ RowsRight'
    BY <1>1, <1>2, PagesStay, LivesStay, RequeuesStay DEF CatalogInv, RowsRight
  <1>4. \A x : CreatorAtWork(x) => CreatorAtWork(x)'
    BY <1>1 DEF CreatorAtWork
  <1>5. CreditsCome'
    BY <1>1, <1>4, CreditsStay DEF CatalogInv
  <1> QED
    BY <1>3, <1>5 DEF CatalogInv

LEMMA CatalogKeeps == CatalogSpec => []CatalogInv
  BY CatalogStarts, CatalogAdvances, CatalogStands, PTL DEF CatalogSpec

LEMMA NamesFollow == CatalogInv => NamesHold
  <1> SUFFICES ASSUME CatalogInv PROVE NamesHold
    OBVIOUS
  <1>1. TwoPassesSuffice
    <2>1. \A w \in LiveWriters : live[w].at # "not found"
      BY DEF CatalogInv, LivesStand, AtWork, Lookups, Inserts
    <2>2. \A i \in PageWriters : tx[i].at # "not found"
      BY DEF CatalogInv, PagesStand, Working, Kinds
    <2> QED
      BY <2>1, <2>2 DEF TwoPassesSuffice
  <1>2. RequeuedOnce
    <2>1. ASSUME NEW k \in DOMAIN requeued
          PROVE  requeued[k] <= 1
      <3>1. requeued[k] = 1
        BY DEF CatalogInv, RequeuesRight
      <3> QED
        BY <3>1
    <2> QED
      BY <2>1 DEF RequeuedOnce
  <1>3. TracksCredited
    <2>1. ASSUME NEW k \in DOMAIN rows, IsTrack(k), CreatorAtWork(k)
          PROVE  \E w \in LiveWriters : /\ live[w].at \notin {"idle", "done"}
                                        /\ TrackKey(live[w].s.artist, live[w].s.track) = k
      <3>1. PICK w \in LiveWriters :
              live[w].at \in AtWork /\ TrackKey(live[w].s.artist, live[w].s.track) = k
        BY <2>1 DEF CreatorAtWork
      <3>2. live[w].at \notin {"idle", "done"}
        BY <3>1 DEF AtWork, Lookups, Inserts
      <3> QED
        BY <3>1, <3>2
    <2> QED
      BY <2>1 DEF TracksCredited, CatalogInv, CreditsCome
  <1> QED
    BY <1>1, <1>2, <1>3 DEF NamesHold

LEMMA FirstFollows ==
  ASSUME NEW K, Written(K)
  PROVE  FirstStands
  BY DEF Written, Keeps, FirstStands

LEMMA NamesResolve == CatalogSpec => []NamesHold
  BY CatalogKeeps, NamesFollow, PTL

LEMMA FirstsStand == CatalogSpec => [][FirstStands]_catalogVars
  <1>1. CatalogInv /\ [CatalogNext]_catalogVars => [FirstStands]_catalogVars
    BY CatalogAdvances, FirstFollows
  <1> QED
    BY <1>1, CatalogKeeps, PTL DEF CatalogSpec

(***************************************************************************)
(* Attribution.                                                            *)
(***************************************************************************)
\* Names: nobody gives up on a name another creates, a track is queued again
\* for a hint at most once, and it is credited to its artist unless its writer
\* died (tracks.rs, imports.rs).  Albums: with nothing queued a track is on the
\* album its accounts' votes choose (albums.rs).  Factors: what rankings read
\* is of one run (db coordination.rs).
THEOREM AttributionIsRight ==
  CatalogSpec /\ AlbumSpec /\ CoordinationSpec => []AttributionHolds
  BY NamesResolve, AlbumsFollowVotes, FactorsStayOfOneRun, PTL DEF AttributionHolds

\* No step changes the factor album votes weigh by without queueing the
\* account's tracks (coordination.rs, store), and none overwrites what is known
\* of a track, whichever of two writers comes second (tracks.rs, imports.rs).
THEOREM StepsAreRight == CatalogSpec /\ CoordinationSpec => StepsHold
  BY FirstsStand, FactorStepsAreTold, PTL DEF StepsHold
=============================================================================
