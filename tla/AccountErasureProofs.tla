------------------------ MODULE AccountErasureProofs ------------------------
(***************************************************************************)
(* What an erase promises, for any number of days, rankings and erasers,   *)
(* and any number of faults.                                               *)
(***************************************************************************)
EXTENDS AccountErasure, TLAPS


Rows == [pc : Stages, marks : SUBSET Periods, weighed : BOOLEAN]

(* Eraser e is now where `row` says, the others are where they were.       *)
Becomes(e, row) ==
    /\ er' \in [Erasers -> Rows]
    /\ er'[e] = row
    /\ \A f \in Erasers : f # e => er'[f] = er[f]

Row(pc, marks, weighed) == [pc |-> pc, marks |-> marks, weighed |-> weighed]

-----------------------------------------------------------------------------
(* What the actions do to an eraser's row, field by field.                 *)
LEMMA RowFields ==
    ASSUME NEW x \in Rows
    PROVE  /\ \A s \in Stages : [x EXCEPT !.pc = s] = Row(s, x.marks, x.weighed)
           /\ \A m \in SUBSET Periods : [x EXCEPT !.marks = m] = Row(x.pc, m, x.weighed)
           /\ \A b \in BOOLEAN : [x EXCEPT !.weighed = b] = Row(x.pc, x.marks, b)
  <1>1. \A s \in Stages : [x EXCEPT !.pc = s] = Row(s, x.marks, x.weighed)
    BY DEF Rows, Row
  <1>2. \A m \in SUBSET Periods : [x EXCEPT !.marks = m] = Row(x.pc, m, x.weighed)
    BY DEF Rows, Row
  <1>3. \A b \in BOOLEAN : [x EXCEPT !.weighed = b] = Row(x.pc, x.marks, b)
    BY DEF Rows, Row
  <1> QED
    BY <1>1, <1>2, <1>3

LEMMA NextStage ==
    ASSUME TypeOK, NEW e \in Erasers, NEW s \in Stages, er' = [er EXCEPT ![e].pc = s]
    PROVE  Becomes(e, Row(s, er[e].marks, er[e].weighed))
  <1>1. er[e] \in Rows /\ er \in [Erasers -> Rows]
    BY DEF TypeOK, Rows
  <1>2. [er[e] EXCEPT !.pc = s] = Row(s, er[e].marks, er[e].weighed)
    BY <1>1 DEF Rows, Row
  <1>3. Row(s, er[e].marks, er[e].weighed) \in Rows
    BY <1>1 DEF Rows, Row
  <1>4. er' = [er EXCEPT ![e] = Row(s, er[e].marks, er[e].weighed)]
    BY <1>2
  <1> QED
    BY <1>1, <1>3, <1>4 DEF Becomes

LEMMA Rested ==
    ASSUME TypeOK, NEW e \in Erasers, er' = [er EXCEPT ![e] = AtRest]
    PROVE  Becomes(e, Row("idle", {}, FALSE))
  BY DEF TypeOK, AtRest, Becomes, Row, Rows, Stages

LEMMA NextMarks ==
    ASSUME TypeOK, NEW e \in Erasers, NEW m \in SUBSET Periods, er' = [er EXCEPT ![e].marks = m]
    PROVE  Becomes(e, Row(er[e].pc, m, er[e].weighed))
  <1>1. er[e] \in Rows /\ er \in [Erasers -> Rows]
    BY DEF TypeOK, Rows
  <1>2. [er[e] EXCEPT !.marks = m] = Row(er[e].pc, m, er[e].weighed)
    BY <1>1 DEF Rows, Row
  <1>3. Row(er[e].pc, m, er[e].weighed) \in Rows
    BY <1>1 DEF Rows, Row
  <1>4. er' = [er EXCEPT ![e] = Row(er[e].pc, m, er[e].weighed)]
    BY <1>2
  <1> QED
    BY <1>1, <1>3, <1>4 DEF Becomes

LEMMA NextStageMarks ==
    ASSUME TypeOK, NEW e \in Erasers, NEW s \in Stages, NEW m \in SUBSET Periods,
           er' = [er EXCEPT ![e].pc = s, ![e].marks = m]
    PROVE  Becomes(e, Row(s, m, er[e].weighed))
  <1> DEFINE r == [er EXCEPT ![e].pc = s]
  <1>1. er[e] \in Rows /\ er \in [Erasers -> Rows]
    BY DEF TypeOK, Rows
  <1>2. [er[e] EXCEPT !.pc = s] = Row(s, er[e].marks, er[e].weighed)
    BY <1>1 DEF Rows, Row
  <1>3. r = [er EXCEPT ![e] = Row(s, er[e].marks, er[e].weighed)]
    BY <1>2
  <1>4. r[e] = Row(s, er[e].marks, er[e].weighed) /\ r \in [Erasers -> Rows]
    BY <1>1, <1>3 DEF Rows, Row
  <1>5. [r[e] EXCEPT !.marks = m] = Row(s, m, er[e].weighed)
    <2> HIDE DEF r
    <2>1. PICK x \in Rows : x = r[e]
      BY <1>4
    <2>2. [x EXCEPT !.marks = m] = Row(x.pc, m, x.weighed)
      BY RowFields
    <2>3. x.pc = s /\ x.weighed = er[e].weighed
      BY <2>1, <1>4 DEF Row
    <2> QED
      BY <2>1, <2>2, <2>3
  <1>6. er' = [r EXCEPT ![e].marks = m]
    OBVIOUS
  <1>7. er' = [r EXCEPT ![e] = Row(s, m, er[e].weighed)]
    BY <1>5, <1>6
  <1>8. Row(s, m, er[e].weighed) \in Rows
    BY <1>1 DEF Rows, Row
  <1> HIDE DEF r
  <1>9. \A f \in Erasers : f # e => r[f] = er[f]
    BY <1>1, <1>3
  <1> QED
    BY <1>4, <1>7, <1>8, <1>9 DEF Becomes

LEMMA Marks ==
    ASSUME TypeOK, NEW e \in Erasers, Mark(e)
    PROVE  \/ Weighed # {} /\ Becomes(e, Row("marking", Periods, er[e].weighed))
           \/ Weighed = {} /\ Becomes(e, Row("labels", er[e].marks, er[e].weighed))
  <1>1. "marking" \in Stages /\ "labels" \in Stages /\ Periods \in SUBSET Periods
    BY DEF Stages
  <1> QED
    BY <1>1, NextStage, NextStageMarks DEF Mark

LEMMA MarksRow ==
    ASSUME TypeOK, NEW e \in Erasers, NEW p \in Periods, MarkRow(e, p)
    PROVE  Becomes(e, Row(er[e].pc, er[e].marks \ {p}, er[e].weighed))
  <1>1. er[e].marks \ {p} \in SUBSET Periods
    BY DEF TypeOK
  <1>2. er' = [er EXCEPT ![e].marks = er[e].marks \ {p}]
    BY DEF MarkRow
  <1> QED
    BY <1>1, <1>2, NextMarks

LEMMA DeletesLabels ==
    ASSUME TypeOK, NEW e \in Erasers, DeleteLabels(e)
    PROVE  \/ er' = er
           \/ labels = {} /\ Becomes(e, Row("weights", er[e].marks, er[e].weighed))
  BY NextStage DEF DeleteLabels, Stages

LEMMA DeletesWeights ==
    ASSUME TypeOK, NEW e \in Erasers, DeleteWeights(e)
    PROVE  \/ Weighed = {} /\ Becomes(e, Row("row", er[e].marks, er[e].weighed))
           \/ Weighed # {} /\ Becomes(e, Row("weights", er[e].marks, TRUE))
  <1>1. er[e] \in Rows /\ er \in [Erasers -> Rows] /\ er[e].pc = "weights" /\ "row" \in Stages
    BY DEF TypeOK, Rows, DeleteWeights, Stages
  <1>2. [er[e] EXCEPT !.weighed = TRUE] = Row("weights", er[e].marks, TRUE)
    BY <1>1, RowFields
  <1>3. Row("weights", er[e].marks, TRUE) \in Rows
    BY <1>1 DEF Rows, Row
  <1>4. ASSUME er' = [er EXCEPT ![e].weighed = TRUE]
        PROVE  Becomes(e, Row("weights", er[e].marks, TRUE))
    <2>1. er' = [er EXCEPT ![e] = Row("weights", er[e].marks, TRUE)]
      BY <1>2, <1>4
    <2> QED
      BY <1>1, <1>3, <2>1 DEF Becomes
  <1> QED
    BY <1>1, <1>4, NextStage DEF DeleteWeights

LEMMA DeletesNone ==
    ASSUME TypeOK, NEW e \in Erasers, DeleteNone(e)
    PROVE  \/ er[e].pc = "labels" /\ Becomes(e, Row("weights", er[e].marks, er[e].weighed))
           \/ er[e].pc = "weights" /\ Becomes(e, Row("row", er[e].marks, er[e].weighed))
  BY NextStage DEF DeleteNone, Stages

LEMMA DeletesRow ==
    ASSUME TypeOK, NEW e \in Erasers, DeleteRow(e)
    PROVE  Becomes(e, Row("gone", IF er[e].weighed THEN Periods ELSE {}, er[e].weighed))
  <1> DEFINE m == IF er[e].weighed THEN Periods ELSE {}
  <1>1. "gone" \in Stages /\ m \in SUBSET Periods
    BY DEF Stages
  <1>2. er' = [er EXCEPT ![e].pc = "gone", ![e].marks = m]
    BY DEF DeleteRow
  <1> HIDE DEF m
  <1>3. Becomes(e, Row("gone", m, er[e].weighed))
    BY <1>1, <1>2, NextStageMarks
  <1> QED
    BY <1>3 DEF m

LEMMA CommitsSnapshots ==
    ASSUME TypeOK, NEW p \in Periods, CommitSnapshots(p)
    PROVE  /\ er' \in [Erasers -> Rows]
           /\ \A e \in Erasers : er'[e] = Row(er[e].pc, er[e].marks \ {p}, er[e].weighed)
  <1> SUFFICES ASSUME NEW e \in Erasers
               PROVE  /\ er'[e] = Row(er[e].pc, er[e].marks \ {p}, er[e].weighed)
                      /\ er'[e] \in Rows
    BY DEF CommitSnapshots
  <1>1. er[e] \in Rows
    BY DEF TypeOK, Rows
  <1>2. er'[e] = [er[e] EXCEPT !.marks = er[e].marks \ {p}]
    BY DEF CommitSnapshots
  <1>3. er'[e] = Row(er[e].pc, er[e].marks \ {p}, er[e].weighed)
    BY <1>1, <1>2 DEF Rows, Row
  <1> QED
    BY <1>1, <1>3 DEF Rows, Row

Snapshots == [counted : BOOLEAN, invalidated : BOOLEAN, passed : BOOLEAN]
Refreshes == [pc : {"idle", "ranking"}, left : SUBSET Kinds, counted : BOOLEAN]

(* The mark of one snapshot, and the ranking of one kind.                  *)
LEMMA SnapshotMarked ==
    ASSUME TypeOK, NEW p \in Periods, snapshot' = [snapshot EXCEPT ![p].invalidated = TRUE]
    PROVE  /\ snapshot' \in [Periods -> Snapshots]
           /\ snapshot'[p].invalidated /\ (snapshot'[p].counted <=> snapshot[p].counted)
           /\ \A q \in Periods : q # p => snapshot'[q] = snapshot[q]
  <1> DEFINE r(b) == [counted |-> snapshot[p].counted, invalidated |-> b, passed |-> snapshot[p].passed]
  <1>1. snapshot[p] \in Snapshots /\ snapshot \in [Periods -> Snapshots]
    BY DEF TypeOK, Snapshots
  <1>2. \A b \in BOOLEAN : [snapshot[p] EXCEPT !.invalidated = b] = r(b)
    BY <1>1 DEF Snapshots
  <1>3. snapshot' = [snapshot EXCEPT ![p] = r(TRUE)]
    BY <1>2
  <1>4. r(TRUE) \in Snapshots /\ r(TRUE).invalidated /\ (r(TRUE).counted <=> snapshot[p].counted)
    BY <1>1 DEF Snapshots
  <1> HIDE DEF r
  <1> QED
    BY <1>1, <1>3, <1>4

LEMMA Ranked ==
    ASSUME TypeOK, NEW p \in Periods, NEW k \in Kinds, Rank(p, k)
    PROVE  /\ refresh' \in [Periods -> Refreshes]
           /\ refresh'[p].pc = "ranking"
           /\ refresh'[p].counted => refresh[p].counted \/ Counts(p)
           /\ \A q \in Periods : q # p => refresh'[q] = refresh[q]
  <1> DEFINE c == refresh[p].counted \/ Counts(p)
             r == [pc |-> "ranking", left |-> refresh[p].left \ {k}, counted |-> c]
  <1>1. refresh[p].left \ {k} \in SUBSET Kinds /\ c \in BOOLEAN
    BY DEF TypeOK
  <1>2. refresh' = [refresh EXCEPT ![p] = r]
    BY DEF Rank
  <1> HIDE DEF c
  <1>3. r \in Refreshes /\ refresh \in [Periods -> Refreshes]
    BY <1>1 DEF Refreshes, TypeOK
  <1>4. r.pc = "ranking" /\ (r.counted <=> c)
    OBVIOUS
  <1> HIDE DEF r
  <1> QED
    BY <1>2, <1>3, <1>4 DEF c

-----------------------------------------------------------------------------
(* Types.                                                                  *)
OthersTyped ==
    /\ account \in {"here", "scheduled", "erasing", "gone"} /\ lease \in BOOLEAN
    /\ history \subseteq Days /\ activity \subseteq Days /\ labels \subseteq Days
    /\ weights \in [Days -> {"none", "empty", "plays"}]
    /\ policy \in [pc : {"idle", "writing"}, read : SUBSET Days]
    /\ weigher \in [pc : {"idle", "weighing"}, day : Days \cup {0}, plays : BOOLEAN]
    /\ weigher.pc = "weighing" => weigher.day \in Days
    /\ overtaken \in BOOLEAN /\ faults \in 0..MaxFaults

RowsTyped ==
    /\ er \in [Erasers -> Rows]
    /\ \A e \in Erasers : er[e].pc \notin {"marking", "gone"} => er[e].marks = {}

LEMMA TypeParts ==
    /\ TypeOK <=> /\ OthersTyped /\ RowsTyped
                  /\ snapshot \in [Periods -> Snapshots] /\ refresh \in [Periods -> Refreshes]
  BY DEF TypeOK, OthersTyped, RowsTyped, Rows, Snapshots, Refreshes

LEMMA TypeInit == ASSUME Init PROVE TypeOK
  <1> SUFFICES ASSUME Init PROVE TypeOK
    OBVIOUS
  <1>1. OthersTyped
    <2>1. /\ account = "here" /\ lease = FALSE /\ history = Days /\ activity = Days /\ labels = Days
          /\ weights \in [Days -> {"none", "plays"}]
          /\ policy = NoPolicy /\ weigher = NoWeighing /\ overtaken = FALSE /\ faults = 0
      BY Zenon DEF Init
    <2>2. NoPolicy \in [pc : {"idle", "writing"}, read : SUBSET Days]
      BY DEF NoPolicy
    <2>3. NoWeighing \in [pc : {"idle", "weighing"}, day : Days \cup {0}, plays : BOOLEAN]
          /\ NoWeighing.pc # "weighing"
      BY DEF NoWeighing
    <2>4. faults \in 0..MaxFaults
      BY <2>1, ErasureAssumption
    <2>5. weights \in [Days -> {"none", "empty", "plays"}]
      BY <2>1
    <2>6. policy.pc = "idle" /\ overtaken \in BOOLEAN /\ lease \in BOOLEAN
      BY <2>1 DEF NoPolicy
    <2> QED
      BY <2>1, <2>2, <2>3, <2>4, <2>5, <2>6, Zenon DEF OthersTyped
  <1>2. RowsTyped
    BY DEF Init, RowsTyped, AtRest, Rows, Stages
  <1>3. snapshot \in [Periods -> Snapshots]
    <2>1. \A p \in Periods : Counts(p) \in BOOLEAN
      BY DEF Counts
    <2>2. \A c \in BOOLEAN : [counted |-> c, invalidated |-> FALSE, passed |-> FALSE] \in Snapshots
      BY DEF Snapshots
    <2> DEFINE r(p) == [counted |-> Counts(p), invalidated |-> FALSE, passed |-> FALSE]
    <2>3. \A p \in Periods : r(p) \in Snapshots
      BY <2>1, <2>2, Zenon
    <2>4. snapshot = [p \in Periods |-> r(p)]
      BY DEF Init
    <2> HIDE DEF r
    <2> QED
      BY <2>3, <2>4
  <1>4. refresh \in [Periods -> Refreshes]
    BY DEF Init, Refreshes, NoRefresh
  <1> QED
    BY <1>1, <1>2, <1>3, <1>4, TypeParts

LEMMA OthersTypedStep == ASSUME TypeOK, [Next]_vars PROVE OthersTyped'
  <1> USE ErasureAssumption DEF OthersTyped
  <1>0. OthersTyped
    BY TypeParts
  <1>1. ASSUME Schedule \/ Restore \/ LeaseExpires PROVE OthersTyped'
    BY <1>0, <1>1 DEF Schedule, Restore, LeaseExpires
  <1>2. ASSUME NEW e \in Erasers, ClaimDue(e) \/ MarkErasing(e) PROVE OthersTyped'
    BY <1>0, <1>2 DEF ClaimDue, MarkErasing, Begin
  <1>3. ASSUME NEW e \in Erasers, LockAggregates(e) \/ EraseChunk(e) \/ CleanAggregates(e)
                                  \/ Mark(e) \/ Marked(e) \/ DeleteLabels(e) \/ DeleteNone(e)
                                  \/ DeleteRow(e)
        PROVE  OthersTyped'
    BY <1>0, <1>3 DEF LockAggregates, EraseChunk, CleanAggregates, Mark, Marked, DeleteLabels, Batches,
                DeleteNone, DeleteRow
  <1>4. ASSUME NEW e \in Erasers, DeleteWeights(e) PROVE OthersTyped'
    BY <1>0, <1>4 DEF DeleteWeights
  <1>5. ASSUME NEW e \in Erasers, NEW p \in Periods, MarkRow(e, p) PROVE OthersTyped'
    BY <1>0, <1>5 DEF MarkRow
  <1>6. ASSUME NEW e \in Erasers, CommitErase(e) \/ EraseFails(e) PROVE OthersTyped'
    <2>1. CASE CommitErase(e)
      BY <1>0, <2>1 DEF CommitErase
    <2>2. CASE EraseFails(e)
      BY <1>0, <2>2 DEF EraseFails, Fault
    <2> QED
      BY <1>6, <2>1, <2>2
  <1>7. ASSUME NEW p \in Periods,
               DeleteSnapshots(p) \/ CommitSnapshots(p) \/ RefreshFails(p) \/ \E k \in Kinds : Rank(p, k)
        PROVE  OthersTyped'
    BY <1>0, <1>7 DEF DeleteSnapshots, CommitSnapshots, RefreshFails, Rank, Fault
  <1>8. ASSUME PolicyReads \/ PolicyWrites PROVE OthersTyped'
    BY <1>0, <1>8 DEF PolicyReads, PolicyWrites, NoPolicy
  <1>9. ASSUME NEW d \in Days, WeighUnlabelled(d) \/ ReadPlays(d) PROVE OthersTyped'
    <2>1. CASE WeighUnlabelled(d)
      BY <1>0, <2>1 DEF WeighUnlabelled
    <2>2. CASE ReadPlays(d)
      <3> DEFINE b == d \in history
      <3>1. weigher' = [pc |-> "weighing", day |-> d, plays |-> b] /\ b \in BOOLEAN
        BY <2>2 DEF ReadPlays
      <3> HIDE DEF b
      <3>2. weigher' \in [pc : {"idle", "weighing"}, day : Days \cup {0}, plays : BOOLEAN]
            /\ weigher'.day \in Days
        BY <3>1
      <3> QED
        BY <1>0, <2>2, <3>2 DEF ReadPlays
    <2> QED
      BY <1>9, <2>1, <2>2
  <1>10. ASSUME WriteWeights \/ WeighingRejected PROVE OthersTyped'
    <2>1. weigher' \in [pc : {"idle", "weighing"}, day : Days \cup {0}, plays : BOOLEAN]
          /\ weigher'.pc # "weighing"
      <3>1. weigher' = NoWeighing
        BY <1>10, Zenon DEF WriteWeights, WeighingRejected
      <3> QED
        BY <3>1 DEF NoWeighing
    <2>2. CASE WriteWeights
      <3>1. overtaken' \in BOOLEAN
        BY <1>0, <2>2 DEF WriteWeights
      <3>2. weights' \in [Days -> {"none", "empty", "plays"}]
        BY <1>0, <2>2 DEF WriteWeights
      <3>3. UNCHANGED <<account, lease, history, activity, labels, policy, faults>>
        BY <2>2 DEF WriteWeights
      <3> QED
        BY <1>0, <2>1, <3>1, <3>2, <3>3
    <2>3. CASE WeighingRejected
      BY <1>0, <2>1, <2>3 DEF WeighingRejected
    <2> QED
      BY <1>10, <2>2, <2>3
  <1>11. ASSUME UNCHANGED vars PROVE OthersTyped'
    BY <1>0, <1>11 DEF vars
  <1> HIDE DEF OthersTyped
  <1> QED
    BY <1>1, <1>2, <1>3, <1>4, <1>5, <1>6, <1>7, <1>8, <1>9, <1>10, <1>11
    DEF Next, Erase, Refresh, Weigh

LEMMA BecomesTyped ==
    ASSUME TypeOK, NEW e \in Erasers, NEW s \in Stages, NEW m, NEW w, Becomes(e, Row(s, m, w)),
           s \in {"marking", "gone"} \/ m = {}
    PROVE  RowsTyped'
  BY TypeParts DEF Becomes, RowsTyped, Row

LEMMA RowsTypedStep == ASSUME TypeOK, [Next]_vars PROVE RowsTyped'
  <1>0. RowsTyped /\ \A e \in Erasers : er[e] \in Rows
    BY TypeParts DEF RowsTyped
  <1>1. ASSUME UNCHANGED er PROVE RowsTyped'
    BY <1>0, <1>1 DEF RowsTyped
  <1>2. ASSUME NEW e \in Erasers, ClaimDue(e) \/ MarkErasing(e) PROVE RowsTyped'
    <2>1. er[e].pc = "idle" /\ er' = [er EXCEPT ![e].pc = "lock"] /\ "lock" \in Stages
      BY <1>2 DEF ClaimDue, MarkErasing, Begin, Stages
    <2> QED
      BY <1>0, <2>1, NextStage, BecomesTyped DEF RowsTyped
  <1>3. ASSUME NEW e \in Erasers, LockAggregates(e) PROVE RowsTyped'
    <2>1. er[e].pc = "lock" /\ er' = [er EXCEPT ![e].pc = "chunks"] /\ "chunks" \in Stages
      BY <1>3 DEF LockAggregates, Stages
    <2> QED
      BY <1>0, <2>1, NextStage, BecomesTyped DEF RowsTyped
  <1>4. ASSUME NEW e \in Erasers, CleanAggregates(e) PROVE RowsTyped'
    <2>1. er[e].pc = "chunks" /\ er' = [er EXCEPT ![e].pc = "mark"] /\ "mark" \in Stages
      BY <1>4 DEF CleanAggregates, Stages
    <2> QED
      BY <1>0, <2>1, NextStage, BecomesTyped DEF RowsTyped
  <1>5. ASSUME NEW e \in Erasers, Mark(e) PROVE RowsTyped'
    <2>1. er[e].marks = {} /\ "marking" \in Stages /\ "labels" \in Stages
      BY <1>0, <1>5 DEF Mark, RowsTyped, Stages
    <2> QED
      BY <1>5, <2>1, Marks, BecomesTyped
  <1>6. ASSUME NEW e \in Erasers, NEW p \in Periods, MarkRow(e, p) PROVE RowsTyped'
    <2>1. er[e].pc \in {"marking", "gone"} /\ er[e].pc \in Stages
      BY <1>6 DEF MarkRow, Marking, Stages
    <2> QED
      BY <1>6, <2>1, MarksRow, BecomesTyped
  <1>7. ASSUME NEW e \in Erasers, Marked(e) PROVE RowsTyped'
    <2>1. er[e].marks = {} /\ er' = [er EXCEPT ![e].pc = "labels"] /\ "labels" \in Stages
      BY <1>7 DEF Marked, Stages
    <2> QED
      BY <2>1, NextStage, BecomesTyped
  <1>8. ASSUME NEW e \in Erasers, DeleteLabels(e) PROVE RowsTyped'
    <2>1. er[e].marks = {} /\ "weights" \in Stages
      BY <1>0, <1>8 DEF DeleteLabels, RowsTyped, Stages
    <2> QED
      BY <1>1, <1>8, <2>1, DeletesLabels, BecomesTyped
  <1>9. ASSUME NEW e \in Erasers, DeleteWeights(e) PROVE RowsTyped'
    <2>1. er[e].marks = {} /\ "weights" \in Stages /\ "row" \in Stages
      BY <1>0, <1>9 DEF DeleteWeights, RowsTyped, Stages
    <2> QED
      BY <1>9, <2>1, DeletesWeights, BecomesTyped
  <1>22. ASSUME NEW e \in Erasers, DeleteNone(e) PROVE RowsTyped'
    <2>1. er[e].marks = {} /\ "weights" \in Stages /\ "row" \in Stages
      BY <1>0, <1>22 DEF DeleteNone, RowsTyped, Stages
    <2> QED
      BY <1>22, <2>1, DeletesNone, BecomesTyped
  <1>10. ASSUME NEW e \in Erasers, DeleteRow(e) PROVE RowsTyped'
    BY <1>10, DeletesRow, BecomesTyped DEF Stages
  <1>11. ASSUME NEW e \in Erasers, CommitErase(e) \/ EraseFails(e) PROVE RowsTyped'
    <2>1. er' = [er EXCEPT ![e] = AtRest] /\ "idle" \in Stages
      BY <1>11 DEF CommitErase, EraseFails, Stages
    <2> QED
      BY <2>1, Rested, BecomesTyped
  <1>12. ASSUME NEW p \in Periods, CommitSnapshots(p) PROVE RowsTyped'
    <2>1. /\ er' \in [Erasers -> Rows]
          /\ \A e \in Erasers : er'[e] = Row(er[e].pc, er[e].marks \ {p}, er[e].weighed)
      BY <1>12, CommitsSnapshots
    <2>2. \A e \in Erasers : er'[e].pc = er[e].pc /\ er'[e].marks = er[e].marks \ {p}
      BY <2>1 DEF Row
    <2> QED
      BY <1>0, <2>1, <2>2 DEF RowsTyped
  <1>13. ASSUME Schedule \/ Restore \/ LeaseExpires \/ PolicyReads \/ PolicyWrites
                \/ WriteWeights \/ WeighingRejected \/ UNCHANGED vars
         PROVE  UNCHANGED er
    BY <1>13 DEF Schedule, Restore, LeaseExpires, PolicyReads, PolicyWrites, WriteWeights,
                 WeighingRejected, vars
  <1>14. ASSUME NEW e \in Erasers, EraseChunk(e) PROVE UNCHANGED er
    BY <1>14 DEF EraseChunk
  <1>15. ASSUME NEW p \in Periods,
                DeleteSnapshots(p) \/ RefreshFails(p) \/ \E k \in Kinds : Rank(p, k)
         PROVE  UNCHANGED er
    BY <1>15 DEF DeleteSnapshots, RefreshFails, Rank
  <1>16. ASSUME NEW d \in Days, WeighUnlabelled(d) \/ ReadPlays(d) PROVE UNCHANGED er
    BY <1>16 DEF WeighUnlabelled, ReadPlays
  <1>17. ASSUME NEW e \in Erasers, Erase(e) PROVE RowsTyped'
    BY <1>1, <1>3, <1>4, <1>5, <1>6, <1>7, <1>8, <1>9, <1>22, <1>10, <1>11, <1>14,
       <1>17 DEF Erase
  <1>18. ASSUME NEW e \in Erasers, EraseFails(e) PROVE RowsTyped'
    BY <1>11, <1>18
  <1>19. ASSUME NEW p \in Periods, Refresh(p) \/ RefreshFails(p) PROVE RowsTyped'
    BY <1>1, <1>12, <1>15, <1>19 DEF Refresh
  <1>20. ASSUME NEW d \in Days, WeighUnlabelled(d) \/ ReadPlays(d) PROVE RowsTyped'
    BY <1>1, <1>16, <1>20
  <1>21. ASSUME Schedule \/ Restore \/ LeaseExpires \/ PolicyReads \/ PolicyWrites \/ Weigh
                \/ UNCHANGED vars
         PROVE  RowsTyped'
    BY <1>1, <1>13, <1>21 DEF Weigh
  <1> QED
    BY <1>2, <1>17, <1>18, <1>19, <1>20, <1>21 DEF Next

(* Who may change the rankings at all.                                     *)
LEMMA SnapshotSteps ==
    ASSUME [Next]_vars
    PROVE  \/ UNCHANGED snapshot
           \/ \E e \in Erasers, p \in Periods : MarkRow(e, p)
           \/ \E p \in Periods : CommitSnapshots(p)
  <1>1. ASSUME NEW e \in Erasers, ClaimDue(e) \/ MarkErasing(e) \/ EraseFails(e)
        PROVE  UNCHANGED snapshot
    BY <1>1 DEF ClaimDue, MarkErasing, Begin, EraseFails
  <1>2. ASSUME NEW e \in Erasers, Erase(e)
        PROVE  UNCHANGED snapshot \/ \E p \in Periods : MarkRow(e, p)
    BY <1>2 DEF Erase, LockAggregates, EraseChunk, CleanAggregates, Mark, Marked, DeleteLabels,
                DeleteWeights, DeleteNone, DeleteRow, CommitErase
  <1>3. ASSUME NEW p \in Periods, Refresh(p) \/ RefreshFails(p)
        PROVE  UNCHANGED snapshot \/ CommitSnapshots(p)
    BY <1>3 DEF Refresh, DeleteSnapshots, Rank, RefreshFails
  <1>4. ASSUME NEW d \in Days, WeighUnlabelled(d) \/ ReadPlays(d) PROVE UNCHANGED snapshot
    BY <1>4 DEF WeighUnlabelled, ReadPlays
  <1>5. ASSUME Schedule \/ Restore \/ LeaseExpires \/ PolicyReads \/ PolicyWrites \/ Weigh
               \/ UNCHANGED vars
        PROVE  UNCHANGED snapshot
    BY <1>5 DEF Schedule, Restore, LeaseExpires, PolicyReads, PolicyWrites, Weigh, WriteWeights,
                WeighingRejected, vars
  <1> QED
    BY <1>1, <1>2, <1>3, <1>4, <1>5 DEF Next

LEMMA RefreshSteps ==
    ASSUME [Next]_vars
    PROVE  \/ UNCHANGED refresh
           \/ \E p \in Periods, k \in Kinds : Rank(p, k)
           \/ \E p \in Periods : DeleteSnapshots(p) \/ CommitSnapshots(p) \/ RefreshFails(p)
  <1>1. ASSUME NEW e \in Erasers, ClaimDue(e) \/ MarkErasing(e) \/ EraseFails(e)
        PROVE  UNCHANGED refresh
    BY <1>1 DEF ClaimDue, MarkErasing, Begin, EraseFails
  <1>2. ASSUME NEW e \in Erasers, Erase(e) PROVE UNCHANGED refresh
    BY <1>2 DEF Erase, LockAggregates, EraseChunk, CleanAggregates, Mark, MarkRow, Marked,
                DeleteLabels, DeleteWeights, DeleteNone, DeleteRow, CommitErase
  <1>3. ASSUME NEW d \in Days, WeighUnlabelled(d) \/ ReadPlays(d) PROVE UNCHANGED refresh
    BY <1>3 DEF WeighUnlabelled, ReadPlays
  <1>4. ASSUME Schedule \/ Restore \/ LeaseExpires \/ PolicyReads \/ PolicyWrites \/ Weigh
               \/ UNCHANGED vars
        PROVE  UNCHANGED refresh
    BY <1>4 DEF Schedule, Restore, LeaseExpires, PolicyReads, PolicyWrites, Weigh, WriteWeights,
                WeighingRejected, vars
  <1> QED
    BY <1>1, <1>2, <1>3, <1>4 DEF Next, Refresh

LEMMA SnapshotsTypedStep == ASSUME TypeOK, [Next]_vars PROVE snapshot' \in [Periods -> Snapshots]
  <1>0. snapshot \in [Periods -> Snapshots] /\ refresh \in [Periods -> Refreshes]
    BY TypeParts
  <1>1. ASSUME NEW e \in Erasers, NEW p \in Periods, MarkRow(e, p)
        PROVE  snapshot' \in [Periods -> Snapshots]
    BY <1>1, SnapshotMarked DEF MarkRow
  <1>2. ASSUME NEW p \in Periods, CommitSnapshots(p) PROVE snapshot' \in [Periods -> Snapshots]
    <2> DEFINE b == \E e \in Erasers : er[e].pc = "gone" /\ p \in er[e].marks
               r == [counted |-> refresh[p].counted, invalidated |-> FALSE, passed |-> b]
    <2>1. b \in BOOLEAN
      OBVIOUS
    <2>2. snapshot' = [snapshot EXCEPT ![p] = r]
      BY <1>2 DEF CommitSnapshots
    <2> HIDE DEF b
    <2>3. r \in Snapshots
      BY <1>0, <2>1 DEF Snapshots, Refreshes
    <2> HIDE DEF r
    <2> QED
      BY <1>0, <2>2, <2>3
  <1> QED
    BY <1>0, <1>1, <1>2, SnapshotSteps

LEMMA RefreshesTypedStep == ASSUME TypeOK, [Next]_vars PROVE refresh' \in [Periods -> Refreshes]
  <1>0. refresh \in [Periods -> Refreshes]
    BY TypeParts
  <1>1. ASSUME NEW p \in Periods, DeleteSnapshots(p) \/ CommitSnapshots(p) \/ RefreshFails(p)
        PROVE  refresh' \in [Periods -> Refreshes]
    <2>1. NoRefresh \in Refreshes /\ [pc |-> "ranking", left |-> Kinds, counted |-> FALSE] \in Refreshes
      BY DEF NoRefresh, Refreshes
    <2> QED
      BY <1>0, <1>1, <2>1 DEF DeleteSnapshots, CommitSnapshots, RefreshFails
  <1> QED
    BY <1>0, <1>1, Ranked, RefreshSteps

LEMMA TypeStep == ASSUME TypeOK, [Next]_vars PROVE TypeOK'
  <1>1. OthersTyped' /\ RowsTyped'
    BY OthersTypedStep, RowsTypedStep
  <1>2. snapshot' \in [Periods -> Snapshots] /\ refresh' \in [Periods -> Refreshes]
    BY SnapshotsTypedStep, RefreshesTypedStep
  <1> QED
    BY <1>1, <1>2 DEF TypeOK, OthersTyped, RowsTyped, Rows, Snapshots, Refreshes

(* Every reachable state is well typed, and only an erase whose UPDATE of  *)
(* ranking_snapshots runs has rows left to mark.                           *)
THEOREM TypeCorrect == Spec => []TypeOK
  BY TypeInit, TypeStep, PTL DEF Spec

-----------------------------------------------------------------------------
(* Eraser e is now at stage s, and the others are where they were.         *)
At(e, s, marks, weighed) ==
    /\ er'[e].pc = s /\ er'[e].marks = marks /\ (er'[e].weighed <=> weighed)
    /\ \A f \in Erasers : f # e => er'[f] = er[f]

Keeps(e, s) == At(e, s, er[e].marks, er[e].weighed)

LEMMA Stands ==
    ASSUME NEW e \in Erasers, NEW s \in Stages, NEW m \in SUBSET Periods, NEW w \in BOOLEAN,
           Becomes(e, Row(s, m, w))
    PROVE  At(e, s, m, w)
  BY DEF Becomes, Row, At

LEMMA StageReached ==
    ASSUME TypeOK, NEW e \in Erasers, NEW s \in Stages, er' = [er EXCEPT ![e].pc = s]
    PROVE  Keeps(e, s)
  <1>1. er[e].marks \in SUBSET Periods /\ er[e].weighed \in BOOLEAN
    BY DEF TypeOK
  <1> QED
    BY <1>1, NextStage, Stands DEF Keeps

LEMMA Effects ==
    ASSUME TypeOK, NEW e \in Erasers
    PROVE  /\ ClaimDue(e) \/ MarkErasing(e) => Keeps(e, "lock")
           /\ LockAggregates(e) => Keeps(e, "chunks")
           /\ CleanAggregates(e) => Keeps(e, "mark")
           /\ Mark(e) => \/ Weighed # {} /\ At(e, "marking", Periods, er[e].weighed)
                         \/ Weighed = {} /\ Keeps(e, "labels")
           /\ \A p \in Periods : MarkRow(e, p) => At(e, er[e].pc, er[e].marks \ {p}, er[e].weighed)
           /\ Marked(e) => Keeps(e, "labels")
           /\ DeleteLabels(e) => er' = er \/ (labels = {} /\ Keeps(e, "weights"))
           /\ DeleteWeights(e) => \/ Weighed = {} /\ Keeps(e, "row")
                                  \/ Weighed # {} /\ At(e, "weights", er[e].marks, TRUE)
           /\ DeleteNone(e) => \/ er[e].pc = "labels" /\ Keeps(e, "weights")
                               \/ er[e].pc = "weights" /\ Keeps(e, "row")
           /\ DeleteRow(e) => At(e, "gone", IF er[e].weighed THEN Periods ELSE {}, er[e].weighed)
           /\ CommitErase(e) \/ EraseFails(e) => At(e, "idle", {}, FALSE)
  <1>1. /\ {"idle", "lock", "chunks", "mark", "marking", "labels", "weights", "row", "gone"} \subseteq Stages
        /\ er[e].pc \in Stages /\ er[e].marks \in SUBSET Periods /\ er[e].weighed \in BOOLEAN
        /\ TRUE \in BOOLEAN /\ FALSE \in BOOLEAN /\ {} \in SUBSET Periods /\ Periods \in SUBSET Periods
    BY DEF TypeOK, Stages
  <1>2. ClaimDue(e) \/ MarkErasing(e) => Keeps(e, "lock")
    BY <1>1, StageReached DEF ClaimDue, MarkErasing, Begin
  <1>3. LockAggregates(e) => Keeps(e, "chunks")
    BY <1>1, StageReached DEF LockAggregates
  <1>4. CleanAggregates(e) => Keeps(e, "mark")
    BY <1>1, StageReached DEF CleanAggregates
  <1>5. Mark(e) => \/ Weighed # {} /\ At(e, "marking", Periods, er[e].weighed)
                   \/ Weighed = {} /\ Keeps(e, "labels")
    BY <1>1, Marks, Stands DEF Keeps
  <1>6. \A p \in Periods : MarkRow(e, p) => At(e, er[e].pc, er[e].marks \ {p}, er[e].weighed)
    <2> SUFFICES ASSUME NEW p \in Periods, MarkRow(e, p)
                 PROVE  At(e, er[e].pc, er[e].marks \ {p}, er[e].weighed)
      OBVIOUS
    <2>1. er[e].marks \ {p} \in SUBSET Periods
      BY <1>1
    <2> QED
      BY <1>1, <2>1, MarksRow, Stands
  <1>7. Marked(e) => Keeps(e, "labels")
    BY <1>1, StageReached DEF Marked
  <1>8. DeleteLabels(e) => er' = er \/ (labels = {} /\ Keeps(e, "weights"))
    <2> SUFFICES ASSUME DeleteLabels(e) PROVE er' = er \/ (labels = {} /\ Keeps(e, "weights"))
      OBVIOUS
    <2>1. er' = er \/ (labels = {} /\ Becomes(e, Row("weights", er[e].marks, er[e].weighed)))
      BY DeletesLabels
    <2>2. Becomes(e, Row("weights", er[e].marks, er[e].weighed)) => Keeps(e, "weights")
      BY <1>1, Stands DEF Keeps
    <2> QED
      BY <2>1, <2>2
  <1>9. DeleteWeights(e) => \/ Weighed = {} /\ Keeps(e, "row")
                            \/ Weighed # {} /\ At(e, "weights", er[e].marks, TRUE)
    BY <1>1, DeletesWeights, Stands DEF Keeps
  <1>22. DeleteNone(e) => \/ er[e].pc = "labels" /\ Keeps(e, "weights")
                          \/ er[e].pc = "weights" /\ Keeps(e, "row")
    BY <1>1, DeletesNone, Stands DEF Keeps
  <1>10. DeleteRow(e) => At(e, "gone", IF er[e].weighed THEN Periods ELSE {}, er[e].weighed)
    <2> DEFINE m == IF er[e].weighed THEN Periods ELSE {}
    <2>1. m \in SUBSET Periods
      OBVIOUS
    <2>2. DeleteRow(e) => Becomes(e, Row("gone", m, er[e].weighed))
      BY DeletesRow
    <2> HIDE DEF m
    <2>3. DeleteRow(e) => At(e, "gone", m, er[e].weighed)
      BY <1>1, <2>1, <2>2, Stands
    <2> QED
      BY <2>3 DEF m
  <1>11. CommitErase(e) \/ EraseFails(e) => At(e, "idle", {}, FALSE)
    BY <1>1, Rested, Stands DEF CommitErase, EraseFails
  <1> QED
    BY <1>2, <1>3, <1>4, <1>5, <1>6, <1>7, <1>8, <1>9, <1>22, <1>10, <1>11

LEMMA CommitEffects ==
    ASSUME TypeOK, NEW p \in Periods, CommitSnapshots(p), NEW e \in Erasers
    PROVE  /\ er'[e].pc = er[e].pc /\ er'[e].marks = er[e].marks \ {p}
           /\ er'[e].weighed <=> er[e].weighed
  <1>1. er'[e] = Row(er[e].pc, er[e].marks \ {p}, er[e].weighed)
    BY CommitsSnapshots
  <1> QED
    BY <1>1 DEF Row

-----------------------------------------------------------------------------
(* A restored account is whole: from a claim on, no login restores it.     *)
Busy == \A e \in Erasers : er[e].pc # "idle" => account \in {"erasing", "gone"}

LEMMA WholeStep ==
    ASSUME TypeOK, Busy, RestorableIsWhole, [Next]_vars
    PROVE  Busy' /\ RestorableIsWhole'
  <1>1. ASSUME account' \in {"erasing", "gone"} PROVE Busy' /\ RestorableIsWhole'
    BY <1>1 DEF Busy, RestorableIsWhole
  <1>2. ASSUME Schedule \/ Restore \/ LeaseExpires PROVE Busy' /\ RestorableIsWhole'
    BY <1>2 DEF Schedule, Restore, LeaseExpires, Busy, RestorableIsWhole
  <1>3. ASSUME NEW e \in Erasers, ClaimDue(e) \/ MarkErasing(e) PROVE account' \in {"erasing", "gone"}
    BY <1>3 DEF ClaimDue, MarkErasing, Begin
  <1>4. ASSUME NEW e \in Erasers, Erase(e) \/ EraseFails(e) PROVE account' \in {"erasing", "gone"}
    <2>1. er[e].pc # "idle"
      BY <1>4 DEF Erase, LockAggregates, EraseChunk, CleanAggregates, Mark, MarkRow, Marking, Marked,
                  DeleteLabels, DeleteWeights, DeleteNone, DeleteRow, CommitErase, EraseFails
    <2>2. account \in {"erasing", "gone"}
      BY <2>1 DEF Busy
    <2>3. account' = account \/ account' = "gone"
      BY <1>4 DEF Erase, LockAggregates, EraseChunk, CleanAggregates, Mark, MarkRow, Marked,
                  DeleteLabels, DeleteWeights, DeleteNone, DeleteRow, CommitErase, EraseFails
    <2> QED
      BY <2>2, <2>3
  <1>5. ASSUME NEW p \in Periods, Refresh(p) \/ RefreshFails(p) PROVE Busy' /\ RestorableIsWhole'
    <2>1. UNCHANGED <<account, history, labels>>
      BY <1>5 DEF Refresh, DeleteSnapshots, Rank, CommitSnapshots, RefreshFails
    <2>2. CASE CommitSnapshots(p)
      BY <2>1, <2>2, CommitEffects DEF Busy, RestorableIsWhole
    <2>3. CASE ~CommitSnapshots(p)
      <3>1. UNCHANGED er
        BY <1>5, <2>3 DEF Refresh, DeleteSnapshots, Rank, RefreshFails
      <3> QED
        BY <2>1, <3>1 DEF Busy, RestorableIsWhole
    <2> QED
      BY <2>2, <2>3
  <1>6. ASSUME UNCHANGED <<account, history, labels, er>> PROVE Busy' /\ RestorableIsWhole'
    BY <1>6 DEF Busy, RestorableIsWhole
  <1>7. ASSUME NEW d \in Days, WeighUnlabelled(d) \/ ReadPlays(d)
        PROVE  UNCHANGED <<account, history, labels, er>>
    BY <1>7 DEF WeighUnlabelled, ReadPlays
  <1>8. ASSUME PolicyReads \/ PolicyWrites \/ Weigh \/ UNCHANGED vars
        PROVE  UNCHANGED <<account, history, labels, er>>
    BY <1>8 DEF PolicyReads, PolicyWrites, Weigh, WriteWeights, WeighingRejected, vars
  <1>9. ASSUME NEW e \in Erasers, ClaimDue(e) \/ MarkErasing(e) \/ Erase(e) \/ EraseFails(e)
        PROVE  Busy' /\ RestorableIsWhole'
    BY <1>1, <1>3, <1>4, <1>9
  <1>10. ASSUME NEW d \in Days, WeighUnlabelled(d) \/ ReadPlays(d) PROVE Busy' /\ RestorableIsWhole'
    BY <1>6, <1>7, <1>10
  <1>11. ASSUME PolicyReads \/ PolicyWrites \/ Weigh \/ UNCHANGED vars
         PROVE  Busy' /\ RestorableIsWhole'
    BY <1>6, <1>8, <1>11
  <1> QED
    BY <1>2, <1>5, <1>9, <1>10, <1>11 DEF Next

(* An account that a login restored, or can still restore, has every       *)
(* scrobble and label: the claim and the login exclude each other.         *)
THEOREM RestoredWhole == Spec => []RestorableIsWhole
  <1>1. ASSUME Init PROVE Busy /\ RestorableIsWhole
    <2>1. history = Days /\ labels = Days /\ er = [e \in Erasers |-> AtRest]
      BY <1>1, Zenon DEF Init
    <2> QED
      BY <2>1 DEF Busy, RestorableIsWhole, AtRest
  <1> QED
    BY <1>1, TypeCorrect, WholeStep, PTL DEF Spec

-----------------------------------------------------------------------------
(* Nothing of an erased account comes back.  An eraser that deletes        *)
(* scrobbles keeps the aggregates' refresh away, so that one at work later *)
(* has read no scrobbles.                                                  *)
Cleaned == account = "gone" \/ \E e \in Erasers :
    er[e].pc \in {"mark", "marking", "labels", "weights", "row", "gone"}

GuardHolds == Guarded => policy.pc = "idle"
NothingLeft == Cleaned => history = {} /\ activity = {} /\ (policy.pc = "writing" => policy.read = {})
RowGone == account = "gone" => labels = {} /\ Weighed = {}

CleanInv == GuardHolds /\ NothingLeft /\ RowGone

(* Steps that bring no eraser further, nor the account, nor the refresh.   *)
LEMMA CleanKept ==
    ASSUME CleanInv, Guarded' => Guarded, Cleaned' => Cleaned, history' \subseteq history,
           UNCHANGED <<activity, policy>>,
           account' = "gone" => account = "gone" /\ labels' \subseteq labels /\ Weighed' \subseteq Weighed
    PROVE  CleanInv'
  BY DEF CleanInv, GuardHolds, NothingLeft, RowGone

LEMMA CleanErase ==
    ASSUME TypeOK, CleanInv, NEW e \in Erasers, Erase(e)
    PROVE  CleanInv'
  <1>1. CASE LockAggregates(e)
    <2>1. Keeps(e, "chunks")
      BY <1>1, Effects
    <2>2. Cleaned' => Cleaned
      BY <1>1, <2>1 DEF Cleaned, Keeps, At, LockAggregates
    <2>3. UNCHANGED <<account, history, activity, labels, weights, policy>> /\ policy.pc = "idle"
      BY <1>1 DEF LockAggregates
    <2> QED
      BY <2>2, <2>3 DEF CleanInv, GuardHolds, NothingLeft, RowGone, Weighed
  <1>2. CASE EraseChunk(e)
    BY <1>2, CleanKept DEF EraseChunk, Guarded, Cleaned, Weighed
  <1>3. CASE CleanAggregates(e)
    <2>1. Guarded /\ (account' = "gone" => account = "gone")
      BY <1>3 DEF CleanAggregates, Guarded
    <2>2. history' = {} /\ activity' = {} /\ policy' = policy /\ labels' = labels /\ weights' = weights
      BY <1>3 DEF CleanAggregates
    <2> QED
      BY <2>1, <2>2 DEF CleanInv, GuardHolds, NothingLeft, RowGone, Weighed
  <1>4. CASE Mark(e) \/ Marked(e) \/ DeleteLabels(e) \/ DeleteWeights(e) \/ DeleteNone(e)
             \/ DeleteRow(e) \/ \E p \in Periods : MarkRow(e, p)
    <2>1. er[e].pc \in {"mark", "marking", "labels", "weights", "row", "gone"}
      BY <1>4 DEF Mark, Marked, DeleteLabels, DeleteWeights, DeleteNone, DeleteRow, MarkRow, Marking
    <2>2. Cleaned
      BY <2>1 DEF Cleaned
    <2>3. UNCHANGED <<account, history, activity, policy>>
      BY <1>4 DEF Mark, Marked, DeleteLabels, DeleteWeights, DeleteNone, DeleteRow, MarkRow
    <2>4. labels' \subseteq labels
      BY <1>4 DEF Mark, Marked, DeleteLabels, DeleteWeights, DeleteNone, DeleteRow, MarkRow
    <2>5. Weighed' \subseteq Weighed
      BY <1>4 DEF Mark, Marked, DeleteLabels, DeleteWeights, DeleteNone, DeleteRow, MarkRow, Weighed
    <2>6. Guarded' => Guarded
      <3>1. ASSUME NEW s, s # "chunks", NEW m, NEW w, At(e, s, m, w) PROVE Guarded' => Guarded
        BY <3>1 DEF Guarded, At
      <3>2. CASE Mark(e)
        BY <3>1, <3>2, Effects DEF Keeps
      <3>3. CASE Marked(e)
        BY <3>1, <3>3, Effects DEF Keeps
      <3>4. CASE DeleteLabels(e)
        <4>1. CASE er' = er
          BY <4>1 DEF Guarded
        <4>2. CASE Keeps(e, "weights")
          BY <3>1, <4>2 DEF Keeps
        <4> QED
          BY <3>4, <4>1, <4>2, Effects
      <3>5. CASE DeleteWeights(e)
        BY <3>1, <3>5, Effects DEF Keeps
      <3>9. CASE DeleteNone(e)
        BY <3>1, <3>9, Effects DEF Keeps
      <3>6. CASE DeleteRow(e)
        BY <3>1, <3>6, Effects
      <3>7. ASSUME NEW p \in Periods, MarkRow(e, p) PROVE Guarded' => Guarded
        <4>1. er[e].pc # "chunks"
          BY <3>7 DEF MarkRow, Marking
        <4> QED
          BY <3>1, <3>7, <4>1, Effects
      <3> QED
        BY <1>4, <3>2, <3>3, <3>4, <3>5, <3>9, <3>6, <3>7
    <2> QED
      BY <2>2, <2>3, <2>4, <2>5, <2>6, CleanKept
  <1>5. CASE CommitErase(e)
    <2>1. At(e, "idle", {}, FALSE)
      BY <1>5, Effects
    <2>2. Guarded' => Guarded
      BY <2>1 DEF Guarded, At
    <2>3. Cleaned
      BY <1>5 DEF CommitErase, Cleaned
    <2>4. history' = {} /\ labels' = {} /\ Weighed' = {} /\ UNCHANGED <<activity, policy>>
      BY <1>5 DEF CommitErase, Weighed
    <2> QED
      BY <2>2, <2>3, <2>4 DEF CleanInv, GuardHolds, NothingLeft, RowGone
  <1> QED
    BY <1>1, <1>2, <1>3, <1>4, <1>5 DEF Erase

LEMMA CleanStep == ASSUME TypeOK, CleanInv, [Next]_vars PROVE CleanInv'
  <1>1. ASSUME Schedule \/ Restore \/ LeaseExpires PROVE CleanInv'
    BY <1>1, CleanKept DEF Schedule, Restore, LeaseExpires, Guarded, Cleaned, Weighed
  <1>2. ASSUME NEW e \in Erasers, ClaimDue(e) \/ MarkErasing(e) PROVE CleanInv'
    <2>1. Keeps(e, "lock")
      BY <1>2, Effects
    <2>2. account # "gone" /\ account' = "erasing" /\ UNCHANGED <<history, activity, policy>>
      BY <1>2 DEF ClaimDue, MarkErasing, Begin
    <2>3. (Guarded' => Guarded) /\ (Cleaned' => Cleaned)
      BY <2>1, <2>2 DEF Guarded, Cleaned, Keeps, At
    <2> QED
      BY <2>2, <2>3, CleanKept
  <1>3. ASSUME NEW e \in Erasers, EraseFails(e) PROVE CleanInv'
    <2>1. At(e, "idle", {}, FALSE)
      BY <1>3, Effects
    <2>2. UNCHANGED <<account, history, activity, labels, weights, policy>>
      BY <1>3 DEF EraseFails
    <2>3. (Guarded' => Guarded) /\ (Cleaned' => Cleaned)
      BY <2>1, <2>2 DEF Guarded, Cleaned, At
    <2> QED
      BY <2>2, <2>3, CleanKept DEF Weighed
  <1>4. ASSUME NEW p \in Periods, CommitSnapshots(p) PROVE CleanInv'
    <2>1. UNCHANGED <<account, history, activity, labels, weights, policy>>
      BY <1>4 DEF CommitSnapshots
    <2>2. \A e \in Erasers : er'[e].pc = er[e].pc
      BY <1>4, CommitEffects
    <2>3. (Guarded' => Guarded) /\ (Cleaned' => Cleaned)
      BY <2>1, <2>2 DEF Guarded, Cleaned
    <2> QED
      BY <2>1, <2>3, CleanKept DEF Weighed
  <1>5. ASSUME NEW p \in Periods, DeleteSnapshots(p) \/ RefreshFails(p) \/ \E k \in Kinds : Rank(p, k)
        PROVE  CleanInv'
    <2>1. UNCHANGED <<account, history, activity, labels, weights, er, policy>>
      BY <1>5 DEF DeleteSnapshots, RefreshFails, Rank
    <2> QED
      BY <2>1, CleanKept DEF Guarded, Cleaned, Weighed
  <1>6. CASE PolicyReads
    <2>1. UNCHANGED <<account, history, activity, labels, weights, er>> /\ ~Guarded
          /\ policy' = [pc |-> "writing", read |-> history]
      BY <1>6 DEF PolicyReads
    <2>2. policy'.read = history
      BY <2>1
    <2> QED
      BY <2>1, <2>2 DEF CleanInv, GuardHolds, NothingLeft, RowGone, Guarded, Cleaned, Weighed
  <1>7. CASE PolicyWrites
    <2>1. UNCHANGED <<account, history, labels, weights, er>> /\ policy.pc = "writing"
          /\ policy' = NoPolicy /\ activity' = policy.read
      BY <1>7 DEF PolicyWrites
    <2>2. policy'.pc = "idle"
      BY <2>1 DEF NoPolicy
    <2> QED
      BY <2>1, <2>2 DEF CleanInv, GuardHolds, NothingLeft, RowGone, Guarded, Cleaned, Weighed
  <1>8. ASSUME NEW d \in Days, WeighUnlabelled(d) \/ ReadPlays(d) PROVE CleanInv'
    <2>1. UNCHANGED <<account, history, activity, labels, er, policy>>
      BY <1>8 DEF WeighUnlabelled, ReadPlays
    <2>2. weights' = weights \/ weights' = [weights EXCEPT ![d] = "none"]
      BY <1>8 DEF WeighUnlabelled, ReadPlays
    <2>3. Weighed' \subseteq Weighed
      BY <2>2 DEF Weighed, TypeOK
    <2> QED
      BY <2>1, <2>3, CleanKept DEF Guarded, Cleaned
  <1>9. CASE WriteWeights
    <2>1. UNCHANGED <<account, history, activity, labels, er, policy>> /\ account # "gone"
      BY <1>9 DEF WriteWeights
    <2> QED
      BY <2>1, CleanKept DEF Guarded, Cleaned
  <1>10. CASE WeighingRejected \/ UNCHANGED vars
    <2>1. UNCHANGED <<account, history, activity, labels, weights, er, policy>>
      BY <1>10 DEF WeighingRejected, vars
    <2> QED
      BY <2>1, CleanKept DEF Guarded, Cleaned, Weighed
  <1> QED
    BY <1>1, <1>2, <1>3, <1>4, <1>5, <1>6, <1>7, <1>8, <1>9, <1>10, CleanErase DEF Next, Refresh, Weigh

(* Nothing is left of an erased account, and no refresh or weighing in     *)
(* flight brings any of it back.                                           *)
THEOREM ErasedForGood == Spec => []NothingComesBack
  <1>1. ASSUME Init PROVE CleanInv
    <2>1. account = "here" /\ policy = NoPolicy /\ er = [e \in Erasers |-> AtRest]
      BY <1>1, Zenon DEF Init
    <2> QED
      BY <2>1 DEF CleanInv, GuardHolds, NothingLeft, RowGone, Cleaned, Guarded, NoPolicy, AtRest
  <1>2. ASSUME CleanInv PROVE NothingComesBack
    BY <1>2 DEF CleanInv, NothingLeft, RowGone, Cleaned, NothingComesBack
  <1> QED
    BY <1>1, <1>2, TypeCorrect, CleanStep, PTL DEF Spec

-----------------------------------------------------------------------------
(* The marks.  A ranking that counts the account was made of its weights:  *)
(* as long as no eraser has deleted weights they are there, and an eraser  *)
(* that has deleted some marks every ranking while it holds the account's  *)
(* row, so that no weights come back.                                      *)
Quiet == faults = 0 /\ ~overtaken

Unlabelling(e) == er[e].pc \in {"labels", "weights", "row", "gone"}

OnlyErasersUnlabel ==
    faults = 0 /\ labels # Days => account = "gone" \/ \E e \in Erasers : Unlabelling(e)

(* Another took the whole batch of the one that went on, and goes on       *)
(* itself.                                                                 *)
StillDeletes == \E e \in Erasers : er[e].pc = "weights" /\ er[e].weighed

UnweighedAtLast ==
    Quiet => /\ account = "gone" => Weighed = {}
             /\ (\E e \in Erasers : er[e].pc \in {"row", "gone"}) => Weighed = {} \/ StillDeletes

CountedIsKnown ==
    \A p \in Periods : Quiet /\ account # "gone" /\ (snapshot[p].counted \/ refresh[p].counted) =>
        Weighed # {} \/ \E e \in Erasers : er[e].weighed

Settled(p) ==
    /\ ~refresh[p].counted
    /\ snapshot[p].counted => snapshot[p].invalidated \/ snapshot[p].passed

MarkedBehind ==
    \A e \in Erasers, p \in Periods :
        er[e].pc = "gone" /\ er[e].weighed /\ p \notin er[e].marks =>
            refresh[p].pc = "idle" /\ Settled(p)

MarkedAtLast ==
    Quiet /\ account = "gone" /\ (\A e \in Erasers : ~er[e].weighed) => \A p \in Periods : Settled(p)

MarksInv ==
    OnlyErasersUnlabel /\ UnweighedAtLast /\ CountedIsKnown /\ MarkedBehind /\ MarkedAtLast

LEMMA SnapshotsCommitted ==
    ASSUME TypeOK, NEW p \in Periods, CommitSnapshots(p)
    PROVE  /\ snapshot'[p].counted <=> refresh[p].counted
           /\ (\E e \in Erasers : er[e].pc = "gone" /\ p \in er[e].marks) => snapshot'[p].passed
           /\ \A q \in Periods : q # p => snapshot'[q] = snapshot[q] /\ refresh'[q] = refresh[q]
           /\ refresh'[p].pc = "idle" /\ ~refresh'[p].counted
  <1> DEFINE b == \E e \in Erasers : er[e].pc = "gone" /\ p \in er[e].marks
             r == [counted |-> refresh[p].counted, invalidated |-> FALSE, passed |-> b]
  <1>0. snapshot \in [Periods -> Snapshots] /\ refresh \in [Periods -> Refreshes]
        /\ refresh[p].counted \in BOOLEAN /\ b \in BOOLEAN
    BY TypeParts DEF Refreshes
  <1>1. snapshot' = [snapshot EXCEPT ![p] = r] /\ refresh' = [refresh EXCEPT ![p] = NoRefresh]
    BY DEF CommitSnapshots
  <1> HIDE DEF b
  <1>2. (r.counted <=> refresh[p].counted) /\ (r.passed <=> b)
    BY <1>0
  <1>3. NoRefresh.pc = "idle" /\ ~NoRefresh.counted
    BY DEF NoRefresh
  <1> HIDE DEF r
  <1> QED
    BY <1>0, <1>1, <1>2, <1>3 DEF b

(* No fault, no late weigher: it was so before.                            *)
LEMMA QuietBefore ==
    ASSUME TypeOK, [Next]_vars
    PROVE  (faults' = 0 => faults = 0 /\ faults' = faults) /\ (overtaken => overtaken')
  <1>0. faults \in 0..MaxFaults
    BY TypeParts DEF OthersTyped
  <1>1. ASSUME NEW e \in Erasers, EraseFails(e) PROVE faults' # 0 /\ overtaken' = overtaken
    <2>1. faults' = faults + 1 /\ overtaken' = overtaken
      BY <1>1 DEF EraseFails, Fault
    <2> QED
      BY <1>0, <2>1, ErasureAssumption
  <1>2. ASSUME NEW p \in Periods, RefreshFails(p) PROVE faults' # 0 /\ overtaken' = overtaken
    <2>1. faults' = faults + 1 /\ overtaken' = overtaken
      BY <1>2 DEF RefreshFails, Fault
    <2> QED
      BY <1>0, <2>1, ErasureAssumption
  <1>3. ASSUME NEW e \in Erasers, ClaimDue(e) \/ MarkErasing(e) \/ Erase(e)
        PROVE  UNCHANGED <<faults, overtaken>>
    BY <1>3 DEF ClaimDue, MarkErasing, Begin, Erase, LockAggregates, EraseChunk, CleanAggregates,
                Mark, MarkRow, Marked, DeleteLabels, DeleteWeights, DeleteNone, DeleteRow, CommitErase
  <1>4. ASSUME NEW p \in Periods, Refresh(p) PROVE UNCHANGED <<faults, overtaken>>
    BY <1>4 DEF Refresh, DeleteSnapshots, Rank, CommitSnapshots
  <1>5. ASSUME NEW d \in Days, WeighUnlabelled(d) \/ ReadPlays(d)
        PROVE  faults' = faults /\ (overtaken => overtaken')
    <2>1. CASE WeighUnlabelled(d)
      BY <2>1 DEF WeighUnlabelled
    <2>2. CASE ReadPlays(d)
      <3>1. UNCHANGED <<faults, overtaken>>
        BY <2>2 DEF ReadPlays
      <3> QED
        BY <3>1
    <2> QED
      BY <1>5, <2>1, <2>2
  <1>6. ASSUME Weigh PROVE faults' = faults /\ (overtaken => overtaken')
    <2>1. CASE WriteWeights
      BY <2>1 DEF WriteWeights
    <2>2. CASE WeighingRejected
      BY <2>2 DEF WeighingRejected
    <2> QED
      BY <1>6, <2>1, <2>2 DEF Weigh
  <1>7. ASSUME Schedule \/ Restore \/ LeaseExpires \/ PolicyReads \/ PolicyWrites \/ UNCHANGED vars
        PROVE  UNCHANGED <<faults, overtaken>>
    BY <1>7 DEF Schedule, Restore, LeaseExpires, PolicyReads, PolicyWrites, vars
  <1> QED
    BY <1>1, <1>2, <1>3, <1>4, <1>5, <1>6, <1>7 DEF Next

(* An eraser goes on from its labels to the commit, and knows what it      *)
(* deleted.                                                                *)
LEMMA StageKept ==
    ASSUME TypeOK, [Next]_vars, NEW e \in Erasers, ~CommitErase(e), ~EraseFails(e)
    PROVE  /\ Unlabelling(e) => Unlabelling(e)'
           /\ er[e].pc = "weights" => er'[e].pc \in {"weights", "row"}
           /\ er[e].pc = "gone" => er'[e].pc = "gone"
           /\ er[e].weighed => er'[e].weighed
  <1> DEFINE P == /\ Unlabelling(e) => Unlabelling(e)'
                  /\ er[e].pc = "weights" => er'[e].pc \in {"weights", "row"}
                  /\ er[e].pc = "gone" => er'[e].pc = "gone"
                  /\ er[e].weighed => er'[e].weighed
  <1>1. ASSUME er'[e] = er[e] PROVE P
    BY <1>1 DEF Unlabelling
  <1>2. ASSUME NEW f \in Erasers, f # e, NEW s, NEW m, NEW w, At(f, s, m, w) PROVE P
    BY <1>1, <1>2 DEF At
  <1>3. ASSUME NEW s, NEW m, At(e, s, m, er[e].weighed) \/ At(e, s, m, TRUE),
               s \in {"labels", "weights", "row", "gone"} \/ ~Unlabelling(e),
               er[e].pc = "gone" => s = "gone", er[e].pc = "weights" => s \in {"weights", "row"}
        PROVE  P
    BY <1>3 DEF At, Unlabelling
  <1> HIDE DEF P
  <1>4. ASSUME NEW f \in Erasers, ClaimDue(f) \/ MarkErasing(f) PROVE P
    <2>1. Keeps(f, "lock") /\ er[f].pc = "idle"
      BY <1>4, Effects DEF ClaimDue, MarkErasing, Begin
    <2> QED
      BY <1>2, <1>3, <2>1 DEF Keeps, Unlabelling
  <1>5. ASSUME NEW f \in Erasers, Erase(f) PROVE P
    <2>1. CASE LockAggregates(f)
      <3>1. Keeps(f, "chunks") /\ er[f].pc = "lock"
        BY <2>1, Effects DEF LockAggregates
      <3> QED
        BY <1>2, <1>3, <3>1 DEF Keeps, Unlabelling
    <2>2. CASE EraseChunk(f)
      BY <1>1, <2>2 DEF EraseChunk
    <2>3. CASE CleanAggregates(f)
      <3>1. Keeps(f, "mark") /\ er[f].pc = "chunks"
        BY <2>3, Effects DEF CleanAggregates
      <3> QED
        BY <1>2, <1>3, <3>1 DEF Keeps, Unlabelling
    <2>4. CASE Mark(f)
      <3>1. (At(f, "marking", Periods, er[f].weighed) \/ Keeps(f, "labels")) /\ er[f].pc = "mark"
        BY <2>4, Effects DEF Mark
      <3> QED
        BY <1>2, <1>3, <3>1 DEF Keeps, Unlabelling
    <2>5. CASE Marked(f)
      <3>1. Keeps(f, "labels") /\ er[f].pc = "marking"
        BY <2>5, Effects DEF Marked
      <3> QED
        BY <1>2, <1>3, <3>1 DEF Keeps, Unlabelling
    <2>6. ASSUME NEW p \in Periods, MarkRow(f, p) PROVE P
      <3>1. At(f, er[f].pc, er[f].marks \ {p}, er[f].weighed) /\ er[f].pc \in {"marking", "gone"}
        BY <2>6, Effects DEF MarkRow, Marking
      <3> QED
        BY <1>2, <1>3, <3>1 DEF Unlabelling
    <2>7. CASE DeleteLabels(f)
      <3>1. (er' = er \/ Keeps(f, "weights")) /\ er[f].pc = "labels"
        BY <2>7, Effects DEF DeleteLabels
      <3> QED
        BY <1>1, <1>2, <1>3, <3>1 DEF Keeps
    <2>8. CASE DeleteWeights(f)
      <3>1. (Keeps(f, "row") \/ At(f, "weights", er[f].marks, TRUE)) /\ er[f].pc = "weights"
        BY <2>8, Effects DEF DeleteWeights
      <3> QED
        BY <1>2, <1>3, <3>1 DEF Keeps
    <2>11. CASE DeleteNone(f)
      <3>1. \/ er[f].pc = "labels" /\ Keeps(f, "weights")
            \/ er[f].pc = "weights" /\ Keeps(f, "row")
        BY <2>11, Effects
      <3> QED
        BY <1>2, <1>3, <3>1 DEF Keeps
    <2>9. CASE DeleteRow(f)
      <3>1. PICK m : At(f, "gone", m, er[f].weighed)
        BY <2>9, Effects
      <3>2. er[f].pc = "row"
        BY <2>9 DEF DeleteRow
      <3> QED
        BY <1>2, <1>3, <3>1, <3>2
    <2>10. CASE CommitErase(f)
      BY <1>2, <2>10, Effects
    <2> QED
      BY <1>5, <2>1, <2>2, <2>3, <2>4, <2>5, <2>6, <2>7, <2>8, <2>11, <2>9, <2>10
      DEF Erase
  <1>6. ASSUME NEW f \in Erasers, EraseFails(f) PROVE P
    BY <1>2, <1>6, Effects
  <1>7. ASSUME NEW p \in Periods, CommitSnapshots(p) PROVE P
    BY <1>7, CommitEffects DEF P, Unlabelling
  <1>8. ASSUME NEW p \in Periods, DeleteSnapshots(p) \/ RefreshFails(p) \/ \E k \in Kinds : Rank(p, k)
        PROVE  P
    BY <1>1, <1>8 DEF DeleteSnapshots, RefreshFails, Rank
  <1>9. ASSUME NEW d \in Days, WeighUnlabelled(d) \/ ReadPlays(d) PROVE P
    BY <1>1, <1>9 DEF WeighUnlabelled, ReadPlays
  <1>10. ASSUME Schedule \/ Restore \/ LeaseExpires \/ PolicyReads \/ PolicyWrites \/ Weigh
                \/ UNCHANGED vars
         PROVE  P
    BY <1>1, <1>10 DEF Schedule, Restore, LeaseExpires, PolicyReads, PolicyWrites, Weigh,
                       WriteWeights, WeighingRejected, vars
  <1>11. P
    BY <1>4, <1>5, <1>6, <1>7, <1>8, <1>9, <1>10 DEF Next, Refresh
  <1> QED
    BY <1>11 DEF P

(* Who changes the account, the labels and the weights.                    *)
LEMMA AccountSteps ==
    ASSUME [Next]_vars
    PROVE  /\ account = "gone" => account' = "gone"
           /\ account' = "gone" => account = "gone" \/ \E e \in Erasers : CommitErase(e)
           /\ \A e \in Erasers : CommitErase(e) => account' = "gone"
           /\ labels' = labels \/ \E e \in Erasers : DeleteLabels(e) \/ CommitErase(e)
           /\ \/ weights' = weights \/ WriteWeights \/ \E d \in Days : WeighUnlabelled(d)
              \/ \E e \in Erasers : DeleteWeights(e) \/ CommitErase(e)
  <1> DEFINE P == /\ account = "gone" => account' = "gone"
                  /\ account' = "gone" => account = "gone" \/ \E e \in Erasers : CommitErase(e)
                  /\ labels' = labels \/ \E e \in Erasers : DeleteLabels(e) \/ CommitErase(e)
                  /\ \/ weights' = weights \/ WriteWeights \/ \E d \in Days : WeighUnlabelled(d)
                     \/ \E e \in Erasers : DeleteWeights(e) \/ CommitErase(e)
  <1>1. ASSUME Schedule \/ Restore \/ LeaseExpires PROVE P
    BY <1>1 DEF Schedule, Restore, LeaseExpires
  <1>2. ASSUME NEW e \in Erasers, ClaimDue(e) \/ MarkErasing(e) PROVE P
    BY <1>2 DEF ClaimDue, MarkErasing, Begin
  <1>3. ASSUME NEW e \in Erasers, CommitErase(e) PROVE P /\ account' = "gone"
    BY <1>3 DEF CommitErase
  <1>4. ASSUME NEW e \in Erasers, DeleteLabels(e) PROVE P
    BY <1>4 DEF DeleteLabels
  <1>5. ASSUME NEW e \in Erasers, DeleteWeights(e) PROVE P
    BY <1>5 DEF DeleteWeights
  <1>6. ASSUME UNCHANGED <<account, labels, weights>> PROVE P
    BY <1>6
  <1>7. ASSUME NEW e \in Erasers, Erase(e) \/ EraseFails(e),
               ~CommitErase(e), ~DeleteLabels(e), ~DeleteWeights(e)
        PROVE  UNCHANGED <<account, labels, weights>>
    BY <1>7 DEF Erase, LockAggregates, EraseChunk, CleanAggregates, Mark, MarkRow, Marked, DeleteNone,
                DeleteRow, EraseFails
  <1>8. ASSUME NEW p \in Periods, Refresh(p) \/ RefreshFails(p)
        PROVE  UNCHANGED <<account, labels, weights>>
    BY <1>8 DEF Refresh, DeleteSnapshots, Rank, CommitSnapshots, RefreshFails
  <1>9. ASSUME PolicyReads \/ PolicyWrites \/ WeighingRejected \/ UNCHANGED vars
               \/ \E d \in Days : ReadPlays(d)
        PROVE  UNCHANGED <<account, labels, weights>>
    BY <1>9 DEF PolicyReads, PolicyWrites, WeighingRejected, ReadPlays, vars
  <1>10. ASSUME WriteWeights \/ \E d \in Days : WeighUnlabelled(d) PROVE P
    <2>1. UNCHANGED <<account, labels>>
      BY <1>10 DEF WriteWeights, WeighUnlabelled
    <2> QED
      BY <1>10, <2>1
  <1> HIDE DEF P
  <1>11. ASSUME NEW e \in Erasers, Erase(e) \/ EraseFails(e) PROVE P
    BY <1>3, <1>4, <1>5, <1>6, <1>7, <1>11
  <1>12. P
    BY <1>1, <1>2, <1>6, <1>8, <1>9, <1>10, <1>11 DEF Next, Weigh
  <1> QED
    BY <1>3, <1>12 DEF P

LEMMA UnlabelStep ==
    ASSUME TypeOK, OnlyErasersUnlabel, [Next]_vars
    PROVE  OnlyErasersUnlabel'
  <1> SUFFICES ASSUME faults' = 0, labels' # Days, account' # "gone"
               PROVE  \E e \in Erasers : Unlabelling(e)'
    BY DEF OnlyErasersUnlabel
  <1>1. faults = 0 /\ account # "gone"
    BY QuietBefore, AccountSteps
  <1>2. \A e \in Erasers : ~CommitErase(e) /\ ~EraseFails(e)
    <2>1. \A e \in Erasers : EraseFails(e) => faults' = faults + 1
      BY DEF EraseFails, Fault
    <2> QED
      BY <2>1, AccountSteps, <1>1
  <1>3. PICK e \in Erasers : Unlabelling(e)
    <2>1. CASE labels = Days
      <3>1. PICK e \in Erasers : DeleteLabels(e)
        BY <2>1, <1>2, AccountSteps
      <3> QED
        BY <3>1 DEF DeleteLabels, Unlabelling
    <2>2. CASE labels # Days
      BY <1>1, <2>2 DEF OnlyErasersUnlabel
    <2> QED
      BY <2>1, <2>2
  <1> QED
    BY <1>2, <1>3, StageKept

(* Where an eraser about to delete the account's row was before.           *)
LEMMA RowReached ==
    ASSUME TypeOK, [Next]_vars, NEW e \in Erasers
    PROVE  /\ er'[e].pc \in {"row", "gone"} =>
                er[e].pc \in {"row", "gone"} \/ Weighed = {} \/ DeleteNone(e)
           /\ er'[e].pc = "gone" => er[e].pc = "gone" \/ DeleteRow(e)
  <1> DEFINE P == /\ er'[e].pc \in {"row", "gone"} =>
                       er[e].pc \in {"row", "gone"} \/ Weighed = {} \/ DeleteNone(e)
                  /\ er'[e].pc = "gone" => er[e].pc = "gone" \/ DeleteRow(e)
  <1>1. ASSUME er'[e].pc = er[e].pc PROVE P
    BY <1>1
  <1>2. ASSUME NEW f \in Erasers, f # e, NEW s, NEW m, NEW w, At(f, s, m, w) PROVE P
    BY <1>2 DEF At
  <1>3. ASSUME NEW s, NEW m, NEW w, At(e, s, m, w), s \notin {"row", "gone"} PROVE P
    BY <1>3 DEF At
  <1>4. ASSUME Keeps(e, "row"), Weighed = {} \/ DeleteNone(e) PROVE P
    BY <1>4 DEF Keeps, At
  <1>5. ASSUME DeleteRow(e) PROVE P
    BY <1>5 DEF DeleteRow
  <1> HIDE DEF P
  <1>6. ASSUME NEW f \in Erasers, ClaimDue(f) \/ MarkErasing(f) PROVE P
    <2>1. Keeps(f, "lock")
      BY <1>6, Effects
    <2> QED
      BY <1>2, <1>3, <2>1 DEF Keeps
  <1>7. ASSUME NEW f \in Erasers, Erase(f) PROVE P
    <2>1. CASE LockAggregates(f)
      <3>1. Keeps(f, "chunks")
        BY <2>1, Effects
      <3> QED
        BY <1>2, <1>3, <3>1 DEF Keeps
    <2>2. CASE EraseChunk(f)
      BY <1>1, <2>2 DEF EraseChunk
    <2>3. CASE CleanAggregates(f)
      <3>1. Keeps(f, "mark")
        BY <2>3, Effects
      <3> QED
        BY <1>2, <1>3, <3>1 DEF Keeps
    <2>4. CASE Mark(f)
      <3>1. At(f, "marking", Periods, er[f].weighed) \/ Keeps(f, "labels")
        BY <2>4, Effects
      <3> QED
        BY <1>2, <1>3, <3>1 DEF Keeps
    <2>5. CASE Marked(f)
      <3>1. Keeps(f, "labels")
        BY <2>5, Effects
      <3> QED
        BY <1>2, <1>3, <3>1 DEF Keeps
    <2>6. ASSUME NEW p \in Periods, MarkRow(f, p) PROVE P
      <3>1. At(f, er[f].pc, er[f].marks \ {p}, er[f].weighed)
        BY <2>6, Effects
      <3> QED
        BY <1>1, <1>2, <3>1 DEF At
    <2>7. CASE DeleteLabels(f)
      <3>1. er' = er \/ Keeps(f, "weights")
        BY <2>7, Effects
      <3> QED
        BY <1>1, <1>2, <1>3, <3>1 DEF Keeps
    <2>8. CASE DeleteWeights(f)
      <3>1. \/ Weighed = {} /\ Keeps(f, "row")
            \/ At(f, "weights", er[f].marks, TRUE)
        BY <2>8, Effects
      <3> QED
        BY <1>2, <1>3, <1>4, <3>1 DEF Keeps
    <2>11. CASE DeleteNone(f)
      <3>1. Keeps(f, "weights") \/ Keeps(f, "row")
        BY <2>11, Effects
      <3> QED
        BY <1>2, <1>3, <1>4, <2>11, <3>1 DEF Keeps
    <2>9. CASE DeleteRow(f)
      <3>1. PICK m : At(f, "gone", m, er[f].weighed)
        BY <2>9, Effects
      <3> QED
        BY <1>2, <1>5, <2>9, <3>1
    <2>10. CASE CommitErase(f)
      BY <1>2, <1>3, <2>10, Effects
    <2> QED
      BY <1>7, <2>1, <2>2, <2>3, <2>4, <2>5, <2>6, <2>7, <2>8, <2>11, <2>9, <2>10
      DEF Erase
  <1>8. ASSUME NEW f \in Erasers, EraseFails(f) PROVE P
    BY <1>2, <1>3, <1>8, Effects
  <1>9. ASSUME NEW p \in Periods, CommitSnapshots(p) PROVE P
    BY <1>1, <1>9, CommitEffects
  <1>10. ASSUME NEW p \in Periods, DeleteSnapshots(p) \/ RefreshFails(p) \/ \E k \in Kinds : Rank(p, k)
         PROVE  P
    BY <1>1, <1>10 DEF DeleteSnapshots, RefreshFails, Rank
  <1>11. ASSUME NEW d \in Days, WeighUnlabelled(d) \/ ReadPlays(d) PROVE P
    BY <1>1, <1>11 DEF WeighUnlabelled, ReadPlays
  <1>12. ASSUME Schedule \/ Restore \/ LeaseExpires \/ PolicyReads \/ PolicyWrites \/ Weigh
                \/ UNCHANGED vars
         PROVE  P
    BY <1>1, <1>12 DEF Schedule, Restore, LeaseExpires, PolicyReads, PolicyWrites, Weigh,
                       WriteWeights, WeighingRejected, vars
  <1>13. P
    BY <1>6, <1>7, <1>8, <1>9, <1>10, <1>11, <1>12 DEF Next, Refresh
  <1> QED
    BY <1>13 DEF P

(* Whoever still deletes weights goes on until there are none, or another  *)
(* who deletes has taken its batch.                                        *)
LEMMA StillDeletesStep ==
    ASSUME TypeOK, [Next]_vars, Quiet', StillDeletes, \A e \in Erasers : ~CommitErase(e)
    PROVE  StillDeletes' \/ Weighed = {}
  <1>1. Quiet /\ \A e \in Erasers : ~EraseFails(e)
    <2>1. faults' = faults /\ faults \in 0..MaxFaults
      BY QuietBefore, TypeParts DEF Quiet, OthersTyped
    <2>2. \A e \in Erasers : EraseFails(e) => faults' = faults + 1
      BY DEF EraseFails, Fault
    <2> QED
      BY <2>1, <2>2, QuietBefore DEF Quiet
  <1>2. PICK e \in Erasers : er[e].pc = "weights" /\ er[e].weighed
    BY DEF StillDeletes
  <1>3. er'[e].weighed /\ er'[e].pc \in {"weights", "row"}
    BY <1>1, <1>2, StageKept
  <1>4. CASE DeleteNone(e)
    <2>1. PICK f \in Erasers \ {e} : er[f].pc = "weights" /\ er[f].weighed
      BY <1>1, <1>2, <1>4 DEF DeleteNone, Quiet
    <2>2. er'[f] = er[f]
      BY <1>4, Effects DEF Keeps, At
    <2> QED
      BY <2>1, <2>2 DEF StillDeletes
  <1>5. CASE ~DeleteNone(e)
    BY <1>2, <1>3, <1>5, RowReached DEF StillDeletes
  <1> QED
    BY <1>4, <1>5

(* At the end of an erase there are no weights, or one still deletes them: *)
(* no label brings any back.                                               *)
LEMMA UnweighedStep ==
    ASSUME TypeOK, UnweighedAtLast, [Next]_vars
    PROVE  UnweighedAtLast'
  <1> SUFFICES ASSUME Quiet', account' = "gone" \/ \E e \in Erasers : er'[e].pc \in {"row", "gone"}
               PROVE  Weighed' = {} \/ (account' # "gone" /\ StillDeletes')
    BY DEF UnweighedAtLast
  <1>1. Quiet
    BY QuietBefore DEF Quiet
  <1>2. ASSUME NEW e \in Erasers, CommitErase(e) PROVE Weighed' = {}
    BY <1>2 DEF CommitErase, Weighed
  <1>3. ASSUME NEW e \in Erasers, DeleteWeights(e) PROVE Weighed' \subseteq Weighed
    <2>1. \A d \in Days : weights'[d] = "none" \/ weights'[d] = weights[d]
      BY <1>3 DEF DeleteWeights
    <2> QED
      BY <2>1 DEF Weighed
  <1>4. ASSUME NEW d \in Days, WeighUnlabelled(d) PROVE Weighed' \subseteq Weighed
    <2>1. weights' = [weights EXCEPT ![d] = "none"]
      BY <1>4 DEF WeighUnlabelled
    <2> QED
      BY <2>1 DEF Weighed, TypeOK
  <1>5. ASSUME WriteWeights PROVE FALSE
    <2>1. account # "gone" /\ UNCHANGED <<account, er>> /\ \A e \in Erasers : er[e].pc # "gone"
      BY <1>5 DEF WriteWeights
    <2>2. PICK e \in Erasers : er[e].pc = "row"
      BY <2>1
    <2>3. PastMark
      BY <2>2 DEF PastMark
    <2>4. overtaken' = (overtaken \/ PastMark)
      BY <1>5 DEF WriteWeights
    <2>5. overtaken'
      BY <2>3, <2>4
    <2> QED
      BY <2>5 DEF Quiet
  <1>6. ASSUME \A e \in Erasers : ~CommitErase(e)
        PROVE  Weighed' = {} \/ (account' # "gone" /\ StillDeletes')
    <2>1. Weighed' \subseteq Weighed
      BY <1>3, <1>4, <1>5, <1>6, AccountSteps DEF Weighed
    <2>2. CASE account = "gone"
      BY <1>1, <2>1, <2>2 DEF UnweighedAtLast
    <2>3. CASE account # "gone"
      <3>1. account' # "gone"
        BY <1>6, <2>3, AccountSteps
      <3>2. PICK e \in Erasers : er'[e].pc \in {"row", "gone"}
        BY <3>1
      <3>3. er[e].pc \in {"row", "gone"} \/ Weighed = {} \/ DeleteNone(e)
        BY <3>2, RowReached
      <3>4. ASSUME DeleteNone(e) PROVE StillDeletes
        <4>1. er[e].pc # "labels"
          BY <3>2, <3>4, Effects DEF Keeps, At
        <4> QED
          BY <1>1, <3>4, <4>1 DEF DeleteNone, Quiet, StillDeletes
      <3>5. Weighed = {} \/ StillDeletes
        BY <1>1, <3>3, <3>4 DEF UnweighedAtLast
      <3> QED
        BY <1>6, <2>1, <3>1, <3>5, StillDeletesStep
    <2> QED
      BY <2>2, <2>3
  <1> QED
    BY <1>2, <1>6

LEMMA CountsWeights == ASSUME TypeOK, NEW p \in Periods, Counts(p) PROVE Weighed # {}
  <1>1. PICK d \in Covers[p] : weights[d] = "plays"
    BY DEF Counts
  <1>2. d \in Days
    BY ErasureAssumption
  <1> QED
    BY <1>1, <1>2 DEF Weighed

(* A ranking counts the account if one did before, or if it has weights.   *)
LEMMA CountedBefore ==
    ASSUME TypeOK, [Next]_vars, NEW p \in Periods
    PROVE  /\ refresh'[p].counted => refresh[p].counted \/ Weighed # {}
           /\ snapshot'[p].counted => snapshot[p].counted \/ refresh[p].counted
  <1>1. refresh'[p].counted => refresh[p].counted \/ Weighed # {}
    <2>1. ASSUME NEW q \in Periods, NEW k \in Kinds, Rank(q, k)
          PROVE  refresh'[p].counted => refresh[p].counted \/ Weighed # {}
      <3>1. /\ refresh'[q].counted => refresh[q].counted \/ Counts(q)
            /\ p # q => refresh'[p] = refresh[p]
        BY <2>1, Ranked
      <3> QED
        BY <3>1, CountsWeights
    <2>2. ASSUME NEW q \in Periods, DeleteSnapshots(q) \/ CommitSnapshots(q) \/ RefreshFails(q)
          PROVE  refresh'[p].counted => refresh[p].counted
      <3>1. \E r : ~r.counted /\ refresh' = [refresh EXCEPT ![q] = r]
        <4>1. ~NoRefresh.counted
          BY DEF NoRefresh
        <4>2. ~[pc |-> "ranking", left |-> Kinds, counted |-> FALSE].counted
          OBVIOUS
        <4> QED
          BY <2>2, <4>1, <4>2 DEF DeleteSnapshots, CommitSnapshots, RefreshFails
      <3> QED
        BY <3>1 DEF TypeOK
    <2> QED
      BY <2>1, <2>2, RefreshSteps
  <1>2. snapshot'[p].counted => snapshot[p].counted \/ refresh[p].counted
    <2>1. ASSUME NEW e \in Erasers, NEW q \in Periods, MarkRow(e, q)
          PROVE  snapshot'[p].counted <=> snapshot[p].counted
      <3>1. snapshot' = [snapshot EXCEPT ![q].invalidated = TRUE]
        BY <2>1 DEF MarkRow
      <3> QED
        BY <3>1, SnapshotMarked
    <2>2. ASSUME NEW q \in Periods, CommitSnapshots(q)
          PROVE  snapshot'[p].counted => snapshot[p].counted \/ refresh[p].counted
      BY <2>2, SnapshotsCommitted
    <2> QED
      BY <2>1, <2>2, SnapshotSteps
  <1> QED
    BY <1>1, <1>2

(* Whatever a ranking counts is still there, or an eraser knows of it.     *)
LEMMA CountedStep ==
    ASSUME TypeOK, CountedIsKnown, OnlyErasersUnlabel, UnweighedAtLast, [Next]_vars
    PROVE  CountedIsKnown'
  <1> SUFFICES ASSUME NEW p \in Periods, Quiet', account' # "gone",
                      snapshot'[p].counted \/ refresh'[p].counted
               PROVE  Weighed' # {} \/ \E e \in Erasers : er'[e].weighed
    BY DEF CountedIsKnown
  <1>1. Quiet /\ account # "gone" /\ \A e \in Erasers : ~CommitErase(e) /\ ~EraseFails(e)
    <2>1. faults' = faults /\ faults \in 0..MaxFaults
      BY QuietBefore, TypeParts DEF Quiet, OthersTyped
    <2>2. \A e \in Erasers : EraseFails(e) => faults' = faults + 1
      BY DEF EraseFails, Fault
    <2> QED
      BY <2>1, <2>2, QuietBefore, AccountSteps DEF Quiet
  <1>2. Weighed # {} \/ \E e \in Erasers : er[e].weighed
    BY <1>1, CountedBefore DEF CountedIsKnown
  <1>3. ASSUME NEW e \in Erasers, er[e].weighed PROVE er'[e].weighed
    BY <1>1, <1>3, StageKept
  <1>4. CASE Weighed # {}
    <2>1. ASSUME NEW d \in Days, WeighUnlabelled(d) PROVE FALSE
      <3>1. ~PastMark /\ labels # Days
        BY <2>1 DEF WeighUnlabelled, Quiet
      <3>2. PICK e \in Erasers : er[e].pc = "gone"
        BY <1>1, <3>1 DEF OnlyErasersUnlabel, Quiet, Unlabelling, PastMark
      <3> QED
        BY <1>1, <1>4, <3>1, <3>2 DEF UnweighedAtLast, StillDeletes, PastMark
    <2>2. CASE WriteWeights
      <3>1. weigher.day \in Days
        BY <2>2 DEF WriteWeights, TypeOK
      <3>2. weights'[weigher.day] # "none"
        BY <2>2, <3>1 DEF WriteWeights, TypeOK
      <3> QED
        BY <3>1, <3>2 DEF Weighed
    <2>3. ASSUME NEW e \in Erasers, DeleteWeights(e) PROVE er'[e].weighed
      <3>1. At(e, "weights", er[e].marks, TRUE)
        BY <1>4, <2>3, Effects
      <3> QED
        BY <3>1 DEF At
    <2>4. CASE weights' = weights
      BY <1>4, <2>4 DEF Weighed
    <2> QED
      BY <1>1, <2>1, <2>2, <2>3, <2>4, AccountSteps
  <1> QED
    BY <1>2, <1>3, <1>4

IdleCountsNothing == \A p \in Periods : refresh[p].pc = "idle" => ~refresh[p].counted

(* A ranking whose refresh does nothing stays.                             *)
LEMMA RefreshElsewhere ==
    ASSUME TypeOK, [Next]_vars, NEW p \in Periods,
           ~DeleteSnapshots(p), ~CommitSnapshots(p), ~RefreshFails(p), \A k \in Kinds : ~Rank(p, k)
    PROVE  refresh'[p] = refresh[p]
  <1>1. ASSUME NEW q \in Periods, NEW k \in Kinds, Rank(q, k) PROVE refresh'[p] = refresh[p]
    BY <1>1, Ranked
  <1>2. ASSUME NEW q \in Periods, DeleteSnapshots(q) \/ CommitSnapshots(q) \/ RefreshFails(q)
        PROVE  refresh'[p] = refresh[p]
    <2>1. q # p /\ \E r : refresh' = [refresh EXCEPT ![q] = r]
      BY <1>2 DEF DeleteSnapshots, CommitSnapshots, RefreshFails
    <2> QED
      BY <2>1 DEF TypeOK
  <1> QED
    BY <1>1, <1>2, RefreshSteps

LEMMA IdleCountsStep ==
    ASSUME TypeOK, IdleCountsNothing, [Next]_vars
    PROVE  IdleCountsNothing'
  <1> SUFFICES ASSUME NEW p \in Periods, refresh'[p].pc = "idle" PROVE ~refresh'[p].counted
    BY DEF IdleCountsNothing
  <1>1. CASE DeleteSnapshots(p) \/ CommitSnapshots(p) \/ RefreshFails(p)
    <2>1. \E r : ~r.counted /\ refresh' = [refresh EXCEPT ![p] = r]
      <3>1. ~NoRefresh.counted
        BY DEF NoRefresh
      <3>2. ~[pc |-> "ranking", left |-> Kinds, counted |-> FALSE].counted
        OBVIOUS
      <3> QED
        BY <1>1, <3>1, <3>2 DEF DeleteSnapshots, CommitSnapshots, RefreshFails
    <2> QED
      BY <2>1 DEF TypeOK
  <1>2. ASSUME NEW k \in Kinds, Rank(p, k) PROVE FALSE
    BY <1>2, Ranked
  <1>3. CASE refresh'[p] = refresh[p]
    BY <1>3 DEF IdleCountsNothing
  <1> QED
    BY <1>1, <1>2, <1>3, RefreshElsewhere

(* An eraser that holds the account's row stays as it is, but for its own  *)
(* marks and end and a ranking's commit.                                   *)
LEMMA OthersStay ==
    ASSUME TypeOK, [Next]_vars, NEW e \in Erasers, er[e].pc = "gone",
           ~CommitErase(e), ~EraseFails(e), ~(\E q \in Periods : MarkRow(e, q) \/ CommitSnapshots(q))
    PROVE  er'[e] = er[e]
  <1>1. ASSUME NEW f \in Erasers, f # e, NEW s, NEW m, NEW w, At(f, s, m, w) PROVE er'[e] = er[e]
    BY <1>1 DEF At
  <1>2. ASSUME NEW f \in Erasers, ClaimDue(f) \/ MarkErasing(f) PROVE er'[e] = er[e]
    <2>1. f # e /\ Keeps(f, "lock")
      BY <1>2, Effects DEF ClaimDue, MarkErasing, Begin
    <2> QED
      BY <1>1, <2>1 DEF Keeps
  <1>3. ASSUME NEW f \in Erasers, Erase(f) PROVE er'[e] = er[e]
    <2>1. CASE f = e
      BY <1>3, <2>1 DEF Erase, LockAggregates, EraseChunk, CleanAggregates, Mark, Marked, DeleteLabels,
                        DeleteWeights, DeleteNone, DeleteRow
    <2>2. CASE f # e
      <3>1. CASE EraseChunk(f)
        BY <3>1 DEF EraseChunk
      <3>2. CASE LockAggregates(f) \/ CleanAggregates(f) \/ Marked(f)
        BY <1>1, <2>2, <3>2, Effects DEF Keeps
      <3>3. CASE Mark(f)
        BY <1>1, <2>2, <3>3, Effects DEF Keeps
      <3>4. ASSUME NEW p \in Periods, MarkRow(f, p) PROVE er'[e] = er[e]
        BY <1>1, <2>2, <3>4, Effects
      <3>5. CASE DeleteLabels(f)
        <4>1. er' = er \/ Keeps(f, "weights")
          BY <3>5, Effects
        <4> QED
          BY <1>1, <2>2, <4>1 DEF Keeps
      <3>6. CASE DeleteWeights(f)
        <4>1. Keeps(f, "row") \/ At(f, "weights", er[f].marks, TRUE)
          BY <3>6, Effects
        <4> QED
          BY <1>1, <2>2, <4>1 DEF Keeps
      <3>9. CASE DeleteNone(f)
        <4>1. Keeps(f, "weights") \/ Keeps(f, "row")
          BY <3>9, Effects
        <4> QED
          BY <1>1, <2>2, <4>1 DEF Keeps
      <3>7. CASE DeleteRow(f) \/ CommitErase(f)
        BY <1>1, <2>2, <3>7, Effects
      <3> QED
        BY <1>3, <3>1, <3>2, <3>3, <3>4, <3>5, <3>6, <3>9, <3>7 DEF Erase
    <2> QED
      BY <2>1, <2>2
  <1>4. ASSUME NEW f \in Erasers, EraseFails(f) PROVE er'[e] = er[e]
    BY <1>1, <1>4, Effects
  <1>5. ASSUME NEW p \in Periods, DeleteSnapshots(p) \/ RefreshFails(p) \/ \E k \in Kinds : Rank(p, k)
        PROVE  er'[e] = er[e]
    BY <1>5 DEF DeleteSnapshots, RefreshFails, Rank
  <1>6. ASSUME NEW d \in Days, WeighUnlabelled(d) \/ ReadPlays(d) PROVE er'[e] = er[e]
    BY <1>6 DEF WeighUnlabelled, ReadPlays
  <1>7. ASSUME Schedule \/ Restore \/ LeaseExpires \/ PolicyReads \/ PolicyWrites \/ Weigh
               \/ UNCHANGED vars
        PROVE  er'[e] = er[e]
    BY <1>7 DEF Schedule, Restore, LeaseExpires, PolicyReads, PolicyWrites, Weigh, WriteWeights,
                WeighingRejected, vars
  <1> QED
    BY <1>2, <1>3, <1>4, <1>5, <1>6, <1>7 DEF Next, Refresh

(* An eraser at its commit that has p behind it had it behind it, or       *)
(* marked p, or p was exchanged while it waited.                           *)
LEMMA BehindBefore ==
    ASSUME TypeOK, [Next]_vars, NEW e \in Erasers, NEW p \in Periods,
           er'[e].pc = "gone", er'[e].weighed, p \notin er'[e].marks
    PROVE  /\ er[e].pc = "gone" /\ er[e].weighed
           /\ p \notin er[e].marks \/ CommitSnapshots(p) \/ MarkRow(e, p)
  <1> DEFINE P == /\ er[e].pc = "gone" /\ er[e].weighed
                  /\ p \notin er[e].marks \/ CommitSnapshots(p) \/ MarkRow(e, p)
  <1>1. ASSUME er'[e] = er[e] PROVE P
    BY <1>1
  <1>2. ASSUME NEW f \in Erasers, f # e, NEW s, NEW m, NEW w, At(f, s, m, w) PROVE P
    BY <1>1, <1>2 DEF At
  <1>3. ASSUME NEW s, NEW m, NEW w, At(e, s, m, w), s # "gone" PROVE P
    BY <1>3 DEF At
  <1> HIDE DEF P
  <1>4. CASE er[e].pc = "gone"
    <2>1. \A f \in Erasers : f # e => ~DeleteRow(f)
      BY <1>4 DEF DeleteRow
    <2>2. ASSUME NEW q \in Periods, MarkRow(e, q) PROVE P
      <3>1. At(e, er[e].pc, er[e].marks \ {q}, er[e].weighed)
        BY <2>2, Effects
      <3>2. er[e].weighed /\ p \notin er[e].marks \ {q}
        BY <3>1 DEF At
      <3> QED
        BY <1>4, <2>2, <3>2 DEF P
    <2>3. ASSUME NEW q \in Periods, CommitSnapshots(q) PROVE P
      <3>1. er'[e].marks = er[e].marks \ {q} /\ (er'[e].weighed <=> er[e].weighed)
        BY <2>3, CommitEffects
      <3> QED
        BY <1>4, <2>3, <3>1 DEF P
    <2>4. ASSUME ~(\E q \in Periods : MarkRow(e, q) \/ CommitSnapshots(q)) PROVE P
      <3>1. CASE CommitErase(e) \/ EraseFails(e)
        BY <1>3, <3>1, Effects
      <3>2. ASSUME ~CommitErase(e), ~EraseFails(e) PROVE er'[e] = er[e]
        BY <1>4, <2>4, <3>2, OthersStay
      <3> QED
        BY <1>1, <3>1, <3>2
    <2> QED
      BY <2>2, <2>3, <2>4 DEF P
  <1>5. CASE er[e].pc # "gone"
    <2>1. DeleteRow(e)
      BY <1>5, RowReached
    <2>2. At(e, "gone", IF er[e].weighed THEN Periods ELSE {}, er[e].weighed)
      BY <2>1, Effects
    <2> QED
      BY <2>2 DEF At
  <1> QED
    BY <1>4, <1>5 DEF P

LEMMA BehindStep ==
    ASSUME TypeOK, MarkedBehind, IdleCountsNothing, [Next]_vars
    PROVE  MarkedBehind'
  <1> SUFFICES ASSUME NEW e \in Erasers, NEW p \in Periods,
                      er'[e].pc = "gone", er'[e].weighed, p \notin er'[e].marks
               PROVE  refresh'[p].pc = "idle" /\ Settled(p)'
    BY DEF MarkedBehind
  <1>1. er[e].pc = "gone" /\ er[e].weighed
        /\ (p \notin er[e].marks \/ CommitSnapshots(p) \/ MarkRow(e, p))
    BY BehindBefore
  <1>2. ASSUME NEW f \in Erasers, MarkRow(f, p) PROVE refresh'[p].pc = "idle" /\ Settled(p)'
    <2>1. snapshot' = [snapshot EXCEPT ![p].invalidated = TRUE] /\ refresh' = refresh
          /\ refresh[p].pc = "idle"
      BY <1>2 DEF MarkRow
    <2>2. snapshot'[p].invalidated
      BY <2>1, SnapshotMarked
    <2> QED
      BY <2>1, <2>2 DEF Settled, IdleCountsNothing
  <1>3. ASSUME CommitSnapshots(p), p \in er[e].marks PROVE refresh'[p].pc = "idle" /\ Settled(p)'
    BY <1>1, <1>3, SnapshotsCommitted DEF Settled
  <1>4. ASSUME p \notin er[e].marks, \A f \in Erasers : ~MarkRow(f, p)
        PROVE  refresh'[p].pc = "idle" /\ Settled(p)'
    <2>1. refresh[p].pc = "idle" /\ Settled(p) /\ HeldByUpdate(p)
      BY <1>1, <1>4 DEF MarkedBehind, HeldByUpdate, Marking
    <2>2. ~DeleteSnapshots(p) /\ ~CommitSnapshots(p) /\ ~RefreshFails(p)
          /\ \A k \in Kinds : ~Rank(p, k)
      BY <2>1 DEF DeleteSnapshots, CommitSnapshots, RefreshFails, Rank
    <2>3. refresh'[p] = refresh[p]
      BY <2>2, RefreshElsewhere
    <2>4. snapshot'[p] = snapshot[p]
      <3>1. ASSUME NEW f \in Erasers, NEW q \in Periods, MarkRow(f, q) PROVE snapshot'[p] = snapshot[p]
        <4>1. q # p /\ snapshot' = [snapshot EXCEPT ![q].invalidated = TRUE]
          BY <1>4, <3>1 DEF MarkRow
        <4> QED
          BY <4>1, SnapshotMarked
      <3>2. ASSUME NEW q \in Periods, CommitSnapshots(q) PROVE snapshot'[p] = snapshot[p]
        BY <2>2, <3>2, SnapshotsCommitted
      <3> QED
        BY <3>1, <3>2, SnapshotSteps
    <2> QED
      BY <2>1, <2>3, <2>4 DEF Settled
  <1> QED
    BY <1>1, <1>2, <1>3, <1>4

(* With the erase committed, its marks are settled.                        *)
LEMMA AtLastStep ==
    ASSUME TypeOK, MarksInv, IdleCountsNothing, [Next]_vars
    PROVE  MarkedAtLast'
  <1> SUFFICES ASSUME Quiet', account' = "gone", \A e \in Erasers : ~er'[e].weighed, NEW p \in Periods
               PROVE  Settled(p)'
    BY DEF MarkedAtLast
  <1>1. Quiet
    BY QuietBefore DEF Quiet
  <1>2. ASSUME NEW e \in Erasers, CommitErase(e) PROVE Settled(p)'
    <2>1. er[e].pc = "gone" /\ er[e].marks = {} /\ UNCHANGED <<snapshot, refresh>>
          /\ er' = [er EXCEPT ![e] = AtRest]
      BY <1>2 DEF CommitErase
    <2>2. CASE er[e].weighed
      BY <2>1, <2>2 DEF MarksInv, MarkedBehind, Settled
    <2>3. CASE ~er[e].weighed
      <3>1. At(e, "idle", {}, FALSE)
        BY <1>2, Effects
      <3>2. \A f \in Erasers : ~er[f].weighed
        BY <2>3, <3>1 DEF At
      <3>3. CASE account = "gone"
        BY <1>1, <2>1, <3>2, <3>3 DEF MarksInv, MarkedAtLast, Settled
      <3>4. CASE account # "gone"
        <4>1. Weighed = {}
          BY <1>1, <2>1, <3>2 DEF MarksInv, UnweighedAtLast, StillDeletes
        <4>2. ~snapshot[p].counted /\ ~refresh[p].counted
          BY <1>1, <3>2, <3>4, <4>1 DEF MarksInv, CountedIsKnown
        <4> QED
          BY <2>1, <4>2 DEF Settled
      <3> QED
        BY <3>3, <3>4
    <2> QED
      BY <2>2, <2>3
  <1>3. ASSUME \A e \in Erasers : ~CommitErase(e) PROVE Settled(p)'
    <2>1. account = "gone" /\ \A e \in Erasers : ~EraseFails(e)
      <3>1. faults' = faults /\ faults \in 0..MaxFaults
        BY QuietBefore, TypeParts DEF Quiet, OthersTyped
      <3>2. \A e \in Erasers : EraseFails(e) => faults' = faults + 1
        BY DEF EraseFails, Fault
      <3> QED
        BY <1>3, <3>1, <3>2, AccountSteps
    <2>2. \A e \in Erasers : ~er[e].weighed
      BY <1>3, <2>1, StageKept
    <2>3. Settled(p) /\ Weighed = {}
      BY <1>1, <2>1, <2>2 DEF MarksInv, MarkedAtLast, UnweighedAtLast
    <2>4. ~refresh'[p].counted
      BY <2>3, CountedBefore DEF Settled
    <2>5. ASSUME NEW e \in Erasers, NEW q \in Periods, MarkRow(e, q)
          PROVE  snapshot'[p].invalidated \/ snapshot'[p] = snapshot[p]
      <3>1. snapshot' = [snapshot EXCEPT ![q].invalidated = TRUE]
        BY <2>5 DEF MarkRow
      <3> QED
        BY <3>1, SnapshotMarked
    <2>6. ASSUME NEW q \in Periods, CommitSnapshots(q)
          PROVE  ~snapshot'[p].counted \/ snapshot'[p] = snapshot[p]
      BY <2>3, <2>6, SnapshotsCommitted DEF Settled
    <2>7. ~snapshot'[p].counted \/ snapshot'[p].invalidated \/ snapshot'[p] = snapshot[p]
      BY <2>5, <2>6, SnapshotSteps
    <2> QED
      BY <2>3, <2>4, <2>7 DEF Settled
  <1> QED
    BY <1>2, <1>3

LEMMA MarksInit == ASSUME Init PROVE MarksInv /\ IdleCountsNothing
  <1>1. /\ account = "here" /\ labels = Days
        /\ er = [e \in Erasers |-> AtRest] /\ refresh = [p \in Periods |-> NoRefresh]
    BY Zenon DEF Init
  <1>2. \A e \in Erasers : er[e].pc = "idle"
    BY <1>1 DEF AtRest
  <1>3. \A p \in Periods : ~refresh[p].counted
    BY <1>1 DEF NoRefresh
  <1>4. \A p \in Periods : snapshot[p].counted => Counts(p)
    <2> DEFINE r(p) == [counted |-> Counts(p), invalidated |-> FALSE, passed |-> FALSE]
    <2>1. \A p \in Periods : Counts(p) \in BOOLEAN
      BY DEF Counts
    <2>2. \A b \in BOOLEAN : [counted |-> b, invalidated |-> FALSE, passed |-> FALSE].counted <=> b
      OBVIOUS
    <2>3. \A p \in Periods : r(p).counted <=> Counts(p)
      BY <2>1, <2>2, Zenon
    <2>4. snapshot = [p \in Periods |-> r(p)]
      BY DEF Init
    <2> HIDE DEF r
    <2> QED
      BY <2>3, <2>4
  <1> QED
    BY <1>1, <1>2, <1>3, <1>4, TypeInit, CountsWeights
    DEF MarksInv, OnlyErasersUnlabel, UnweighedAtLast, CountedIsKnown, MarkedBehind, MarkedAtLast,
        IdleCountsNothing

LEMMA MarksStep ==
    ASSUME TypeOK, MarksInv, IdleCountsNothing, [Next]_vars
    PROVE  MarksInv' /\ IdleCountsNothing'
  BY UnlabelStep, UnweighedStep, CountedStep, BehindStep, AtLastStep, IdleCountsStep DEF MarksInv

(* A ranking that counts an erased account is marked for a refresh, or was *)
(* exchanged while the last UPDATE waited for it, as long as no erase      *)
(* failed and no weigher came between.                                     *)
THEOREM ErasureIsMarked == Spec => []MarkedUnlessPassed
  <1>1. ASSUME TypeOK, MarksInv PROVE MarkedUnlessPassed
    BY <1>1 DEF MarksInv, MarkedAtLast, Settled, Quiet, MarkedUnlessPassed, Unmarked
  <1> QED
    BY <1>1, MarksInit, MarksStep, TypeCorrect, PTL DEF Spec
=============================================================================
