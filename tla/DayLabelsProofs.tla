--------------------------- MODULE DayLabelsProofs ---------------------------
(* Theorems about DayLabels, for every value of its constants.             *)
EXTENDS DayLabels, FiniteSetTheorems, TLAPS

USE DEF scrobbleVars, labelVars, weightVars, deployVars

Working(c) == cl[c].pc # "idle"

(***************************************************************************)
(* What the steps of a classifier do, field by field.                      *)
(***************************************************************************)
OthersRest(c) == \A e \in Classifiers \ {c} : cl'[e] = cl[e]

LEMMA ReadDayFacts ==
  ASSUME TypeOK, NEW c \in Classifiers, ReadDay(c)
  PROVE  \E d \in cl[c].todo :
            /\ ~Working(c) /\ ~Locked(d)
            /\ cl'[c].pc = "read" /\ cl'[c].day = d /\ cl'[c].todo = cl[c].todo \ {d}
            /\ cl'[c].rows = On(d, Stored) \cup TailOf(d - 1, Stored)
            /\ cl' \in [Classifiers -> Classifications] /\ OthersRest(c)
            /\ UNCHANGED <<scrobbleVars, queue, labels, weightVars, deployVars>>
  <1>1. PICK d \in cl[c].todo :
            /\ ~Locked(d)
            /\ cl' = [cl EXCEPT ![c].pc = "read",
                            ![c].todo = @ \ {d},
                            ![c].day = d,
                            ![c].rows = On(d, Stored) \cup TailOf(d - 1, Stored),
                            ![c].noData = On(d, Stored) \ Lengths]
    BY DEF ReadDay
  <1> DEFINE rows == On(d, Stored) \cup TailOf(d - 1, Stored)
             none == On(d, Stored) \ Lengths
             left == cl[c].todo \ {d}
             m == [cl[c] EXCEPT !.pc = "read", !.todo = left, !.day = d, !.rows = rows,
                                !.noData = none]
  <1>2. cl[c] \in Classifications /\ d \in Days
    BY DEF TypeOK, Classifications
  <1>3. d \in 0..LastDay /\ left \in SUBSET Days /\ rows \in SUBSET Plays /\ none \in SUBSET Plays
    BY <1>2, LabelsAssumption DEF Days, On, TailOf, Stored, Classifications
  <1>4. cl' = [cl EXCEPT ![c] = m]
    BY <1>1 DEF TypeOK
  <1> HIDE DEF rows, none, left
  <1>5. /\ m \in Classifications /\ m.pc = "read" /\ m.day = d /\ m.todo = left
        /\ m.rows = rows
    BY <1>2, <1>3 DEF Classifications
  <1> HIDE DEF m
  <1>6. cl'[c] = m /\ OthersRest(c) /\ cl' \in [Classifiers -> Classifications]
    BY <1>4, <1>5 DEF TypeOK, OthersRest
  <1> QED
    BY <1>1, <1>5, <1>6 DEF ReadDay, Working, rows, left

LEMMA WriteDayFacts ==
  ASSUME TypeOK, NEW c \in Classifiers, WriteDay(c)
  PROVE  /\ cl[c].pc = "read" /\ cl'[c].pc = "written"
         /\ cl'[c].day = cl[c].day /\ cl'[c].todo = cl[c].todo /\ cl'[c].rows = cl[c].rows
         /\ cl'[c].wasQueued = (cl[c].day \in rankQueue)
         /\ cl'[c].queuesNext = (TailMoved(cl[c].day, cl[c].rows) /\ cl[c].day + 1 \notin queue)
         /\ cl' \in [Classifiers -> Classifications] /\ OthersRest(c)
         /\ UNCHANGED <<scrobbleVars, queue, labels, weightVars, deployVars>>
  <1> DEFINE was == cl[c].day \in rankQueue
             moved == TailMoved(cl[c].day, cl[c].rows) /\ cl[c].day + 1 \notin queue
             m == [cl[c] EXCEPT !.pc = "written", !.wasQueued = was, !.queuesNext = moved]
  <1>1. cl[c] \in Classifications
    BY DEF TypeOK
  <1>2. was \in BOOLEAN /\ moved \in BOOLEAN
    BY DEF TailMoved
  <1>3. cl' = [cl EXCEPT ![c] = m]
    BY DEF TypeOK, WriteDay
  <1> HIDE DEF was, moved
  <1>4. /\ m \in Classifications /\ m.pc = "written" /\ m.day = cl[c].day
        /\ m.todo = cl[c].todo /\ m.rows = cl[c].rows /\ m.wasQueued = was /\ m.queuesNext = moved
    BY <1>1, <1>2 DEF Classifications
  <1> HIDE DEF m
  <1>5. cl'[c] = m /\ OthersRest(c) /\ cl' \in [Classifiers -> Classifications]
    BY <1>3, <1>4 DEF TypeOK, OthersRest
  <1> QED
    BY <1>4, <1>5 DEF WriteDay, was, moved

(* A classifier put back to rest, perhaps with days left to do.            *)
LEMMA RestFacts ==
  ASSUME TypeOK, NEW c \in Classifiers, NEW left \in SUBSET Days,
         cl' = [cl EXCEPT ![c] = [AtRest EXCEPT !.todo = left]]
  PROVE  /\ cl'[c].pc = "idle" /\ cl'[c].todo = left
         /\ cl' \in [Classifiers -> Classifications] /\ OthersRest(c)
  <1> DEFINE m == [AtRest EXCEPT !.todo = left]
  <1>0. 0 \in 0..LastDay
    BY LabelsAssumption
  <1>1. m \in Classifications /\ m.pc = "idle" /\ m.todo = left
    BY <1>0 DEF AtRest, Classifications
  <1> HIDE DEF m
  <1>2. cl' = [cl EXCEPT ![c] = m]
    BY DEF m
  <1> QED
    BY <1>1, <1>2 DEF TypeOK, OthersRest

LEMMA CommitDayFacts ==
  ASSUME TypeOK, NEW c \in Classifiers, CommitDay(c)
  PROVE  /\ cl[c].pc = "written" /\ cl'[c].pc = "idle" /\ cl'[c].todo = cl[c].todo
         /\ cl' \in [Classifiers -> Classifications] /\ OthersRest(c)
  <1>1. cl[c].todo \in SUBSET Days
    BY DEF TypeOK, Classifications
  <1>2. cl' = [cl EXCEPT ![c] = [AtRest EXCEPT !.todo = cl[c].todo]]
    BY DEF CommitDay
  <1> QED
    BY <1>1, <1>2, RestFacts DEF CommitDay

LEMMA ClassifyFailsFacts ==
  ASSUME TypeOK, NEW c \in Classifiers, ClassifyFails(c)
  PROVE  /\ Working(c) /\ cl'[c].pc = "idle" /\ faults' = faults + 1 /\ faults < MaxFaults
         /\ queue' = queue \/ queue' = queue \cup {cl[c].day}
         /\ cl' \in [Classifiers -> Classifications] /\ OthersRest(c)
         /\ UNCHANGED <<scrobbleVars, labels, weightVars, ruleset, commands>>
  <1>1. cl[c].todo \in SUBSET Days
    BY DEF TypeOK, Classifications
  <1>2. AtRest = [AtRest EXCEPT !.todo = {}]
    BY DEF AtRest
  <1>3. \E left \in SUBSET Days : cl' = [cl EXCEPT ![c] = [AtRest EXCEPT !.todo = left]]
    BY <1>1, <1>2 DEF ClassifyFails
  <1> QED
    BY <1>3, RestFacts DEF ClassifyFails, Working, Fault

(* A classifier at rest takes days to classify.                            *)
LEMMA TakeDaysFacts ==
  ASSUME TypeOK, NEW c \in Classifiers, NEW due \in SUBSET Days, cl' = [cl EXCEPT ![c].todo = due]
  PROVE  /\ cl'[c].pc = cl[c].pc /\ cl'[c].day = cl[c].day /\ cl'[c].rows = cl[c].rows
         /\ cl'[c].queuesNext = cl[c].queuesNext /\ cl'[c].todo = due
         /\ cl' \in [Classifiers -> Classifications] /\ OthersRest(c)
  <1> DEFINE m == [cl[c] EXCEPT !.todo = due]
  <1>1. /\ m \in Classifications /\ m.pc = cl[c].pc /\ m.day = cl[c].day /\ m.rows = cl[c].rows
        /\ m.queuesNext = cl[c].queuesNext /\ m.todo = due
    BY DEF TypeOK, Classifications
  <1>2. cl' = [cl EXCEPT ![c] = m]
    BY DEF TypeOK
  <1> HIDE DEF m
  <1> QED
    BY <1>1, <1>2 DEF TypeOK, OthersRest

LEMMA RestartFacts ==
  ASSUME TypeOK, Restart
  PROVE  /\ cl'[Worker].pc = "idle"
         /\ cl' \in [Classifiers -> Classifications] /\ OthersRest(Worker)
         /\ wg' \in Weighings /\ wg'.pc = "idle" /\ wg'.day = 0
         /\ faults' = faults + 1 /\ faults < MaxFaults
  <1>1. AtRest = [AtRest EXCEPT !.todo = {}] /\ Worker \in Classifiers
    BY DEF AtRest, Classifiers
  <1>2. cl' = [cl EXCEPT ![Worker] = [AtRest EXCEPT !.todo = {}]]
    BY <1>1 DEF Restart
  <1>3. wg' = WeigherAtRest /\ 0 \in 0..LastDay /\ 0 \in 0..Rulesets
    BY LabelsAssumption DEF Restart
  <1>4. WeigherAtRest \in Weighings
    BY <1>3 DEF WeigherAtRest, Weighings, NoLabels, Labels
  <1>5. WeigherAtRest.pc = "idle" /\ WeigherAtRest.day = 0
    BY DEF WeigherAtRest
  <1>6. /\ cl'[Worker].pc = "idle"
        /\ cl' \in [Classifiers -> Classifications] /\ OthersRest(Worker)
    <2>1. Worker \in Classifiers /\ {} \in SUBSET Days
      BY DEF Classifiers
    <2> HIDE DEF Worker
    <2> QED
      BY <1>2, <2>1, RestFacts
  <1> QED
    BY <1>3, <1>4, <1>5, <1>6 DEF Restart, Fault

-----------------------------------------------------------------------------
(* Types.  A transaction is about a day, and has read stored scrobbles.    *)
InHand ==
    /\ \A c \in Classifiers :
         /\ Working(c) => cl[c].day \in Days /\ cl[c].rows \subseteq Stored
         /\ cl[c].pc = "written" /\ cl[c].queuesNext => cl[c].day + 1 \in Days
    /\ wg.pc # "idle" => wg.day \in Days

LEMMA RowTypes ==
  ASSUME TypeOK, NEW c \in Classifiers
  PROVE  DayRow(c) \in Labels
  <1>1. cl[c].rows \in SUBSET Plays /\ cl[c].noData \in SUBSET Plays /\ ruleset \in 0..Rulesets
    BY DEF TypeOK, Classifications
  <1>2. NoLabels \in Labels
    BY LabelsAssumption DEF NoLabels, Labels
  <1>3. On(cl[c].day, cl[c].rows) \in SUBSET Plays
    BY <1>1 DEF On
  <1> QED
    BY <1>1, <1>2, <1>3 DEF DayRow, Labels

LEMMA WeightsTypes ==
  ASSUME TypeOK, NEW d, NEW l \in Labels, NEW fresh \in BOOLEAN
  PROVE  WeightsRow(d, l, fresh) \in Weights
  <1>1. ruleset \in 0..Rulesets /\ 0 \in 0..Rulesets
    BY LabelsAssumption DEF TypeOK
  <1>2. {p \in On(d, Stored) : UpToMaxId(p, l.seen)} \in SUBSET Plays
    BY DEF On, Stored
  <1> QED
    BY <1>1, <1>2 DEF WeightsRow, Weights, NoWeights

(* Steps of ingest, enrichment, the sweeps and the refresh.                *)
LEMMA StoringType ==
  ASSUME TypeOK, InHand, UNCHANGED <<labels, cl, weights, wg, ruleset, commands>>,
         serial' \in Nat, ids' \in [Plays -> Nat],
         stage' \in [Plays -> {"new", "open", "stored", "told"}],
         Stored \subseteq Stored', measured' \in [Lengthless -> {"none", "set", "told"}],
         activity' \in [Days -> SUBSET Plays], queue' \subseteq Days, rankQueue' \subseteq Days,
         faults' \in 0..MaxFaults
  PROVE  TypeOK' /\ InHand'
  <1>1. \A d \in Days : labels'[d].seen \subseteq On(d, Stored')
    BY DEF TypeOK, On
  <1>2. TypeOK'
    BY <1>1 DEF TypeOK, On, Stored
  <1>3. InHand'
    BY DEF InHand, Working
  <1> QED
    BY <1>2, <1>3

LEMMA StoredGrows ==
  ASSUME TypeOK, NEW p \in Plays, NEW s \in {"open", "stored", "told"},
         stage' = [stage EXCEPT ![p] = s],
         stage[p] = "new" \/ s # "open"
  PROVE  /\ stage' \in [Plays -> {"new", "open", "stored", "told"}]
         /\ Stored \subseteq Stored'
  <1>1. \A q \in Plays : stage'[q] = IF q = p THEN s ELSE stage[q]
    BY DEF TypeOK
  <1>2. stage' \in [Plays -> {"new", "open", "stored", "told"}]
    BY DEF TypeOK
  <1> QED
    BY <1>1, <1>2 DEF Stored

LEMMA TypeStep ==
  ASSUME TypeOK, InHand, [Next]_vars
  PROVE  TypeOK' /\ InHand'
  <1>f. Fault => faults' \in 0..MaxFaults
    BY LabelsAssumption DEF Fault, TypeOK
  <1>d. \A p \in Plays : DayOf[p] \in Days
    BY LabelsAssumption
  <1>1. ASSUME NEW p \in Plays, Ingest(p) \/ Import(p)
        PROVE  TypeOK' /\ InHand'
    <2>1. TakeId(p)
      BY <1>1 DEF Ingest, Import
    <2>2. stage' \in [Plays -> {"new", "open", "stored", "told"}] /\ Stored \subseteq Stored'
      BY <2>1, StoredGrows DEF TakeId
    <2>3. serial' \in Nat /\ ids' \in [Plays -> Nat]
      BY <2>1 DEF TakeId, TypeOK
    <2> QED
      BY <2>1, <2>2, <2>3, StoringType DEF TakeId, TypeOK
  <1>2. ASSUME NEW p \in Plays, Commit(p) \/ MarkDirty(p) \/ MarkLost(p)
        PROVE  TypeOK' /\ InHand'
    <2>1. stage' \in [Plays -> {"new", "open", "stored", "told"}] /\ Stored \subseteq Stored'
      BY <1>2, StoredGrows DEF Commit, MarkDirty, MarkLost
    <2>2. queue' \subseteq Days
      BY <1>2, <1>d DEF Commit, MarkDirty, MarkLost, TypeOK
    <2>3. faults' \in 0..MaxFaults
      BY <1>2, <1>f DEF Commit, MarkDirty, MarkLost, TypeOK
    <2> QED
      BY <1>2, <2>1, <2>2, <2>3, StoringType DEF Commit, MarkDirty, MarkLost, TypeOK
  <1>3. ASSUME NEW p \in Plays, LengthSet(p) \/ LengthTold(p)
        PROVE  TypeOK' /\ InHand'
    <2>1. measured' \in [Lengthless -> {"none", "set", "told"}]
      BY <1>3 DEF LengthSet, LengthTold, TypeOK
    <2>2. queue' \subseteq Days
      BY <1>3, <1>d DEF LengthSet, LengthTold, TypeOK
    <2>3. Stored \subseteq Stored'
      BY <1>3 DEF LengthSet, LengthTold, Stored
    <2> QED
      BY <1>3, <2>1, <2>2, <2>3, StoringType DEF LengthSet, LengthTold, TypeOK
  <1>4. ASSUME NEW d \in Days, RefreshActivity(d)
        PROVE  TypeOK' /\ InHand'
    <2>1. On(d, Stored) \in SUBSET Plays /\ Stored \subseteq Stored'
      BY <1>4 DEF On, Stored, RefreshActivity
    <2>2. activity' \in [Days -> SUBSET Plays]
      BY <1>4, <2>1 DEF RefreshActivity, TypeOK
    <2> QED
      BY <1>4, <2>1, <2>2, StoringType DEF RefreshActivity, TypeOK
  <1>5. CASE Sweep \/ SweepWeights
    <2>1. Stale \subseteq Days /\ Unweighed \subseteq Days /\ (Stored \subseteq Stored')
      BY <1>5 DEF Stale, Unweighed, Sweep, SweepWeights, Stored
    <2> QED
      BY <1>5, <2>1, StoringType DEF Sweep, SweepWeights, TypeOK
  <1>6. ASSUME NEW c \in Classifiers, ReadDay(c)
        PROVE  TypeOK' /\ InHand'
    <2>1. PICK d \in cl[c].todo :
            /\ cl'[c].pc = "read" /\ cl'[c].day = d
            /\ cl'[c].rows = On(d, Stored) \cup TailOf(d - 1, Stored)
            /\ cl' \in [Classifiers -> Classifications] /\ OthersRest(c)
            /\ UNCHANGED <<scrobbleVars, queue, labels, weightVars, deployVars>>
      BY <1>6, ReadDayFacts
    <2>2. d \in Days /\ cl'[c].rows \subseteq Stored
      BY <2>1 DEF TypeOK, Classifications, On, TailOf
    <2>3. TypeOK'
      BY <2>1 DEF TypeOK, On, Stored
    <2>4. InHand'
      BY <2>1, <2>2 DEF InHand, Working, OthersRest, Stored
    <2> QED
      BY <2>3, <2>4
  <1>7. ASSUME NEW c \in Classifiers, WriteDay(c)
        PROVE  TypeOK' /\ InHand'
    <2>1. /\ cl[c].pc = "read" /\ cl'[c].pc = "written"
          /\ cl'[c].day = cl[c].day /\ cl'[c].rows = cl[c].rows
          /\ cl'[c].queuesNext = (TailMoved(cl[c].day, cl[c].rows) /\ cl[c].day + 1 \notin queue)
          /\ cl' \in [Classifiers -> Classifications] /\ OthersRest(c)
          /\ UNCHANGED <<scrobbleVars, queue, labels, weightVars, deployVars>>
      BY <1>7, WriteDayFacts
    <2>2. cl'[c].queuesNext => cl[c].day + 1 \in Days
      BY <2>1 DEF TailMoved
    <2>3. TypeOK'
      BY <2>1 DEF TypeOK, On, Stored
    <2>4. InHand'
      BY <2>1, <2>2 DEF InHand, Working, OthersRest, Stored
    <2> QED
      BY <2>3, <2>4
  <1>8. ASSUME NEW c \in Classifiers, CommitDay(c)
        PROVE  TypeOK' /\ InHand'
    <2> DEFINE d == cl[c].day
    <2>1. /\ cl[c].pc = "written" /\ cl'[c].pc = "idle"
          /\ cl' \in [Classifiers -> Classifications] /\ OthersRest(c)
      BY <1>8, CommitDayFacts
    <2>2. d \in Days /\ cl[c].rows \subseteq Stored /\ (cl[c].queuesNext => d + 1 \in Days)
      BY <2>1 DEF InHand, Working
    <2>3. labels' = [labels EXCEPT ![d] = DayRow(c)] /\ DayRow(c) \in Labels
      BY <1>8, RowTypes DEF CommitDay
    <2>4. DayRow(c).seen \subseteq On(d, Stored)
      BY <2>2 DEF DayRow, NoLabels, On
    <2>5. labels' \in [Days -> Labels] /\ \A k \in Days : labels'[k].seen \subseteq On(k, Stored)
      BY <2>2, <2>3, <2>4 DEF TypeOK
    <2>6. weights' \in [Days -> Weights]
      BY <1>8, <2>2 DEF CommitDay, TypeOK, Weights
    <2>7. wg' \in Weighings /\ wg'.pc = wg.pc /\ wg'.day = wg.day
      BY <1>8 DEF CommitDay, TypeOK, Weighings
    <2>8. queue' \subseteq Days /\ rankQueue' \subseteq Days
      BY <1>8, <2>2 DEF CommitDay, QueueNext, TypeOK
    <2>9. UNCHANGED <<scrobbleVars, deployVars>>
      BY <1>8 DEF CommitDay
    <2>10. TypeOK'
      BY <2>1, <2>5, <2>6, <2>7, <2>8, <2>9 DEF TypeOK, On, Stored
    <2>11. InHand'
      BY <2>1, <2>7, <2>9 DEF InHand, Working, OthersRest, Stored
    <2> QED
      BY <2>10, <2>11
  <1>9. ASSUME NEW c \in Classifiers, ClassifyFails(c)
        PROVE  TypeOK' /\ InHand'
    <2>1. /\ Working(c) /\ cl'[c].pc = "idle" /\ faults' \in 0..MaxFaults
          /\ queue' = queue \/ queue' = queue \cup {cl[c].day}
          /\ cl' \in [Classifiers -> Classifications] /\ OthersRest(c)
          /\ UNCHANGED <<scrobbleVars, labels, weightVars, ruleset, commands>>
      BY <1>9, ClassifyFailsFacts, LabelsAssumption DEF TypeOK
    <2>2. queue' \subseteq Days
      BY <2>1 DEF TypeOK, InHand
    <2>3. TypeOK'
      BY <2>1, <2>2 DEF TypeOK, On, Stored
    <2>4. InHand'
      BY <2>1 DEF InHand, Working, OthersRest, Stored
    <2> QED
      BY <2>3, <2>4
  <1>10. ASSUME NEW c \in Classifiers, NEW due \in SUBSET Days, cl' = [cl EXCEPT ![c].todo = due],
                queue' \subseteq Days, commands' \in 0..MaxCommands,
                UNCHANGED <<scrobbleVars, labels, weightVars, ruleset, faults>>
         PROVE  TypeOK' /\ InHand'
    <2>1. /\ cl'[c].pc = cl[c].pc /\ cl'[c].day = cl[c].day /\ cl'[c].rows = cl[c].rows
          /\ cl'[c].queuesNext = cl[c].queuesNext
          /\ cl' \in [Classifiers -> Classifications] /\ OthersRest(c)
      BY <1>10, TakeDaysFacts
    <2>2. TypeOK'
      BY <1>10, <2>1 DEF TypeOK, On, Stored
    <2>3. InHand'
      BY <1>10, <2>1 DEF InHand, Working, OthersRest, Stored
    <2> QED
      BY <2>2, <2>3
  <1>11. CASE ClaimDays
    <2>1. PICK due \in SUBSET queue : /\ queue' = queue \ due
                                      /\ cl' = [cl EXCEPT ![Worker].todo = due]
      BY <1>11 DEF ClaimDays
    <2>2. due \in SUBSET Days /\ queue' \subseteq Days /\ commands' \in 0..MaxCommands
      BY <1>11, <2>1 DEF TypeOK, ClaimDays
    <2>3. Worker \in Classifiers
      BY DEF Classifiers
    <2>4. UNCHANGED <<scrobbleVars, labels, weightVars, ruleset, faults>>
      BY <1>11 DEF ClaimDays
    <2> HIDE DEF Worker
    <2> QED
      BY <2>1, <2>2, <2>3, <2>4, <1>10
  <1>12. ASSUME NEW c \in Operators, Reclassify(c)
         PROVE  TypeOK' /\ InHand'
    <2>1. PICK range \in SUBSET Days : cl' = [cl EXCEPT ![c].todo = range]
      BY <1>12 DEF Reclassify
    <2>2. c \in Classifiers /\ queue' \subseteq Days /\ commands' \in 0..MaxCommands
      BY <1>12, LabelsAssumption DEF TypeOK, Reclassify, Classifiers
    <2> QED
      BY <1>12, <2>1, <2>2, <1>10 DEF Reclassify
  <1>13. CASE \/ ClaimWeighing \/ ReadLabels \/ WriteWeights \/ WeighingFails
    <2>w. /\ wg.todo \in SUBSET Days /\ wg.labels \in Labels /\ wg.fresh \in BOOLEAN
          /\ wg.day \in 0..LastDay
      BY DEF TypeOK, Weighings
    <2>l. NoLabels \in Labels /\ 0 \in 0..LastDay
      BY LabelsAssumption DEF NoLabels, Labels
    <2>r. [WeigherAtRest EXCEPT !.todo = wg.todo] \in Weighings
          /\ [WeigherAtRest EXCEPT !.todo = wg.todo].pc = "idle"
      BY <2>w, <2>l DEF WeigherAtRest, Weighings
    <2>1. wg' \in Weighings /\ (wg'.pc # "idle" => wg'.day \in Days)
      <3>1. CASE ClaimWeighing
        BY <3>1 DEF ClaimWeighing, TypeOK, Weighings
      <3>2. CASE ReadLabels
        <4>1. PICK d \in wg.todo : wg' = [pc |-> "weighing", todo |-> wg.todo \ {d}, day |-> d,
                                          labels |-> labels[d], fresh |-> TRUE]
          BY <3>2 DEF ReadLabels
        <4>2. d \in Days /\ d \in 0..LastDay /\ labels[d] \in Labels
          BY <2>w, LabelsAssumption DEF Days, TypeOK
        <4> QED
          BY <2>w, <4>1, <4>2 DEF Weighings
      <3>3. CASE WriteWeights \/ WeighingFails
        BY <2>r, <3>3 DEF WriteWeights, WeighingFails
      <3> QED
        BY <1>13, <3>1, <3>2, <3>3
    <2>2. weights' \in [Days -> Weights]
      BY <1>13, <2>w, WeightsTypes
      DEF ClaimWeighing, ReadLabels, WriteWeights, WeighingFails, TypeOK
    <2>3. rankQueue' \subseteq Days /\ faults' \in 0..MaxFaults
      BY <1>13, <1>f DEF ClaimWeighing, ReadLabels, WriteWeights, WeighingFails, TypeOK
    <2>4. UNCHANGED <<scrobbleVars, labelVars, ruleset, commands>>
      BY <1>13 DEF ClaimWeighing, ReadLabels, WriteWeights, WeighingFails
    <2>5. TypeOK'
      BY <2>1, <2>2, <2>3, <2>4 DEF TypeOK, On, Stored
    <2>6. InHand'
      BY <2>1, <2>4 DEF InHand, Working, Stored
    <2> QED
      BY <2>5, <2>6
  <1>14. CASE Restart
    <2>1. /\ cl'[Worker].pc = "idle"
          /\ cl' \in [Classifiers -> Classifications] /\ OthersRest(Worker)
          /\ wg' \in Weighings /\ wg'.pc = "idle"
      BY <1>14, RestartFacts
    <2>2. ruleset' \in 1..Rulesets /\ faults' \in 0..MaxFaults
      BY <1>14, <1>f DEF Restart
    <2>3. UNCHANGED <<scrobbleVars, queue, labels, rankQueue, weights, commands>>
      BY <1>14 DEF Restart
    <2>4. TypeOK'
      BY <2>1, <2>2, <2>3 DEF TypeOK, On, Stored
    <2>5. InHand'
      BY <2>1, <2>3 DEF InHand, Working, OthersRest, Stored
    <2> QED
      BY <2>4, <2>5
  <1>15. CASE UNCHANGED vars
    BY <1>15 DEF vars, TypeOK, InHand, Working, On, Stored
  <1> QED
    BY <1>1, <1>2, <1>3, <1>4, <1>5, <1>6, <1>7, <1>8, <1>9, <1>11, <1>12, <1>13, <1>14, <1>15
    DEF Next, Storing, Measuring, Classifying, Weighing

LEMMA InitType == Init => TypeOK /\ InHand
  <1> SUFFICES ASSUME Init PROVE TypeOK /\ InHand
    OBVIOUS
  <1>1. 0 \in 0..LastDay /\ 0 \in 0..Rulesets /\ 1 \in 1..Rulesets /\ 0 \in 0..MaxCommands
        /\ 0 \in 0..MaxFaults
    BY LabelsAssumption
  <1>2. NoLabels \in Labels /\ NoWeights \in Weights
    BY <1>1 DEF NoLabels, Labels, NoWeights, Weights
  <1>3. AtRest \in Classifications /\ WeigherAtRest \in Weighings
    BY <1>1, <1>2 DEF AtRest, Classifications, WeigherAtRest, Weighings
  <1>4. InHand
    BY DEF Init, InHand, Working, AtRest, WeigherAtRest
  <1> QED
    BY <1>1, <1>2, <1>3, <1>4 DEF Init, TypeOK, NoLabels

LEMMA TypeInvariant == Spec => [](TypeOK /\ InHand)
  <1>1. TypeOK /\ InHand /\ [Next]_vars => (TypeOK /\ InHand)'
    BY TypeStep
  <1> QED
    BY <1>1, InitType, PTL DEF Spec

(* The queues, the labels, the weights and the transactions keep their     *)
(* types, and a day's labels only ever name stored scrobbles of that day.  *)
THEOREM TypeCorrect == Spec => []TypeOK
  BY TypeInvariant, PTL

-----------------------------------------------------------------------------
(***************************************************************************)
(* The day's lock: one transaction per day, so that what it has read of    *)
(* the day's labels stays true until it commits.                           *)
(***************************************************************************)
OneAtATime ==
    /\ \A c, e \in Classifiers : Working(c) /\ Working(e) /\ cl[c].day = cl[e].day => c = e
    /\ \A c \in Classifiers : Working(c) /\ wg.pc # "idle" => cl[c].day # wg.day
    /\ wg.pc = "idle" => wg.day = 0

StillTrue ==
    /\ \A c \in Classifiers : Working(c) => labels[cl[c].day].seen \subseteq cl[c].rows
    /\ wg.pc # "idle" => wg.labels = labels[wg.day] /\ wg.fresh

LockInv == OneAtATime /\ StillTrue

(* Steps that begin and commit nothing.                                    *)
SameTransactions ==
    /\ \A c \in Classifiers : Working(c)' =>
         Working(c) /\ cl'[c].day = cl[c].day /\ cl'[c].rows = cl[c].rows
    /\ UNCHANGED labels

LEMMA SameLocks ==
  ASSUME LockInv, SameTransactions,
         \/ wg'.pc = wg.pc /\ wg'.day = wg.day /\ wg'.labels = wg.labels /\ wg'.fresh = wg.fresh
         \/ wg'.pc = "idle" /\ wg'.day = 0
  PROVE  LockInv'
  BY DEF LockInv, OneAtATime, StillTrue, SameTransactions, Working

LEMMA CommitLocks ==
  ASSUME TypeOK, InHand, LockInv, NEW c \in Classifiers, CommitDay(c)
  PROVE  /\ LockInv'
         /\ wg' = wg
         /\ cl[c].day \in Days
         /\ labels'[cl[c].day] = DayRow(c)
         /\ \A k \in Days \ {cl[c].day} : labels'[k] = labels[k]
  <1> DEFINE d == cl[c].day
  <1>1. /\ cl[c].pc = "written" /\ cl'[c].pc = "idle" /\ OthersRest(c)
    BY CommitDayFacts
  <1>2. d \in Days /\ 0 \notin Days
    BY <1>1, LabelsAssumption DEF InHand, Working, Days
  <1>3. wg.day # d
    BY <1>1, <1>2 DEF LockInv, OneAtATime, Working
  <1>4. wg' = wg /\ labels' = [labels EXCEPT ![d] = DayRow(c)]
    BY <1>3 DEF CommitDay
  <1>5. labels'[d] = DayRow(c) /\ \A k \in Days \ {d} : labels'[k] = labels[k]
    BY <1>2, <1>4 DEF TypeOK
  <1>6. OneAtATime'
    BY <1>1, <1>4 DEF LockInv, OneAtATime, Working, OthersRest
  <1>7. \A e \in Classifiers \ {c} : Working(e) => cl[e].day \in Days \ {d}
    BY <1>1 DEF LockInv, OneAtATime, Working, InHand
  <1>8. StillTrue'
    BY <1>1, <1>3, <1>4, <1>5, <1>7 DEF LockInv, StillTrue, Working, OthersRest, InHand
  <1> QED
    BY <1>2, <1>4, <1>5, <1>6, <1>8 DEF LockInv

LEMMA LockStep ==
  ASSUME TypeOK, InHand, LockInv, [Next]_vars
  PROVE  LockInv'
  <1>1. CASE UNCHANGED <<labels, cl, wg>>
    BY <1>1, SameLocks DEF SameTransactions, Working
  <1>2. ASSUME NEW c \in Classifiers, ReadDay(c)
        PROVE  LockInv'
    <2>1. PICK d \in cl[c].todo :
            /\ ~Locked(d)
            /\ cl'[c].pc = "read" /\ cl'[c].day = d
            /\ cl'[c].rows = On(d, Stored) \cup TailOf(d - 1, Stored)
            /\ OthersRest(c)
            /\ UNCHANGED <<labels, wg>>
      BY <1>2, ReadDayFacts
    <2>2. d \in Days
      BY DEF TypeOK, Classifications
    <2>3. /\ \A e \in Classifiers : Working(e) => cl[e].day # d
          /\ wg.pc # "idle" => wg.day # d
      BY <2>1 DEF Locked, Working
    <2>4. OneAtATime'
      BY <2>1, <2>3 DEF LockInv, OneAtATime, OthersRest, Working
    <2>5. labels[d].seen \subseteq cl'[c].rows
      BY <2>1, <2>2 DEF TypeOK
    <2>6. StillTrue'
      BY <2>1, <2>5 DEF LockInv, StillTrue, OthersRest, Working
    <2> QED
      BY <2>4, <2>6 DEF LockInv
  <1>3. ASSUME NEW c \in Classifiers, WriteDay(c)
        PROVE  LockInv'
    <2>1. /\ cl[c].pc = "read" /\ cl'[c].day = cl[c].day /\ cl'[c].rows = cl[c].rows
          /\ OthersRest(c) /\ UNCHANGED <<labels, wg>>
      BY <1>3, WriteDayFacts
    <2>2. SameTransactions
      BY <2>1 DEF SameTransactions, OthersRest, Working
    <2> QED
      BY <2>1, <2>2, SameLocks
  <1>4. ASSUME NEW c \in Classifiers, ClassifyFails(c)
        PROVE  LockInv'
    <2>1. cl'[c].pc = "idle" /\ OthersRest(c) /\ UNCHANGED <<labels, wg>>
      BY <1>4, ClassifyFailsFacts
    <2>2. SameTransactions
      BY <2>1 DEF SameTransactions, OthersRest, Working
    <2> QED
      BY <2>1, <2>2, SameLocks
  <1>5. ASSUME NEW c \in Classifiers, NEW due \in SUBSET Days, cl' = [cl EXCEPT ![c].todo = due],
               UNCHANGED <<labels, wg>>
        PROVE  LockInv'
    <2>1. /\ cl'[c].pc = cl[c].pc /\ cl'[c].day = cl[c].day /\ cl'[c].rows = cl[c].rows
          /\ OthersRest(c)
      BY <1>5, TakeDaysFacts
    <2>2. SameTransactions
      BY <1>5, <2>1 DEF SameTransactions, OthersRest, Working
    <2> QED
      BY <1>5, <2>2, SameLocks
  <1>6. CASE ClaimDays
    <2>1. PICK due \in SUBSET Days : cl' = [cl EXCEPT ![Worker].todo = due]
      BY <1>6 DEF ClaimDays, TypeOK
    <2>2. Worker \in Classifiers /\ UNCHANGED <<labels, wg>>
      BY <1>6 DEF Classifiers, ClaimDays
    <2> HIDE DEF Worker
    <2> QED
      BY <2>1, <2>2, <1>5
  <1>7. ASSUME NEW c \in Operators, Reclassify(c)
        PROVE  LockInv'
    <2>1. PICK range \in SUBSET Days : cl' = [cl EXCEPT ![c].todo = range]
      BY <1>7 DEF Reclassify
    <2>2. c \in Classifiers
      BY DEF Classifiers
    <2> QED
      BY <1>7, <2>1, <2>2, <1>5 DEF Reclassify
  <1>8. CASE ClaimWeighing
    BY <1>8, SameLocks DEF ClaimWeighing, SameTransactions, Working, TypeOK, Weighings
  <1>9. CASE ReadLabels
    <2>1. PICK d \in wg.todo :
            /\ ~Locked(d)
            /\ wg' = [pc |-> "weighing", todo |-> wg.todo \ {d}, day |-> d,
                      labels |-> labels[d], fresh |-> TRUE]
            /\ UNCHANGED labelVars
      BY <1>9 DEF ReadLabels
    <2>2. \A c \in Classifiers : Working(c) => cl[c].day # d
      BY <2>1 DEF Locked, Working
    <2> QED
      BY <2>1, <2>2 DEF LockInv, OneAtATime, StillTrue, Working
  <1>10. CASE WriteWeights \/ WeighingFails
    BY <1>10, SameLocks
    DEF WriteWeights, WeighingFails, WeigherAtRest, SameTransactions, Working
  <1>11. CASE Restart
    <2>1. /\ cl'[Worker].pc = "idle" /\ OthersRest(Worker)
          /\ wg'.pc = "idle" /\ wg'.day = 0
      BY <1>11, RestartFacts
    <2>2. SameTransactions
      BY <1>11, <2>1 DEF SameTransactions, OthersRest, Working, Restart
    <2> QED
      BY <2>1, <2>2, SameLocks
  <1> QED
    BY <1>1, <1>2, <1>3, <1>4, <1>6, <1>7, <1>8, <1>9, <1>10, <1>11, CommitLocks
    DEF Next, Storing, Measuring, Classifying, Weighing, vars, Ingest, Import, TakeId, Commit,
        MarkDirty, MarkLost, LengthSet, LengthTold, RefreshActivity, Sweep, SweepWeights

LEMMA LockInvariant == Spec => []LockInv
  <1>1. Init => LockInv
    BY DEF Init, LockInv, OneAtATime, StillTrue, Working, AtRest, WeigherAtRest
  <1>2. TypeOK /\ InHand /\ LockInv /\ [Next]_vars => LockInv'
    BY LockStep
  <1> QED
    BY <1>1, <1>2, TypeInvariant, PTL DEF Spec

-----------------------------------------------------------------------------
(***************************************************************************)
(* LabelsAreReal is not inductive: a scrobble could be given a label by    *)
(* one of a higher id that was read before it.  Live ingests hold the      *)
(* user's lock from taking an id to committing it, so among them whoever   *)
(* sees an id sees all the lower ones.                                     *)
(***************************************************************************)
IdsInOrder ==
    /\ \A p \in Plays : ids[p] <= serial /\ (ids[p] = 0 <=> stage[p] = "new")
    /\ \A p, q \in Plays : ids[p] = ids[q] /\ ids[p] # 0 => p = q
    /\ \A p, q \in Plays \ Imported : ids[p] # 0 /\ ids[p] < ids[q] => stage[p] # "open"

(* S has every scrobble of the day whose id is not above one of S.         *)
Complete(d, S) ==
    \A p \in On(d, Plays), q \in On(d, S) : ids[p] # 0 /\ ids[p] <= ids[q] => p \in S

ReadInOrder ==
    /\ \A d \in Days : LiveOnly(d) => Complete(d, labels[d].seen)
    /\ \A c \in Classifiers : Working(c) /\ LiveOnly(cl[c].day) => Complete(cl[c].day, cl[c].rows)

OrderInv == IdsInOrder /\ ReadInOrder

LEMMA StoredComplete ==
  ASSUME TypeOK, OrderInv, NEW d \in Days, LiveOnly(d)
  PROVE  Complete(d, On(d, Stored) \cup TailOf(d - 1, Stored))
  <1> SUFFICES ASSUME NEW p \in On(d, Plays), NEW q \in On(d, Stored), ids[p] # 0, ids[p] <= ids[q]
               PROVE  p \in Stored
    BY LabelsAssumption DEF Complete, On, TailOf, Days
  <1>1. p \in Plays \ Imported /\ q \in Plays \ Imported /\ ids[p] \in Nat /\ ids[q] \in Nat
    BY DEF LiveOnly, On, Stored, TypeOK
  <1>2. CASE p = q
    BY <1>2 DEF On
  <1>3. CASE p # q
    <2>1. ids[p] < ids[q]
      BY <1>1, <1>3 DEF OrderInv, IdsInOrder
    <2>2. stage[p] # "open" /\ stage[p] # "new"
      BY <1>1, <2>1 DEF OrderInv, IdsInOrder
    <2> QED
      BY <1>1, <2>2 DEF Stored, TypeOK
  <1> QED
    BY <1>2, <1>3

(* Steps after which the same scrobbles, or fewer, are labelled and read.  *)
LEMMA SameOrder ==
  ASSUME OrderInv, SameTransactions, UNCHANGED <<serial, ids>>,
         \A p \in Plays : \/ stage'[p] = stage[p]
                          \/ stage[p] # "new" /\ stage'[p] \notin {"new", "open"}
  PROVE  OrderInv'
  <1>1. IdsInOrder'
    BY DEF OrderInv, IdsInOrder
  <1>2. \A d, S : Complete(d, S) => Complete(d, S)'
    BY DEF Complete, On
  <1>3. ReadInOrder'
    BY <1>2 DEF OrderInv, ReadInOrder, SameTransactions
  <1> QED
    BY <1>1, <1>3 DEF OrderInv

LEMMA TakeIdOrder ==
  ASSUME TypeOK, InHand, OrderInv, NEW p \in Plays, TakeId(p),
         p \in Imported \/ \A q \in Plays \ Imported : stage[q] # "open"
  PROVE  OrderInv'
  <1>1. /\ stage[p] = "new" /\ serial' = serial + 1 /\ UNCHANGED <<labels, cl>>
        /\ \A q \in Plays : /\ ids'[q] = IF q = p THEN serial + 1 ELSE ids[q]
                            /\ stage'[q] = IF q = p THEN "open" ELSE stage[q]
    BY DEF TakeId, TypeOK
  <1>2. serial \in Nat /\ \A q \in Plays : ids[q] \in Nat /\ ids[q] <= serial
    BY DEF TypeOK, OrderInv, IdsInOrder
  <1>3. IdsInOrder'
    <2>1. \A q \in Plays : ids'[q] <= serial' /\ (ids'[q] = 0 <=> stage'[q] = "new")
      BY <1>1, <1>2 DEF OrderInv, IdsInOrder
    <2>2. \A q, r \in Plays : ids'[q] = ids'[r] /\ ids'[q] # 0 => q = r
      BY <1>1, <1>2 DEF OrderInv, IdsInOrder
    <2>3. \A q, r \in Plays \ Imported : ids'[q] # 0 /\ ids'[q] < ids'[r] => stage'[q] # "open"
      BY <1>1, <1>2 DEF OrderInv, IdsInOrder
    <2> QED
      BY <2>1, <2>2, <2>3 DEF IdsInOrder
  <1>4. \A d : \A S \in SUBSET Stored : Complete(d, S) => Complete(d, S)'
    <2> SUFFICES ASSUME NEW d, NEW S \in SUBSET Stored, Complete(d, S),
                        NEW q \in On(d, Plays), NEW r \in On(d, S),
                        ids'[q] # 0, ids'[q] <= ids'[r]
                 PROVE  q \in S
      BY DEF Complete, On
    <2>1. q \in Plays /\ r \in Plays /\ r # p
      BY <1>1 DEF On, Stored
    <2>2. q # p
      BY <1>1, <1>2, <2>1
    <2> QED
      BY <1>1, <2>1, <2>2 DEF Complete
  <1>5. /\ \A d \in Days : labels[d].seen \in SUBSET Stored
        /\ \A c \in Classifiers : Working(c) => cl[c].rows \in SUBSET Stored
    BY DEF TypeOK, InHand, On
  <1>6. ReadInOrder'
    BY <1>1, <1>4, <1>5 DEF OrderInv, ReadInOrder, Working
  <1> QED
    BY <1>3, <1>6 DEF OrderInv

LEMMA OrderStep ==
  ASSUME TypeOK, InHand, LockInv, OrderInv, [Next]_vars
  PROVE  OrderInv'
  <1>1. ASSUME NEW p \in Plays, Ingest(p) \/ Import(p)
        PROVE  OrderInv'
    BY <1>1, TakeIdOrder DEF Ingest, Import
  <1>2. ASSUME NEW p \in Plays, Commit(p) \/ MarkDirty(p) \/ MarkLost(p)
        PROVE  OrderInv'
    <2>1. SameTransactions /\ UNCHANGED <<serial, ids>>
      BY <1>2 DEF SameTransactions, Working, Commit, MarkDirty, MarkLost
    <2>2. \A q \in Plays : \/ stage'[q] = stage[q]
                           \/ stage[q] # "new" /\ stage'[q] \notin {"new", "open"}
      BY <1>2 DEF Commit, MarkDirty, MarkLost, TypeOK
    <2> QED
      BY <2>1, <2>2, SameOrder
  <1>3. CASE UNCHANGED <<serial, ids, stage, labels, cl>>
    BY <1>3, SameOrder DEF SameTransactions, Working
  <1>4. ASSUME NEW c \in Classifiers, ReadDay(c)
        PROVE  OrderInv'
    <2>1. PICK d \in cl[c].todo :
            /\ cl'[c].pc = "read" /\ cl'[c].day = d
            /\ cl'[c].rows = On(d, Stored) \cup TailOf(d - 1, Stored)
            /\ OthersRest(c) /\ UNCHANGED <<scrobbleVars, labels>>
      BY <1>4, ReadDayFacts
    <2>2. d \in Days
      BY DEF TypeOK, Classifications
    <2>3. LiveOnly(d) => Complete(d, cl'[c].rows)
      BY <2>1, <2>2, StoredComplete
    <2> QED
      BY <2>1, <2>3 DEF OrderInv, IdsInOrder, ReadInOrder, Complete, OthersRest, Working
  <1>5. ASSUME NEW c \in Classifiers, WriteDay(c)
        PROVE  OrderInv'
    <2>1. /\ cl[c].pc = "read" /\ cl'[c].day = cl[c].day /\ cl'[c].rows = cl[c].rows
          /\ OthersRest(c) /\ UNCHANGED <<scrobbleVars, labels>>
      BY <1>5, WriteDayFacts
    <2> QED
      BY <2>1, SameOrder DEF SameTransactions, OthersRest, Working
  <1>6. ASSUME NEW c \in Classifiers, CommitDay(c)
        PROVE  OrderInv'
    <2> DEFINE d == cl[c].day
    <2>1. /\ cl[c].pc = "written" /\ cl'[c].pc = "idle" /\ OthersRest(c)
          /\ UNCHANGED scrobbleVars
      BY <1>6, CommitDayFacts DEF CommitDay
    <2>2. /\ d \in Days /\ labels'[d] = DayRow(c)
          /\ \A k \in Days \ {d} : labels'[k] = labels[k]
      BY <1>6, CommitLocks
    <2>3. LiveOnly(d) => Complete(d, DayRow(c).seen)
      BY <2>1 DEF OrderInv, ReadInOrder, Working, Complete, DayRow, NoLabels, On
    <2>4. \A k, S : Complete(k, S) => Complete(k, S)'
      BY <2>1 DEF Complete, On
    <2>5. \A k \in Days : LiveOnly(k) => Complete(k, labels'[k].seen)
      BY <2>2, <2>3 DEF OrderInv, ReadInOrder
    <2>6. ReadInOrder'
      BY <2>1, <2>4, <2>5 DEF OrderInv, ReadInOrder, OthersRest, Working
    <2>7. IdsInOrder'
      BY <2>1 DEF OrderInv, IdsInOrder
    <2> QED
      BY <2>6, <2>7 DEF OrderInv
  <1>7. ASSUME NEW c \in Classifiers, ClassifyFails(c)
        PROVE  OrderInv'
    <2>1. cl'[c].pc = "idle" /\ OthersRest(c) /\ UNCHANGED <<scrobbleVars, labels>>
      BY <1>7, ClassifyFailsFacts
    <2> QED
      BY <2>1, SameOrder DEF SameTransactions, OthersRest, Working
  <1>8. ASSUME NEW c \in Classifiers, NEW due \in SUBSET Days, cl' = [cl EXCEPT ![c].todo = due],
               UNCHANGED <<scrobbleVars, labels>>
        PROVE  OrderInv'
    <2>1. /\ cl'[c].pc = cl[c].pc /\ cl'[c].day = cl[c].day /\ cl'[c].rows = cl[c].rows
          /\ OthersRest(c)
      BY <1>8, TakeDaysFacts
    <2> QED
      BY <1>8, <2>1, SameOrder DEF SameTransactions, OthersRest, Working
  <1>9. CASE ClaimDays
    <2>1. PICK due \in SUBSET Days : cl' = [cl EXCEPT ![Worker].todo = due]
      BY <1>9 DEF ClaimDays, TypeOK
    <2>2. Worker \in Classifiers /\ UNCHANGED <<scrobbleVars, labels>>
      BY <1>9 DEF Classifiers, ClaimDays
    <2> HIDE DEF Worker
    <2> QED
      BY <2>1, <2>2, <1>8
  <1>10. ASSUME NEW c \in Operators, Reclassify(c)
         PROVE  OrderInv'
    <2>1. PICK range \in SUBSET Days : cl' = [cl EXCEPT ![c].todo = range]
      BY <1>10 DEF Reclassify
    <2>2. c \in Classifiers
      BY DEF Classifiers
    <2> QED
      BY <1>10, <2>1, <2>2, <1>8 DEF Reclassify
  <1>11. CASE Restart
    <2>1. cl'[Worker].pc = "idle" /\ OthersRest(Worker)
      BY <1>11, RestartFacts
    <2> QED
      BY <1>11, <2>1, SameOrder DEF SameTransactions, OthersRest, Working, Restart
  <1> QED
    BY <1>1, <1>2, <1>3, <1>4, <1>5, <1>6, <1>7, <1>9, <1>10, <1>11
    DEF Next, Storing, Measuring, Classifying, Weighing, vars, LengthSet, LengthTold,
        RefreshActivity, Sweep, SweepWeights, ClaimWeighing, ReadLabels, WriteWeights, WeighingFails

LEMMA OrderInvariant == Spec => []OrderInv
  <1>1. Init => OrderInv
    BY DEF Init, OrderInv, IdsInOrder, ReadInOrder, Complete, On, Working, AtRest, NoLabels
  <1>2. TypeOK /\ InHand /\ LockInv /\ OrderInv /\ [Next]_vars => OrderInv'
    BY OrderStep
  <1> QED
    BY <1>1, <1>2, TypeInvariant, LockInvariant, PTL DEF Spec

(* On a day no import adds to, a scrobble reads as labelled only once the  *)
(* day was classified with it, although the view compares nothing but ids. *)
THEOREM LabelsStayReal == Spec => []LabelsAreReal
  <1>1. TypeOK /\ OrderInv => LabelsAreReal
    <2> SUFFICES ASSUME TypeOK, OrderInv, NEW p \in Plays, HasLabel(p), LiveOnly(DayOf[p])
                 PROVE  p \in labels[DayOf[p]].seen
      BY DEF LabelsAreReal
    <2> DEFINE d == DayOf[p]
    <2>1. d \in Days /\ p \in On(d, Plays) /\ ids[p] # 0
      BY LabelsAssumption DEF On, HasLabel, Stored, OrderInv, IdsInOrder
    <2>2. PICK q \in labels[d].seen : ids[p] <= ids[q]
      BY DEF HasLabel, UpToMaxId
    <2>3. q \in On(d, labels[d].seen)
      BY <2>1, <2>2 DEF TypeOK, On
    <2> QED
      BY <2>1, <2>2, <2>3 DEF OrderInv, ReadInOrder, Complete
  <1> QED
    BY <1>1, TypeInvariant, OrderInvariant, PTL

-----------------------------------------------------------------------------
(***************************************************************************)
(* A queued scrobble is not forgotten: its day passes from the queue to    *)
(* the classifier's list, from there to a transaction that has read it,    *)
(* and from there to the labels.                                           *)
(***************************************************************************)
Tended(p) ==
    \/ p \in labels[DayOf[p]].seen
    \/ Waiting(DayOf[p])
    \/ ReadFor(DayOf[p], p)

(* Steps that classify nothing and queue the day of what they mark.        *)
LEMMA QuietTended ==
  ASSUME ToldIsLabelled, queue \subseteq queue', UNCHANGED <<labels, cl>>,
         faults' = 0 => faults = 0,
         \A p \in Plays : stage'[p] = "told" => stage[p] = "told" \/ DayOf[p] \in queue'
  PROVE  ToldIsLabelled'
  BY DEF ToldIsLabelled, Waiting, ReadFor

LEMMA ReadDayTends ==
  ASSUME TypeOK, ToldIsLabelled, NEW c \in Classifiers, ReadDay(c)
  PROVE  ToldIsLabelled'
  <1>1. PICK d \in cl[c].todo :
            /\ ~Working(c) /\ cl'[c].pc = "read" /\ cl'[c].day = d
            /\ cl'[c].todo = cl[c].todo \ {d}
            /\ cl'[c].rows = On(d, Stored) \cup TailOf(d - 1, Stored)
            /\ OthersRest(c) /\ UNCHANGED <<stage, queue, labels, faults>>
    BY ReadDayFacts
  <1> SUFFICES ASSUME faults = 0, NEW p \in Plays, stage[p] = "told"
               PROVE  Tended(p)'
    BY <1>1 DEF ToldIsLabelled, Tended
  <1> DEFINE k == DayOf[p]
  <1>2. CASE p \in labels[k].seen \/ k \in queue
    BY <1>1, <1>2 DEF Tended, Waiting
  <1>3. CASE \E e \in Classifiers : k \in cl[e].todo
    <2>1. PICK e \in Classifiers : k \in cl[e].todo
      BY <1>3
    <2>2. CASE e = c /\ k = d
      BY <1>1, <2>2 DEF Tended, ReadFor, On, Stored
    <2>3. CASE e # c \/ k # d
      <3>1. k \in cl'[e].todo
        BY <1>1, <2>1, <2>3 DEF OthersRest
      <3> QED
        BY <3>1 DEF Tended, Waiting
    <2> QED
      BY <2>2, <2>3
  <1>4. CASE ReadFor(k, p)
    BY <1>1, <1>4 DEF Tended, ReadFor, OthersRest, Working
  <1> QED
    BY <1>2, <1>3, <1>4 DEF ToldIsLabelled, Waiting

LEMMA CommitDayTends ==
  ASSUME TypeOK, InHand, LockInv, ToldIsLabelled, NEW c \in Classifiers, CommitDay(c)
  PROVE  ToldIsLabelled'
  <1> DEFINE d == cl[c].day
  <1>1. /\ cl[c].pc = "written" /\ cl'[c].pc = "idle" /\ cl'[c].todo = cl[c].todo
        /\ OthersRest(c) /\ queue \subseteq queue' /\ UNCHANGED <<stage, faults>>
    BY CommitDayFacts DEF CommitDay, QueueNext
  <1>2. /\ d \in Days /\ labels'[d] = DayRow(c)
        /\ \A k \in Days \ {d} : labels'[k] = labels[k]
    BY CommitLocks
  <1>3. DayRow(c).seen = On(d, cl[c].rows)
    BY DEF DayRow, NoLabels
  <1> SUFFICES ASSUME faults = 0, NEW p \in Plays, stage[p] = "told"
               PROVE  Tended(p)'
    BY <1>1 DEF ToldIsLabelled, Tended
  <1> DEFINE k == DayOf[p]
  <1>4. k \in Days
    BY LabelsAssumption
  <1>5. CASE Waiting(k)
    <2>1. Waiting(k)'
      BY <1>1, <1>5 DEF Waiting, OthersRest
    <2> QED
      BY <2>1 DEF Tended
  <1>6. CASE k # d /\ (p \in labels[k].seen \/ ReadFor(k, p))
    BY <1>1, <1>2, <1>4, <1>6 DEF Tended, ReadFor, OthersRest
  <1>7. CASE k = d /\ (p \in labels[k].seen \/ ReadFor(k, p))
    <2>1. p \in cl[c].rows
      BY <1>1, <1>7 DEF LockInv, StillTrue, OneAtATime, ReadFor, Working
    <2>2. p \in labels'[k].seen
      BY <1>2, <1>3, <1>7, <2>1 DEF On
    <2> QED
      BY <2>2 DEF Tended
  <1> QED
    BY <1>5, <1>6, <1>7 DEF ToldIsLabelled

LEMMA TendedStep ==
  ASSUME TypeOK, InHand, LockInv, ToldIsLabelled, [Next]_vars
  PROVE  ToldIsLabelled'
  <1>f. ASSUME faults' = faults + 1
        PROVE  ToldIsLabelled'
    BY <1>f DEF TypeOK, ToldIsLabelled
  <1>1. ASSUME NEW p \in Plays, Ingest(p) \/ Import(p)
        PROVE  ToldIsLabelled'
    BY <1>1, QuietTended DEF Ingest, Import, TakeId, TypeOK
  <1>2. ASSUME NEW p \in Plays, Commit(p) \/ MarkDirty(p) \/ LengthSet(p) \/ LengthTold(p)
        PROVE  ToldIsLabelled'
    BY <1>2, QuietTended DEF Commit, MarkDirty, LengthSet, LengthTold, TypeOK
  <1>3. CASE UNCHANGED <<stage, queue, labels, cl, faults>>
    BY <1>3, QuietTended
  <1>4. CASE Sweep
    BY <1>4, QuietTended DEF Sweep
  <1>5. ASSUME NEW c \in Classifiers, WriteDay(c)
        PROVE  ToldIsLabelled'
    <2>1. /\ cl[c].pc = "read" /\ cl'[c].pc = "written" /\ cl'[c].day = cl[c].day
          /\ cl'[c].todo = cl[c].todo /\ cl'[c].rows = cl[c].rows
          /\ OthersRest(c) /\ UNCHANGED <<stage, queue, labels, faults>>
      BY <1>5, WriteDayFacts
    <2>2. \A d : Waiting(d) => Waiting(d)'
      BY <2>1 DEF Waiting, OthersRest
    <2>3. \A d, p : ReadFor(d, p) => ReadFor(d, p)'
      BY <2>1 DEF ReadFor, OthersRest
    <2> QED
      BY <2>1, <2>2, <2>3 DEF ToldIsLabelled
  <1>6. ASSUME NEW c \in Classifiers, NEW due \in SUBSET Days, cl' = [cl EXCEPT ![c].todo = due],
               cl[c].todo = {}, queue \subseteq queue' \cup due,
               UNCHANGED <<stage, labels, faults>>
        PROVE  ToldIsLabelled'
    <2>1. /\ cl'[c].pc = cl[c].pc /\ cl'[c].day = cl[c].day /\ cl'[c].rows = cl[c].rows
          /\ cl'[c].todo = due /\ OthersRest(c)
      BY <1>6, TakeDaysFacts
    <2>2. \A d : Waiting(d) => Waiting(d)'
      BY <1>6, <2>1 DEF Waiting, OthersRest
    <2>3. \A d, p : ReadFor(d, p) => ReadFor(d, p)'
      BY <2>1 DEF ReadFor, OthersRest
    <2> QED
      BY <1>6, <2>2, <2>3 DEF ToldIsLabelled
  <1>7. CASE ClaimDays
    <2>1. PICK due \in SUBSET Days :
            cl' = [cl EXCEPT ![Worker].todo = due] /\ queue' = queue \ due
      BY <1>7 DEF ClaimDays, TypeOK
    <2>2. Worker \in Classifiers /\ cl[Worker].todo = {} /\ UNCHANGED <<stage, labels, faults>>
      BY <1>7 DEF Classifiers, ClaimDays
    <2> HIDE DEF Worker
    <2> QED
      BY <2>1, <2>2, <1>6
  <1>8. ASSUME NEW c \in Operators, Reclassify(c)
        PROVE  ToldIsLabelled'
    <2>1. PICK range \in SUBSET Days : cl' = [cl EXCEPT ![c].todo = range]
      BY <1>8 DEF Reclassify
    <2>2. c \in Classifiers
      BY DEF Classifiers
    <2> QED
      BY <1>8, <2>1, <2>2, <1>6 DEF Reclassify
  <1> QED
    BY <1>f, <1>1, <1>2, <1>3, <1>4, <1>5, <1>7, <1>8, ReadDayTends, CommitDayTends
    DEF Next, Storing, Measuring, Classifying, Weighing, vars, RefreshActivity, SweepWeights,
        ClaimWeighing, ReadLabels, WriteWeights, WeighingFails, ClassifyFails, MarkLost, Restart,
        Fault

(* While nothing fails, a queued ingest is never forgotten, whoever        *)
(* classifies beside the worker.                                           *)
THEOREM ToldStaysLabelled == Spec => []ToldIsLabelled
  <1>1. Init => ToldIsLabelled
    BY DEF Init, ToldIsLabelled
  <1>2. TypeOK /\ InHand /\ LockInv /\ ToldIsLabelled /\ [Next]_vars => ToldIsLabelled'
    BY TendedStep
  <1> QED
    BY <1>1, <1>2, TypeInvariant, LockInvariant, PTL DEF Spec

-----------------------------------------------------------------------------
(***************************************************************************)
(* The weights follow the labels.  A day classified while it was queued is *)
(* not queued again, so the entry it relied on must still be there, or be  *)
(* in the weigher's hands, when its labels are committed.                  *)
(***************************************************************************)
ToWeigh(d) == d \in rankQueue \cup wg.todo

QueuedStays ==
    faults = 0 =>
        \A c \in Classifiers : cl[c].pc = "written" /\ cl[c].wasQueued => ToWeigh(cl[c].day)

(* While nothing fails, a day's weights are those of its labels ...        *)
Weighted(d) ==
    \/ weights[d].fresh /\ weights[d].labelled = labels[d].seen
    \/ d \in rankQueue \/ d \in wg.todo
    \/ wg.pc # "idle" /\ wg.day = d /\ wg.fresh

FollowInv == QueuedStays /\ WeightsFollowLabels

(* ... and stay so in steps that commit no labels and lose no queue entry. *)
LEMMA QuietWeights ==
  ASSUME FollowInv, UNCHANGED <<labels, weights>>, faults' = 0 => faults = 0,
         \A c \in Classifiers : cl'[c].pc = "written" =>
             \/ cl'[c].wasQueued => cl'[c].day \in rankQueue' \cup wg'.todo
             \/ cl[c].pc = "written" /\ cl'[c].day = cl[c].day
                /\ cl'[c].wasQueued = cl[c].wasQueued,
         rankQueue \cup wg.todo \subseteq rankQueue' \cup wg'.todo,
         wg.pc # "idle" =>
             wg'.pc = wg.pc /\ wg'.day = wg.day /\ wg'.fresh = wg.fresh
  PROVE  FollowInv'
  BY DEF FollowInv, QueuedStays, ToWeigh, WeightsFollowLabels, LiveOnly, Labelled

LEMMA WriteDayFollows ==
  ASSUME TypeOK, FollowInv, NEW c \in Classifiers, WriteDay(c)
  PROVE  FollowInv'
  <1>1. /\ cl[c].pc = "read" /\ cl'[c].pc = "written" /\ cl'[c].day = cl[c].day
        /\ cl'[c].wasQueued = (cl[c].day \in rankQueue)
        /\ OthersRest(c) /\ UNCHANGED <<labels, weights, rankQueue, wg, faults>>
    BY WriteDayFacts
  <1>2. cl'[c].wasQueued => cl'[c].day \in rankQueue' \cup wg'.todo
    BY <1>1 DEF ToWeigh
  <1>3. \A e \in Classifiers \ {c} : cl'[e] = cl[e]
    BY <1>1 DEF OthersRest
  <1> QED
    BY <1>1, <1>2, <1>3, QuietWeights

LEMMA CommitDayFollows ==
  ASSUME TypeOK, InHand, LockInv, FollowInv, NEW c \in Classifiers, CommitDay(c)
  PROVE  FollowInv'
  <1> DEFINE d == cl[c].day
  <1>1. /\ cl[c].pc = "written" /\ cl'[c].pc = "idle" /\ OthersRest(c)
        /\ rankQueue' = (IF cl[c].wasQueued THEN rankQueue ELSE rankQueue \cup {d})
        /\ weights' = [weights EXCEPT ![d].fresh = FALSE] /\ UNCHANGED faults
    BY CommitDayFacts DEF CommitDay
  <1>2. wg' = wg /\ d \in Days /\ \A k \in Days \ {d} : labels'[k] = labels[k]
    BY CommitLocks
  <1>3. \A k \in Days \ {d} : weights'[k] = weights[k]
    BY <1>1 DEF TypeOK
  <1> SUFFICES ASSUME faults = 0
               PROVE  /\ \A e \in Classifiers : cl'[e].pc = "written" /\ cl'[e].wasQueued =>
                           cl'[e].day \in rankQueue' \cup wg'.todo
                      /\ \A k \in Days : k >= FirstRetained /\ Labelled(k)' /\ LiveOnly(k) => Weighted(k)'
    BY <1>1 DEF FollowInv, QueuedStays, ToWeigh, WeightsFollowLabels, Weighted, LiveOnly, On
  <1>4. d \in rankQueue' \cup wg'.todo
    BY <1>1, <1>2 DEF FollowInv, QueuedStays, ToWeigh
  <1>5. \A e \in Classifiers : cl'[e].pc = "written" /\ cl'[e].wasQueued =>
           cl'[e].day \in rankQueue' \cup wg'.todo
    BY <1>1, <1>2 DEF FollowInv, QueuedStays, ToWeigh, OthersRest
  <1>6. \A k \in Days \ {d} : k >= FirstRetained /\ Labelled(k)' /\ LiveOnly(k) => Weighted(k)'
    BY <1>1, <1>2, <1>3 DEF FollowInv, WeightsFollowLabels, Weighted, Labelled
  <1> QED
    BY <1>2, <1>4, <1>5, <1>6 DEF ToWeigh, Weighted

LEMMA ReadLabelsFollows ==
  ASSUME TypeOK, FollowInv, ReadLabels
  PROVE  FollowInv'
  <1>1. PICK d \in wg.todo :
          /\ ~Locked(d)
          /\ wg' = [pc |-> "weighing", todo |-> wg.todo \ {d}, day |-> d,
                    labels |-> labels[d], fresh |-> TRUE]
          /\ wg.pc = "idle" /\ UNCHANGED <<labels, cl, rankQueue, weights, faults>>
    BY DEF ReadLabels
  <1>2. \A c \in Classifiers : cl[c].pc # "idle" => cl[c].day # d
    BY <1>1 DEF Locked
  <1>3. wg'.pc = "weighing" /\ wg'.todo = wg.todo \ {d} /\ wg'.day = d /\ wg'.fresh
    BY <1>1
  <1>4. QueuedStays'
    BY <1>1, <1>2, <1>3 DEF FollowInv, QueuedStays, ToWeigh
  <1>5. WeightsFollowLabels'
    BY <1>1, <1>3 DEF FollowInv, WeightsFollowLabels, LiveOnly, Labelled
  <1> QED
    BY <1>4, <1>5 DEF FollowInv

LEMMA WriteWeightsFollows ==
  ASSUME TypeOK, InHand, LockInv, OrderInv, FollowInv, WriteWeights
  PROVE  FollowInv'
  <1> DEFINE d == wg.day
  <1>1. /\ wg.pc = "weighing" /\ wg'.todo = wg.todo /\ wg'.pc = "idle"
        /\ weights' = [weights EXCEPT ![d] = WeightsRow(d, wg.labels, wg.fresh)]
        /\ UNCHANGED <<labels, cl, rankQueue, faults>>
    BY DEF WriteWeights, WeigherAtRest
  <1>2. d \in Days /\ wg.labels = labels[d] /\ wg.fresh
    BY <1>1 DEF InHand, LockInv, StillTrue
  <1>3. /\ weights'[d] = WeightsRow(d, labels[d], TRUE)
        /\ \A k \in Days \ {d} : weights'[k] = weights[k]
    BY <1>1, <1>2 DEF TypeOK, Weighings
  <1>4. ASSUME d >= FirstRetained, Labelled(d), LiveOnly(d)
        PROVE  weights'[d].fresh /\ weights'[d].labelled = labels[d].seen
    <2>1. labels[d].seen \subseteq On(d, Stored)
      BY <1>2 DEF TypeOK
    <2>2. \A p \in labels[d].seen : UpToMaxId(p, labels[d].seen)
      BY <2>1 DEF UpToMaxId, On, Stored, TypeOK
    <2>3. ASSUME NEW p \in On(d, Stored), UpToMaxId(p, labels[d].seen)
          PROVE  p \in labels[d].seen
      <3>1. p \in On(d, Plays) /\ ids[p] # 0
        BY DEF On, Stored, OrderInv, IdsInOrder
      <3>2. PICK q \in labels[d].seen : ids[p] <= ids[q]
        BY <2>3 DEF UpToMaxId
      <3>3. q \in On(d, labels[d].seen)
        BY <2>1, <3>2 DEF On
      <3> QED
        BY <1>2, <1>4, <3>1, <3>2, <3>3 DEF OrderInv, ReadInOrder, Complete
    <2>4. {p \in On(d, Stored) : UpToMaxId(p, labels[d].seen)} = labels[d].seen
      BY <2>1, <2>2, <2>3
    <2>5. ~(d < FirstRetained)
      BY <1>2, <1>4, LabelsAssumption DEF Days
    <2> QED
      BY <1>3, <1>4, <2>4, <2>5 DEF WeightsRow, Labelled
  <1>5. QueuedStays'
    BY <1>1 DEF FollowInv, QueuedStays, ToWeigh
  <1>6. \A k \in Days \ {d} : weights'[k] = weights[k]
    BY <1>3
  <1> SUFFICES ASSUME faults = 0, NEW k \in Days, k >= FirstRetained, Labelled(k), LiveOnly(k)
               PROVE  Weighted(k)'
    BY <1>1, <1>5 DEF FollowInv, WeightsFollowLabels, Weighted, Labelled, LiveOnly, On
  <1> HIDE DEF d
  <1>7. CASE k = d
    BY <1>1, <1>4, <1>7 DEF Weighted
  <1>8. CASE k # d
    <2>1. weights'[k] = weights[k]
      BY <1>6, <1>8
    <2>2. Weighted(k) /\ wg.day # k
      BY <1>8 DEF FollowInv, WeightsFollowLabels, Weighted, d
    <2> QED
      BY <1>1, <2>1, <2>2 DEF Weighted
  <1> QED
    BY <1>7, <1>8

LEMMA FollowStep ==
  ASSUME TypeOK, InHand, LockInv, OrderInv, FollowInv, [Next]_vars
  PROVE  FollowInv'
  <1>f. ASSUME faults' = faults + 1
        PROVE  FollowInv'
    BY <1>f DEF TypeOK, FollowInv, QueuedStays, WeightsFollowLabels
  <1>1. CASE UNCHANGED <<labels, cl, rankQueue, weights, wg, faults>>
    BY <1>1, QuietWeights
  <1>2. CASE SweepWeights
    BY <1>2, QuietWeights DEF SweepWeights
  <1>3. CASE ClaimWeighing
    <2>1. PICK due : rankQueue' = rankQueue \ due /\ wg' = [wg EXCEPT !.todo = due]
      BY <1>3 DEF ClaimWeighing
    <2>2. wg'.pc = wg.pc /\ wg'.todo = due
      BY <2>1 DEF TypeOK, Weighings
    <2> QED
      BY <1>3, <2>1, <2>2, QuietWeights DEF ClaimWeighing
  <1>4. ASSUME NEW c \in Classifiers, cl'[c].pc # "written", OthersRest(c),
               UNCHANGED <<labels, rankQueue, weights, wg, faults>>
        PROVE  FollowInv'
    BY <1>4, QuietWeights DEF OthersRest
  <1>5. ASSUME NEW c \in Classifiers, ReadDay(c)
        PROVE  FollowInv'
    BY <1>5, <1>4, ReadDayFacts
  <1>6. ASSUME NEW c \in Classifiers, NEW due \in SUBSET Days, cl' = [cl EXCEPT ![c].todo = due],
               cl[c].pc = "idle", UNCHANGED <<labels, rankQueue, weights, wg, faults>>
        PROVE  FollowInv'
    BY <1>6, <1>4, TakeDaysFacts
  <1>7. CASE ClaimDays
    <2>1. PICK due \in SUBSET Days : cl' = [cl EXCEPT ![Worker].todo = due]
      BY <1>7 DEF ClaimDays, TypeOK
    <2>2. /\ Worker \in Classifiers /\ cl[Worker].pc = "idle"
          /\ UNCHANGED <<labels, rankQueue, weights, wg, faults>>
      BY <1>7 DEF Classifiers, ClaimDays
    <2> HIDE DEF Worker
    <2> QED
      BY <2>1, <2>2, <1>6
  <1>8. ASSUME NEW c \in Operators, Reclassify(c)
        PROVE  FollowInv'
    <2>1. PICK range \in SUBSET Days : cl' = [cl EXCEPT ![c].todo = range]
      BY <1>8 DEF Reclassify
    <2>2. c \in Classifiers
      BY DEF Classifiers
    <2> QED
      BY <1>8, <2>1, <2>2, <1>6 DEF Reclassify
  <1> QED
    BY <1>f, <1>1, <1>2, <1>3, <1>5, <1>7, <1>8, WriteDayFollows, CommitDayFollows,
       ReadLabelsFollows, WriteWeightsFollows
    DEF Next, Storing, Measuring, Classifying, Weighing, vars, RefreshActivity, Ingest, Import,
        TakeId, Commit, MarkDirty, LengthSet, LengthTold, Sweep, WeighingFails, ClassifyFails,
        MarkLost, Restart, Fault

(* While nothing fails, a labelled day no import adds to has weights made  *)
(* from its present labels, or still waits for the weigher.                *)
THEOREM WeightsStayTrue == Spec => []WeightsFollowLabels
  <1>1. Init => FollowInv
    BY DEF Init, FollowInv, QueuedStays, WeightsFollowLabels, AtRest, NoLabels, Labelled
  <1>2. TypeOK /\ InHand /\ LockInv /\ OrderInv /\ FollowInv /\ [Next]_vars => FollowInv'
    BY FollowStep
  <1>3. FollowInv => WeightsFollowLabels
    BY DEF FollowInv
  <1> QED
    BY <1>1, <1>2, <1>3, TypeInvariant, LockInvariant, OrderInvariant, PTL DEF Spec

-----------------------------------------------------------------------------
(***************************************************************************)
(* A tail reaches the next day's labels.  The worker alone sees to it, one *)
(* day at a time: whichever of the two days it has in its hands, it has    *)
(* read the tail, or the day the tail belongs to is queued again.          *)
(***************************************************************************)
WorkerAlone ==
    /\ \A c \in Operators : ~Working(c) /\ cl[c].todo = {}
    /\ ruleset = 1 /\ \A d \in Days : labels[d].ruleset \in {0, 1}

(* What the worker reads of day d.                                         *)
Relevant(d, p) == DayOf[p] = d \/ (p \in Tail /\ DayOf[p] = d - 1)

(* A lookback never names more than is stored, nor more than is read.      *)
TailsAreRead ==
    /\ \A d \in Days : labels[d].lookback \subseteq TailOf(d - 1, Stored)
    /\ Working(Worker) =>
         LET d == cl[Worker].day IN
           /\ \A p \in cl[Worker].rows : Relevant(d, p)
           /\ labels[d].lookback \subseteq cl[Worker].rows
           /\ d + 1 \in Days => labels[d + 1].lookback \subseteq cl[Worker].rows
           /\ \A p \in Plays : stage[p] = "told" /\ Relevant(d, p) =>
                p \in cl[Worker].rows \/ Waiting(DayOf[p])

(* Lookbacks of equal size are the same, so a tail that did not move is in *)
(* the next day's labels; and a day that was queued still is, as the only  *)
(* one who claims has a day in its hands.                                  *)
StillTails ==
    cl[Worker].pc = "written" /\ ~cl[Worker].queuesNext =>
        LET d == cl[Worker].day IN
          d + 1 \in Days /\ Labelled(d + 1) =>
              \/ labels[d + 1].lookback = TailOf(d, cl[Worker].rows)
              \/ Waiting(d + 1)

(* The tail's scrobble p is where TailReachesNextDay says.                 *)
Reached(p) ==
    LET d == DayOf[p] IN
      \/ p \in labels[d + 1].lookback \/ ReadFor(d + 1, p)
      \/ Waiting(d) \/ InWork(d) \/ Waiting(d + 1)

TailCore ==
    /\ WorkerAlone /\ TailsAreRead /\ StillTails
    /\ \A p \in Tail :
         stage[p] = "told" /\ DayOf[p] + 1 \in Days /\ Labelled(DayOf[p] + 1) => Reached(p)

TailInv == faults = 0 /\ commands = 0 => TailCore

(* Steps that classify nothing and queue the day of what they mark.        *)
LEMMA QuietTails ==
  ASSUME TypeOK, TailCore, queue \subseteq queue', UNCHANGED <<labels, cl, ruleset>>,
         Stored \subseteq Stored',
         \A p \in Plays : stage'[p] = "told" => stage[p] = "told" \/ DayOf[p] \in queue'
  PROVE  TailCore'
  <1>1. \A d : Waiting(d) => Waiting(d)'
    BY DEF Waiting
  <1>2. WorkerAlone' /\ StillTails'
    BY <1>1 DEF TailCore, WorkerAlone, Working, StillTails, Labelled, TailOf, On
  <1>3. \A d \in Days : labels'[d].lookback \subseteq TailOf(d - 1, Stored)'
    BY DEF TailCore, TailsAreRead, TailOf, On
  <1>4. \A p \in Plays : stage'[p] = "told" => stage[p] = "told" \/ Waiting(DayOf[p])'
    BY DEF Waiting
  <1>5. TailsAreRead'
    <2> HIDE DEF Worker
    <2> QED
      BY <1>1, <1>3, <1>4 DEF TailCore, TailsAreRead, Working, Relevant
  <1>6. \A p : Reached(p) => Reached(p)'
    BY <1>1 DEF Reached, ReadFor, InWork
  <1>7. \A p \in Tail : Waiting(DayOf[p])' => Reached(p)'
    BY DEF Reached
  <1>8. Tail \subseteq Plays
    BY LabelsAssumption
  <1> QED
    BY <1>2, <1>4, <1>5, <1>6, <1>7, <1>8 DEF TailCore, Labelled

LEMMA ClaimDaysTails ==
  ASSUME TypeOK, TailCore, ClaimDays
  PROVE  TailCore'
  <1>0. Worker \in Classifiers /\ Operators \subseteq Classifiers \ {Worker}
    BY LabelsAssumption DEF Classifiers
  <1>1. PICK due \in SUBSET Days :
          /\ cl' = [cl EXCEPT ![Worker].todo = due] /\ queue' = queue \ due
          /\ cl[Worker].pc = "idle" /\ cl[Worker].todo = {}
          /\ UNCHANGED <<scrobbleVars, labels, ruleset>>
    BY DEF ClaimDays, TypeOK
  <1> HIDE DEF Worker
  <1>2. cl'[Worker].pc = "idle" /\ cl'[Worker].todo = due /\ OthersRest(Worker)
    BY <1>0, <1>1, TakeDaysFacts
  <1>3. \A d : Waiting(d) => Waiting(d)'
    BY <1>0, <1>1, <1>2 DEF Waiting, OthersRest
  <1>4. WorkerAlone' /\ StillTails'
    BY <1>0, <1>1, <1>2 DEF TailCore, WorkerAlone, Working, StillTails, OthersRest
  <1>5. TailsAreRead'
    BY <1>1, <1>2 DEF TailCore, TailsAreRead, Working, TailOf, On, Stored
  <1>6. \A p : Reached(p) => Reached(p)'
    BY <1>1, <1>2, <1>3 DEF Reached, ReadFor, InWork, OthersRest
  <1> QED
    BY <1>1, <1>4, <1>5, <1>6 DEF TailCore, Labelled

LEMMA ReadDayTails ==
  ASSUME TypeOK, TailCore, ReadDay(Worker)
  PROVE  TailCore'
  <1>0. Worker \in Classifiers /\ Operators \subseteq Classifiers \ {Worker}
    BY LabelsAssumption DEF Classifiers
  <1> HIDE DEF Worker
  <1>1. PICK d \in cl[Worker].todo :
            /\ ~Working(Worker) /\ cl'[Worker].pc = "read" /\ cl'[Worker].day = d
            /\ cl'[Worker].todo = cl[Worker].todo \ {d}
            /\ cl'[Worker].rows = On(d, Stored) \cup TailOf(d - 1, Stored)
            /\ OthersRest(Worker) /\ UNCHANGED <<scrobbleVars, queue, labels, ruleset>>
    BY <1>0, ReadDayFacts
  <1>2. d \in Days /\ d \in Int
    BY <1>0 DEF TypeOK, Classifications, Days
  <1>3. \A k : k # d /\ Waiting(k) => Waiting(k)'
    BY <1>1 DEF Waiting, OthersRest
  <1>4. WorkerAlone' /\ StillTails'
    BY <1>0, <1>1 DEF TailCore, WorkerAlone, Working, StillTails, OthersRest
  <1>5. \A p \in Plays : stage[p] = "told" /\ Relevant(d, p) => p \in cl'[Worker].rows
    BY <1>1 DEF Relevant, On, TailOf, Stored
  <1>6. TailsAreRead'
    <2>1. \A k \in Days : labels[k].lookback \subseteq TailOf(k - 1, Stored)
      BY DEF TailCore, TailsAreRead
    <2>2. \A p \in cl'[Worker].rows : Relevant(d, p)
      BY <1>1 DEF Relevant, On, TailOf
    <2>3. labels[d].lookback \subseteq cl'[Worker].rows
      BY <1>1, <1>2, <2>1
    <2>4. d + 1 \in Days => labels[d + 1].lookback \subseteq cl'[Worker].rows
      <3> SUFFICES ASSUME d + 1 \in Days
                   PROVE  labels[d + 1].lookback \subseteq cl'[Worker].rows
        OBVIOUS
      <3>1. (d + 1) - 1 = d
        BY <1>2
      <3>2. labels[d + 1].lookback \subseteq TailOf(d, Stored)
        BY <2>1, <3>1
      <3> QED
        BY <1>1, <3>2 DEF TailOf
    <2>5. \A k \in Days : labels'[k].lookback \subseteq TailOf(k - 1, Stored)'
      BY <1>1, <2>1 DEF TailOf, On, Stored
    <2> QED
      BY <1>1, <1>5, <2>2, <2>3, <2>4, <2>5 DEF TailsAreRead, Relevant
  <1> SUFFICES ASSUME NEW p \in Tail, stage[p] = "told", DayOf[p] + 1 \in Days,
                      Labelled(DayOf[p] + 1)
               PROVE  Reached(p)'
    BY <1>1, <1>4, <1>6 DEF TailCore, Labelled
  <1>7. p \in Plays /\ DayOf[p] \in Int /\ Reached(p)
    BY LabelsAssumption DEF TailCore, Days
  <1>8. InWork(d)'
    BY <1>0, <1>1 DEF InWork
  <1>9. CASE d = DayOf[p]
    BY <1>8, <1>9 DEF Reached
  <1>10. CASE d = DayOf[p] + 1
    <2>1. p \in cl'[Worker].rows
      BY <1>5, <1>7, <1>10 DEF Relevant
    <2>2. ReadFor(d, p)'
      BY <1>0, <1>1, <2>1 DEF ReadFor
    <2> QED
      BY <1>10, <2>2 DEF Reached
  <1>11. CASE d # DayOf[p] /\ d # DayOf[p] + 1
    <2>1. \A k : InWork(k) => InWork(k)'
      BY <1>1 DEF InWork, OthersRest, Working
    <2>2. \A k : ReadFor(k, p) => ReadFor(k, p)'
      BY <1>1 DEF ReadFor, OthersRest, Working
    <2> QED
      BY <1>1, <1>3, <1>7, <1>11, <2>1, <2>2 DEF Reached
  <1> QED
    BY <1>9, <1>10, <1>11

LEMMA WriteDayTails ==
  ASSUME TypeOK, InHand, TailCore, WriteDay(Worker)
  PROVE  TailCore'
  <1>0. Worker \in Classifiers /\ Operators \subseteq Classifiers \ {Worker}
    BY LabelsAssumption DEF Classifiers
  <1> HIDE DEF Worker
  <1>1. /\ cl[Worker].pc = "read" /\ cl'[Worker].pc = "written"
        /\ cl'[Worker].day = cl[Worker].day /\ cl'[Worker].todo = cl[Worker].todo
        /\ cl'[Worker].rows = cl[Worker].rows
        /\ cl'[Worker].queuesNext = (TailMoved(cl[Worker].day, cl[Worker].rows)
                                    /\ cl[Worker].day + 1 \notin queue)
        /\ OthersRest(Worker) /\ UNCHANGED <<scrobbleVars, queue, labels, ruleset>>
    BY <1>0, WriteDayFacts
  <1>2. \A k : Waiting(k) <=> Waiting(k)'
    BY <1>1 DEF Waiting, OthersRest
  <1>3. WorkerAlone'
    BY <1>0, <1>1 DEF TailCore, WorkerAlone, Working, OthersRest
  <1>4. TailsAreRead'
    BY <1>1, <1>2 DEF TailCore, TailsAreRead, Working, Relevant, TailOf, On, Stored
  <1>5. \A p : Reached(p) => Reached(p)'
    BY <1>1, <1>2 DEF Reached, ReadFor, InWork, OthersRest
  <1>6. StillTails'
    <2> DEFINE d == cl[Worker].day
               rows == cl[Worker].rows
    <2>0. d + 1 \in queue => Waiting(d + 1)'
      BY <1>1 DEF Waiting
    <2> SUFFICES ASSUME ~TailMoved(d, rows), d + 1 \in Days, Labelled(d + 1)
                 PROVE  labels[d + 1].lookback = TailOf(d, rows)
      BY <1>1, <2>0 DEF StillTails, Labelled, TailOf, On
    <2>1. labels[d + 1].ruleset = ruleset
      BY DEF TailCore, WorkerAlone, Labelled
    <2>2. Cardinality(labels[d + 1].lookback) = Cardinality(TailOf(d, rows))
      BY <2>1 DEF TailMoved
    <2>3. d \in Days /\ d \in Int /\ rows \subseteq Plays
      BY <1>0, <1>1 DEF InHand, Working, Days, TypeOK, Classifications
    <2>4. (d + 1) - 1 = d
      BY <2>3
    <2>5. labels[d + 1].lookback \subseteq TailOf(d, Stored)
      BY <2>4 DEF TailCore, TailsAreRead
    <2>6. labels[d + 1].lookback \subseteq rows
      BY <1>1 DEF TailCore, TailsAreRead, Working
    <2>7. labels[d + 1].lookback \subseteq TailOf(d, rows)
      BY <2>5, <2>6 DEF TailOf, On
    <2>8. IsFiniteSet(TailOf(d, rows))
      <3>1. TailOf(d, rows) \subseteq Plays
        BY <2>3 DEF TailOf, On
      <3> QED
        BY <3>1, LabelsAssumption, FS_Subset
    <2> QED
      BY <2>2, <2>7, <2>8, FS_Subset
  <1> QED
    BY <1>1, <1>3, <1>4, <1>5, <1>6 DEF TailCore, Labelled

LEMMA CommitDayTails ==
  ASSUME TypeOK, InHand, LockInv, TailCore, CommitDay(Worker)
  PROVE  TailCore'
  <1>0. Worker \in Classifiers /\ Operators \subseteq Classifiers \ {Worker}
        /\ Classifiers = Operators \cup {Worker}
    BY LabelsAssumption DEF Classifiers
  <1> HIDE DEF Worker
  <1> DEFINE d == cl[Worker].day
             rows == cl[Worker].rows
  <1>1. /\ cl[Worker].pc = "written" /\ cl'[Worker].pc = "idle"
        /\ cl'[Worker].todo = cl[Worker].todo /\ OthersRest(Worker)
        /\ queue' = (IF cl[Worker].queuesNext THEN queue \cup {d + 1} ELSE queue)
        /\ UNCHANGED <<scrobbleVars, ruleset>>
    BY <1>0, CommitDayFacts DEF CommitDay, QueueNext
  <1>2. /\ d \in Days /\ d \in Int /\ labels'[d] = DayRow(Worker)
        /\ \A k \in Days \ {d} : labels'[k] = labels[k]
    BY <1>0, CommitLocks DEF Days
  <1>3. /\ DayRow(Worker).ruleset \in {0, 1}
        /\ DayRow(Worker).ruleset # 0 => DayRow(Worker).lookback = rows \ On(d, rows)
        /\ DayRow(Worker).lookback \subseteq rows \ On(d, rows)
    BY DEF DayRow, NoLabels, TailCore, WorkerAlone
  <1>4. rows \subseteq Stored /\ \A p \in rows : Relevant(d, p)
    BY <1>0, <1>1 DEF InHand, TailCore, TailsAreRead, Working
  <1>5. \A k : Waiting(k) => Waiting(k)'
    BY <1>1 DEF Waiting, OthersRest
  <1>6. WorkerAlone'
    BY <1>0, <1>1, <1>2, <1>3 DEF TailCore, WorkerAlone, Working, OthersRest
  <1>7. StillTails'
    BY <1>1 DEF StillTails
  <1>8. \A k \in Days : labels'[k].lookback \subseteq TailOf(k - 1, Stored)
    <2>1. rows \ On(d, rows) \subseteq TailOf(d - 1, Stored)
      BY <1>4 DEF Relevant, TailOf, On
    <2> QED
      BY <1>2, <1>3, <2>1 DEF TailCore, TailsAreRead
  <1>9. TailsAreRead'
    BY <1>1, <1>8 DEF TailsAreRead, Working, TailOf, On, Stored
  <1> SUFFICES ASSUME NEW p \in Tail, stage[p] = "told", DayOf[p] + 1 \in Days,
                      Labelled(DayOf[p] + 1)'
               PROVE  Reached(p)'
    BY <1>1, <1>6, <1>7, <1>9 DEF TailCore
  <1>10. p \in Plays /\ DayOf[p] \in Int
    BY LabelsAssumption DEF Days
  <1>11. Relevant(d, p) => p \in rows \/ Waiting(DayOf[p])
    BY <1>1, <1>10 DEF TailCore, TailsAreRead, Working
  <1>12. CASE Waiting(DayOf[p]) \/ Waiting(DayOf[p] + 1)
    BY <1>5, <1>12 DEF Reached
  <1>13. CASE d = DayOf[p] /\ p \in rows
    <2>1. Labelled(d + 1) /\ labels'[d + 1] = labels[d + 1] /\ d + 1 \in Days
      BY <1>2, <1>13 DEF Labelled
    <2>2. CASE cl[Worker].queuesNext
      BY <1>1, <1>13, <2>2 DEF Reached, Waiting
    <2>3. CASE ~cl[Worker].queuesNext
      <3>1. labels[d + 1].lookback = TailOf(d, rows) \/ Waiting(d + 1)
        BY <1>1, <2>1, <2>3 DEF TailCore, StillTails
      <3>2. p \in TailOf(d, rows)
        BY <1>13 DEF TailOf, On
      <3> QED
        BY <1>5, <1>13, <2>1, <3>1, <3>2 DEF Reached
    <2> QED
      BY <2>2, <2>3
  <1>14. CASE d = DayOf[p] + 1 /\ p \in rows
    <2>1. p \in rows \ On(d, rows) /\ DayRow(Worker).ruleset # 0
      BY <1>2, <1>10, <1>14 DEF On, Labelled
    <2>2. p \in labels'[DayOf[p] + 1].lookback
      BY <1>2, <1>3, <1>14, <2>1
    <2> QED
      BY <2>2 DEF Reached
  <1>15. CASE d # DayOf[p] /\ d # DayOf[p] + 1
    <2>1. labels'[DayOf[p] + 1] = labels[DayOf[p] + 1]
      BY <1>2, <1>15
    <2>2. Reached(p)
      BY <2>1 DEF TailCore, Labelled
    <2>3. ~InWork(DayOf[p]) /\ ~ReadFor(DayOf[p] + 1, p)
      BY <1>0, <1>15 DEF InWork, ReadFor, TailCore, WorkerAlone, Working
    <2> QED
      BY <1>12, <2>1, <2>2, <2>3 DEF Reached
  <1> QED
    BY <1>10, <1>11, <1>12, <1>13, <1>14, <1>15 DEF Relevant

LEMMA TailStep ==
  ASSUME TypeOK, InHand, LockInv, TailInv, [Next]_vars
  PROVE  TailInv'
  <1> SUFFICES ASSUME faults' = 0, commands' = 0
               PROVE  TailCore'
    BY DEF TailInv
  <1>0. faults' # faults + 1 /\ commands' # commands + 1
    BY DEF TypeOK
  <1>a. faults = faults' /\ commands = commands' => TailCore
    BY DEF TailInv
  <1>1. ASSUME NEW p \in Plays, Ingest(p) \/ Import(p)
        PROVE  TailCore'
    <2>1. TakeId(p)
      BY <1>1 DEF Ingest, Import
    <2>2. Stored \subseteq Stored'
      BY <2>1, StoredGrows DEF TakeId
    <2> QED
      BY <1>a, <2>1, <2>2, QuietTails DEF TakeId, TypeOK
  <1>2. ASSUME NEW p \in Plays, Commit(p) \/ MarkDirty(p)
        PROVE  TailCore'
    <2>1. Stored \subseteq Stored'
      BY <1>2, StoredGrows DEF Commit, MarkDirty
    <2> QED
      BY <1>2, <1>a, <2>1, QuietTails DEF Commit, MarkDirty, TypeOK
  <1>3. CASE UNCHANGED <<stage, labels, cl, ruleset, faults, commands>> /\ queue \subseteq queue'
    BY <1>3, <1>a, QuietTails DEF Stored
  <1>4. CASE ClaimDays
    BY <1>4, <1>a, ClaimDaysTails DEF ClaimDays
  <1>5. ASSUME NEW c \in Classifiers, Classifying(c)
        PROVE  TailCore'
    <2>1. TailCore
      BY <1>5, <1>a DEF Classifying, ReadDay, WriteDay, CommitDay
    <2>2. c = Worker
      BY <1>5, <2>1
      DEF TailCore, WorkerAlone, Working, Classifiers, Classifying, ReadDay, WriteDay, CommitDay
    <2> HIDE DEF Worker
    <2>3. Classifying(Worker)
      BY <1>5, <2>2
    <2> QED
      BY <2>1, <2>3, ReadDayTails, WriteDayTails, CommitDayTails DEF Classifying
  <1> QED
    BY <1>0, <1>1, <1>2, <1>3, <1>4, <1>5
    DEF Next, Storing, Measuring, Weighing, vars, LengthSet, LengthTold, RefreshActivity, Sweep,
        SweepWeights, ClaimWeighing, ReadLabels, WriteWeights, WeighingFails, ClassifyFails,
        MarkLost, Restart, Fault, Reclassify

(* While nothing fails and no command runs beside the worker, a scrobble   *)
(* in a day's tail reaches the labels of the next day, or one of the two   *)
(* days is still to be classified.                                         *)
THEOREM TailsReachNextDay == Spec => []TailReachesNextDay
  <1>1. Init => TailInv
    <2>1. Init => \A d \in Days : NoLabels.lookback \subseteq TailOf(d - 1, Stored)
      BY DEF NoLabels
    <2>2. Worker \in Classifiers /\ Operators \subseteq Classifiers
      BY DEF Classifiers
    <2>3. AtRest.pc = "idle" /\ AtRest.todo = {}
      BY DEF AtRest
    <2>4. NoLabels.ruleset = 0 /\ Tail \subseteq Plays
      BY LabelsAssumption DEF NoLabels
    <2> HIDE DEF Worker
    <2> QED
      BY <2>1, <2>2, <2>3, <2>4
      DEF Init, TailInv, TailCore, WorkerAlone, TailsAreRead, StillTails, Working
  <1>2. TypeOK /\ InHand /\ LockInv /\ TailInv /\ [Next]_vars => TailInv'
    BY TailStep
  <1>3. TailInv => TailReachesNextDay
    BY DEF TailInv, TailCore, TailReachesNextDay, Reached
  <1> QED
    BY <1>1, <1>2, <1>3, TypeInvariant, LockInvariant, PTL DEF Spec
=============================================================================
