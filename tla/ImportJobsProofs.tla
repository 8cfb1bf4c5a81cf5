-------------------------- MODULE ImportJobsProofs --------------------------
(* Theorems about ImportJobs, for every value of its constants.            *)
EXTENDS ImportJobs, FiniteSetTheorems, TLAPS

LEMMA IdleType == Idle \in Local
  BY ConstantsAssumption DEF Local, Idle, PCs, Intents, Failures

(* A process between two steps: well typed, with a job in hand unless it   *)
(* is idle or picking a leftover, and undecided while it fetches.          *)
Sound(l) ==
    /\ l \in Local
    /\ l.pc \notin {"idle", "leftovers"} => l.job \in Jobs
    /\ l.pc = "fetch" => l.then = "lost"

JobInHand == \A w \in Workers : Sound(wk[w])

(* A checkpoint is entered and left with a well-typed process.             *)
LEMMA CheckpointType ==
  ASSUME NEW l \in Local, NEW intent \in Intents
  PROVE  Checkpoint(l, intent) \in Local
  <1>1. CASE intent = "walk"
    BY <1>1 DEF Local, Checkpoint, PCs
  <1>2. CASE intent # "walk"
    <2>1. Checkpoint(l, intent) = [Idle EXCEPT !.pc = "read", !.job = l.job, !.then = intent,
                      !.attempts = IF intent = "defer" THEN l.attempts ELSE 0,
                      !.todo = l.todo]
      BY <1>2 DEF Checkpoint
    <2>2. l.job \in Jobs \cup {NoJob} /\ l.attempts \in Nat /\ l.todo \in SUBSET Jobs
      BY DEF Local
    <2>3. \A n \in Nat : [Idle EXCEPT !.pc = "read", !.job = l.job, !.then = intent,
                                      !.attempts = n, !.todo = l.todo] \in Local
      BY <2>2, IdleType DEF Local, PCs
    <2>4. (IF intent = "defer" THEN l.attempts ELSE 0) \in Nat
      BY <2>2
    <2> QED BY <2>1, <2>3, <2>4
  <1> QED BY <1>1, <1>2

LEMMA AfterCheckpointType ==
  ASSUME NEW l \in Local
  PROVE  AfterCheckpoint(l) \in Local
  BY IdleType DEF Local, AfterCheckpoint, PCs, Intents, Failures

LEMMA ImportedBeforeType == \A j \in Jobs : ImportedBefore(j) \in Nat
  <1>1. Cardinality(Plays) \in Nat
    BY HistoryAssumption, FS_CardinalityType
  <1>2. IsFiniteSet(1..Cardinality(Plays))
    BY <1>1, FS_Interval
  <1>3. IsFiniteSet(Jobs \X (1..Cardinality(Plays)))
    BY <1>2, ActorsAssumption, FS_Product
  <1> QED
    BY <1>3, FS_Subset, FS_CardinalityType DEF ImportedBefore

LEMMA FreshType == \A w : Fresh(w) \in SUBSET Plays /\ Cardinality(Fresh(w)) \in Nat
  BY HistoryAssumption, FS_Subset, FS_CardinalityType DEF Fresh

(* Replacing one row, or one process, by a well-typed one.                 *)
LEMMA RowType ==
  ASSUME TypeOK, NEW j \in Jobs, NEW r \in Row, row' = [row EXCEPT ![j] = r]
  PROVE  row' \in [Jobs -> Row]
  BY DEF TypeOK

LEMMA WorkerType ==
  ASSUME TypeOK, JobInHand, NEW w \in Workers, NEW l, Sound(l), wk' = [wk EXCEPT ![w] = l]
  PROVE  wk' \in [Workers -> Local] /\ JobInHand'
  BY DEF TypeOK, JobInHand, Sound

LEMMA TouchType ==
  ASSUME NEW j, Touch(j)
  PROVE  older' \in SUBSET (Jobs \X Jobs)
  BY DEF Touch

LEMMA InitType == Init => TypeOK
  <1> SUFFICES ASSUME Init PROVE TypeOK
    OBVIOUS
  <1>1. NewRow \in Row
    BY ConstantsAssumption DEF NewRow, Row, Ended, Failures
  <1> QED
    BY <1>1, IdleType DEF Init, TypeOK, Consumers

LEMMA UnleaseType ==
  ASSUME NEW r \in Row
  PROVE  Unlease(r) \in Row
  BY DEF Unlease, Row

LEMMA CheckpointSound ==
  ASSUME NEW l \in Local, l.job \in Jobs, NEW intent \in Intents
  PROVE  Sound(Checkpoint(l, intent)) /\ Checkpoint(l, intent).job = l.job
  <1>1. CASE intent = "walk"
    BY <1>1, CheckpointType DEF Checkpoint, Sound, Local
  <1>2. CASE intent # "walk"
    BY <1>2, CheckpointType DEF Checkpoint, Sound, Idle
  <1> QED
    BY <1>1, <1>2

LEMMA AfterCheckpointSound ==
  ASSUME NEW l \in Local, l.job \in Jobs
  PROVE  Sound(AfterCheckpoint(l))
  BY AfterCheckpointType DEF AfterCheckpoint, Sound, Local, Idle

LEMMA AfterPageSound ==
  ASSUME NEW l \in Local, l.job \in Jobs, l.pc = "fetch" => l.then = "lost", NEW n \in Nat
  PROVE  Sound(AfterPage(l, n))
  <1> DEFINE counted == [l EXCEPT !.imported = @ + n, !.pages = @ + 1]
             moved == [counted EXCEPT !.page = @ + 1]
  <1>1. counted \in Local /\ counted.page = l.page
    <2>1. l.imported + n \in Nat /\ l.pages + 1 \in Nat
      BY DEF Local
    <2>2. \A x, y \in Nat : /\ [l EXCEPT !.imported = x, !.pages = y] \in Local
                           /\ [l EXCEPT !.imported = x, !.pages = y].page = l.page
      BY DEF Local
    <2>3. counted = [l EXCEPT !.imported = l.imported + n, !.pages = l.pages + 1]
      BY DEF Local
    <2> QED
      BY <2>1, <2>2, <2>3
  <1>2. counted.job \in Jobs /\ (counted.pc = "fetch" => counted.then = "lost")
    BY DEF Local
  <1> HIDE DEF counted
  <1>3. l.page # Pages => Sound(moved) /\ moved \in Local /\ moved.job \in Jobs
    <2> SUFFICES ASSUME l.page # Pages
                 PROVE  Sound(moved) /\ moved \in Local /\ moved.job \in Jobs
      OBVIOUS
    <2>1. counted.page + 1 \in 1..Pages
      BY <1>1, ConstantsAssumption DEF Local
    <2>2. \A x \in 1..Pages : /\ [counted EXCEPT !.page = x] \in Local
                             /\ [counted EXCEPT !.page = x].job = counted.job
                             /\ [counted EXCEPT !.page = x].pc = counted.pc
                             /\ [counted EXCEPT !.page = x].then = counted.then
      BY <1>1 DEF Local
    <2> QED
      BY <2>1, <2>2, <1>2 DEF Sound
  <1>4. "done" \in Intents /\ "walk" \in Intents
    BY DEF Intents
  <1>5. CASE l.page = Pages
    BY <1>1, <1>2, <1>4, <1>5, CheckpointSound DEF AfterPage, counted
  <1>6. CASE l.page # Pages
    <2> HIDE DEF moved
    <2>1. Sound(Checkpoint(moved, "walk"))
      BY <1>3, <1>4, <1>6, CheckpointSound
    <2>2. Sound(moved)
      BY <1>3, <1>6
    <2> QED
      BY <1>6, <2>1, <2>2 DEF AfterPage, counted, moved
  <1> QED
    BY <1>5, <1>6

-----------------------------------------------------------------------------
(* Every step keeps the types.                                             *)
LEMMA LeaseType ==
  ASSUME TypeOK, JobInHand, NEW w \in Workers, NEW j \in Jobs, Lease(w, j)
  PROVE  TypeOK' /\ JobInHand'
  <1>1. row[j] \in Row
    BY DEF TypeOK
  <1>2. [row[j] EXCEPT !.status = "running", !.token = w, !.leased = TRUE] \in Row
    BY <1>1 DEF Row, Active
  <1>3. row' \in [Jobs -> Row]
    BY <1>2, RowType DEF Lease
  <1> DEFINE l == [Idle EXCEPT !.pc = "fetch",
                     !.job = j,
                     !.page = row[j].page,
                     !.imported = row[j].imported,
                     !.before = ImportedBefore(j),
                     !.attempts = row[j].attempts,
                     !.lovedPage = row[j].lovedPage,
                     !.lovedDone = row[j].lovedDone]
  <1>4. l \in Local /\ l.job = j /\ l.then = "lost"
    BY <1>1, IdleType, ImportedBeforeType DEF Local, PCs, Row, Idle
  <1>5. Sound(l)
    BY <1>4 DEF Sound
  <1>6. wk' = [wk EXCEPT ![w] = l]
    BY DEF Lease
  <1> HIDE DEF l
  <1>7. wk' \in [Workers -> Local] /\ JobInHand'
    BY <1>5, <1>6, WorkerType
  <1> QED
    BY <1>3, <1>7, TouchType DEF TypeOK, Lease

(* The steps that change nothing but one process.                          *)
LEMMA OnlyWorkerType ==
  ASSUME TypeOK, JobInHand, NEW w \in Workers, NEW l, Sound(l), wk' = [wk EXCEPT ![w] = l],
         UNCHANGED <<row, older, store, queued>>, faults' \in Nat
  PROVE  TypeOK' /\ JobInHand'
  BY WorkerType DEF TypeOK

(* The steps that write one row and change one process.                    *)
LEMMA RowAndWorkerType ==
  ASSUME TypeOK, JobInHand, NEW w \in Workers, NEW l, Sound(l), wk' = [wk EXCEPT ![w] = l],
         NEW j \in Jobs, NEW r \in Row, row' = [row EXCEPT ![j] = r], Touch(j),
         UNCHANGED <<store, queued>>, faults' \in Nat
  PROVE  TypeOK' /\ JobInHand'
  BY WorkerType, RowType, TouchType DEF TypeOK

LEMMA OnlyRowType ==
  ASSUME TypeOK, JobInHand, NEW j \in Jobs, NEW r \in Row, row' = [row EXCEPT ![j] = r],
         Touch(j) \/ UNCHANGED older, UNCHANGED <<store, queued, wk>>, faults' \in Nat
  PROVE  TypeOK' /\ JobInHand'
  <1>1. row' \in [Jobs -> Row]
    BY RowType
  <1>2. older' \in SUBSET (Jobs \X Jobs)
    BY TouchType DEF TypeOK
  <1> QED
    BY <1>1, <1>2 DEF TypeOK, JobInHand

(* The steps of a process that has a job in hand.                          *)
LEMMA WorkType ==
  ASSUME TypeOK, JobInHand, NEW w \in Workers, Work(w)
  PROVE  TypeOK' /\ JobInHand'
  <1> DEFINE j == wk[w].job
             l == wk[w]
  <1>l. l \in Local /\ Sound(l)
    BY DEF TypeOK, JobInHand
  <1>f. faults \in Nat
    BY DEF TypeOK
  <1>i. Intents = {"cap_reached", "lastfm_error", "lastfm_unavailable",
                   "walk", "done", "defer", "release", "lost", "leftovers"}
    BY DEF Intents, Failures
  <1>idle. Sound(Idle)
    BY IdleType DEF Sound, Idle
  <1>busy. l.pc \notin {"idle", "leftovers"} => j \in Jobs /\ row[j] \in Row
    BY <1>l DEF Sound, TypeOK
  <1>cp. l.pc \notin {"idle", "leftovers"} => \A i \in Intents : Sound(Checkpoint(l, i))
    BY <1>l, <1>busy, CheckpointSound
  <1>ac. l.pc \notin {"idle", "leftovers"} => Sound(AfterCheckpoint(l))
    BY <1>l, <1>busy, AfterCheckpointSound
  <1>1. CASE LovesRecorded(w)
    <2>1. j \in Jobs /\ row[j] \in Row
      BY <1>1, <1>busy DEF LovesRecorded, InLoves
    <2>2. PICK capped \in BOOLEAN :
            LET over == l.lovedPage >= LovedPages \/ capped
                next == l.lovedPage + 1
            IN  /\ row' = [row EXCEPT ![j] =
                              [@ EXCEPT !.lovedPage = next, !.lovedDone = over,
                                        !.attempts = 0, !.leased = TRUE]]
                /\ wk' = [wk EXCEPT ![w] =
                              [wk[w] EXCEPT !.lovedPage = next, !.lovedDone = over,
                                            !.pages = @ + 1]]
      BY <1>1 DEF LovesRecorded
    <2> DEFINE over == l.lovedPage >= LovedPages \/ capped
               next == l.lovedPage + 1
               more == l.pages + 1
               r == [row[j] EXCEPT !.lovedPage = next, !.lovedDone = over,
                                   !.attempts = 0, !.leased = TRUE]
               m == [l EXCEPT !.lovedPage = next, !.lovedDone = over, !.pages = more]
    <2>3. over \in BOOLEAN /\ next \in Nat /\ more \in Nat
      BY <1>l DEF Local
    <2>4. row' = [row EXCEPT ![j] = r] /\ wk' = [wk EXCEPT ![w] = m]
      <3>1. row' = [row EXCEPT ![j] = [row[j] EXCEPT !.lovedPage = next, !.lovedDone = over,
                                                     !.attempts = 0, !.leased = TRUE]]
        BY <2>2 DEF TypeOK
      <3>2. wk' = [wk EXCEPT ![w] = [wk[w] EXCEPT !.lovedPage = next, !.lovedDone = over,
                                                  !.pages = wk[w].pages + 1]]
        BY <2>2 DEF TypeOK
      <3> QED
        BY <3>1, <3>2
    <2> HIDE DEF over, next, more
    <2>5. r \in Row
      BY <2>1, <2>3 DEF Row
    <2>6. m \in Local /\ m.job = j /\ m.pc = l.pc /\ m.then = l.then
      BY <2>3, <1>l DEF Local
    <2>7. Sound(m)
      BY <2>6, <2>1, <1>l DEF Sound
    <2> HIDE DEF r, m
    <2> QED
      BY <2>1, <2>4, <2>5, <2>7, <1>1, <1>f, RowAndWorkerType DEF LovesRecorded
  <1>2. CASE LovesLost(w)
    BY <1>2, <1>f, <1>idle, OnlyWorkerType DEF LovesLost
  <1>3. CASE LovesSkipped(w)
    <2>1. j \in Jobs /\ row[j] \in Row
      BY <1>3, <1>busy DEF LovesSkipped, InLoves
    <2> DEFINE m == [l EXCEPT !.lovedDone = TRUE]
               r == [row[j] EXCEPT !.lovedDone = TRUE]
    <2>2. m \in Local /\ m.job = j /\ m.pc = l.pc /\ m.then = l.then /\ r \in Row
      BY <1>l, <2>1 DEF Local, Row
    <2>3. Sound(m)
      BY <2>1, <2>2, <1>l DEF Sound
    <2>4. wk' = [wk EXCEPT ![w] = m]
      BY <1>3 DEF LovesSkipped
    <2>5. \/ row' = [row EXCEPT ![j] = r] /\ Touch(j)
          \/ UNCHANGED <<row, older>>
      BY <1>3 DEF LovesSkipped
    <2>6. UNCHANGED <<store, queued, faults>>
      BY <1>3 DEF LovesSkipped
    <2> HIDE DEF m, r
    <2> QED
      BY <2>1, <2>2, <2>3, <2>4, <2>5, <2>6, <1>f, RowAndWorkerType, OnlyWorkerType
  <1>4. CASE SliceOver(w)
    BY <1>4, <1>f, <1>i, <1>cp, OnlyWorkerType DEF SliceOver
  <1>5. CASE CapReached(w)
    BY <1>5, <1>f, <1>i, <1>cp, OnlyWorkerType DEF CapReached, Walking
  <1>6. CASE PageRecorded(w)
    <2>1. j \in Jobs /\ row[j] \in Row /\ RecordPage(w)
      BY <1>6, <1>busy DEF PageRecorded, Walking
    <2> DEFINE fresh == Fresh(w)
               n == Cardinality(fresh)
               r == [row[j] EXCEPT !.page = NextPage(l.page),
                                !.imported = row[j].imported + n,
                                !.pending = Hull(row[j].pending \cup {TimeOf[p] : p \in fresh}),
                                !.attempts = 0, !.leased = TRUE]
               m == AfterPage(l, n)
    <2>2. n \in Nat /\ fresh \in SUBSET Plays
      BY FreshType
    <2>3. NextPage(l.page) \in 1..Pages
      BY <1>l, ConstantsAssumption DEF Local, NextPage
    <2>4. row[j].imported + n \in Nat
      BY <2>1, <2>2 DEF Row
    <2>5. Hull(row[j].pending \cup {TimeOf[p] : p \in fresh}) \in SUBSET Times
      BY DEF Hull
    <2>6. r \in Row
      BY <2>1, <2>3, <2>4, <2>5 DEF Row
    <2>7. Sound(m)
      BY <2>1, <2>2, <1>l, AfterPageSound DEF Sound
    <2>8. row' = [row EXCEPT ![j] = r] /\ wk' = [wk EXCEPT ![w] = m]
      <3>1. row' = [row EXCEPT ![j] = r]
        BY <2>1 DEF RecordPage
      <3>2. wk' = [wk EXCEPT ![w] = m]
        BY <2>1 DEF RecordPage
      <3> QED
        BY <3>1, <3>2
    <2>9. store' \in [Users -> [Plays -> {Absent, Live} \cup Jobs]]
      BY <2>1, ActorsAssumption DEF RecordPage, TypeOK
    <2>10. Touch(j) /\ UNCHANGED <<queued, faults>>
      BY <2>1 DEF RecordPage
    <2> HIDE DEF r, m
    <2>11. row' \in [Jobs -> Row]
      BY <2>1, <2>6, <2>8, RowType
    <2>12. wk' \in [Workers -> Local] /\ JobInHand'
      BY <2>7, <2>8, WorkerType
    <2> QED
      BY <2>9, <2>10, <2>11, <2>12, TouchType DEF TypeOK
  <1>7. CASE PageLost(w)
    BY <1>7, <1>f, <1>i, <1>cp, OnlyWorkerType DEF PageLost, Walking
  <1>8. CASE Refused(w)
    BY <1>8, <1>f, <1>i, <1>cp, OnlyWorkerType DEF Refused, Walking
  <1>9. CASE RateLimited(w) \/ Transient(w)
    <2>1. PICK n \in Nat : DeferOrGiveUp(w, n)
      BY <1>9, <1>l DEF RateLimited, Transient, Local
    <2>2. Requesting(w) /\ UNCHANGED <<row, older, store, queued, faults>>
      BY <1>9 DEF RateLimited, Transient
    <2>3. j \in Jobs
      BY <2>2, <1>busy DEF Requesting, InLoves, Walking
    <2> DEFINE m == [l EXCEPT !.attempts = n]
    <2>4. m \in Local /\ m.job = j
      BY <1>l DEF Local
    <2>5. \A i \in Intents : Sound(Checkpoint(m, i))
      <3> HIDE DEF m
      <3> QED
        BY <2>3, <2>4, CheckpointSound
    <2>6. wk' = [wk EXCEPT ![w] = Checkpoint(m, IF n >= MaxAttempts THEN "lastfm_unavailable" ELSE "defer")]
      BY <2>1 DEF DeferOrGiveUp
    <2> HIDE DEF m
    <2>7. Sound(Checkpoint(m, IF n >= MaxAttempts THEN "lastfm_unavailable" ELSE "defer"))
      BY <2>5, <1>i
    <2> QED
      BY <2>2, <2>6, <2>7, <1>f, OnlyWorkerType
  <1>10. CASE ReadPending(w)
    <2>1. j \in Jobs /\ row[j] \in Row
      BY <1>10, <1>busy DEF ReadPending
    <2> DEFINE m == [l EXCEPT !.pc = "classify", !.range = row[j].pending]
    <2>2. m \in Local /\ m.job = j /\ m.pc = "classify"
      BY <2>1, <1>l DEF Local, Row, PCs
    <2>3. Sound(m)
      BY <2>1, <2>2 DEF Sound
    <2>4. wk' = [wk EXCEPT ![w] = IF row[j].pending = {} THEN AfterCheckpoint(l) ELSE m]
      BY <1>10 DEF ReadPending
    <2>5. Sound(AfterCheckpoint(l))
      BY <1>10, <1>ac DEF ReadPending
    <2>6. UNCHANGED <<row, older, store, queued, faults>>
      BY <1>10 DEF ReadPending
    <2> HIDE DEF m
    <2> QED
      BY <2>3, <2>4, <2>5, <2>6, <1>f, OnlyWorkerType
  <1>11. CASE QueueClassification(w) \/ QueueEnrichment(w)
    <2>1. j \in Jobs /\ UserOf[j] \in Users
      BY <1>11, <1>busy, ActorsAssumption DEF QueueClassification, QueueEnrichment
    <2>2. PICK pc \in {"enrich", "clear"} : wk' = [wk EXCEPT ![w].pc = pc]
      BY <1>11 DEF QueueClassification, QueueEnrichment
    <2> DEFINE m == [l EXCEPT !.pc = pc]
    <2>3. m \in Local /\ m.job = j /\ m.pc # "fetch"
      BY <1>l DEF Local, PCs
    <2>4. Sound(m)
      BY <2>1, <2>3 DEF Sound
    <2>5. wk' = [wk EXCEPT ![w] = m]
      BY <2>2
    <2> HIDE DEF m
    <2>6. wk' \in [Workers -> Local] /\ JobInHand'
      BY <2>4, <2>5, WorkerType
    <2>7. InRange(w) \subseteq Plays
      BY DEF InRange
    <2>8. queued' \in [Consumers -> SUBSET (Users \X Plays)]
      BY <1>11, <2>1, <2>7 DEF QueueClassification, QueueEnrichment, TypeOK, Consumers
    <2> QED
      BY <1>11, <2>6, <2>8 DEF QueueClassification, QueueEnrichment, TypeOK, JobInHand
  <1>12. CASE ClearPending(w)
    <2>1. j \in Jobs /\ row[j] \in Row
      BY <1>12, <1>busy DEF ClearPending
    <2> DEFINE r == [row[j] EXCEPT !.pending = {}]
    <2>2. r \in Row
      BY <2>1 DEF Row
    <2>3. Sound(AfterCheckpoint(l)) /\ wk' = [wk EXCEPT ![w] = AfterCheckpoint(l)]
      BY <1>12, <1>ac DEF ClearPending
    <2>4. \/ row' = [row EXCEPT ![j] = r] /\ Touch(j)
          \/ UNCHANGED <<row, older>>
      BY <1>12 DEF ClearPending
    <2>5. UNCHANGED <<store, queued, faults>>
      BY <1>12 DEF ClearPending
    <2> HIDE DEF r
    <2> QED
      BY <2>1, <2>2, <2>3, <2>4, <2>5, <1>f, RowAndWorkerType, OnlyWorkerType
  <1>13. CASE Finish(w) \/ Fail(w) \/ Defer(w) \/ Release(w)
    <2>1. j \in Jobs /\ row[j] \in Row /\ wk[w].pc = "settle"
      BY <1>13, <1>busy DEF Finish, Fail, Defer, Release, Settle
    <2>2. \/ \E r \in Row : row' = [row EXCEPT ![j] = r] /\ Touch(j)
          \/ UNCHANGED <<row, older>>
      <3>1. CASE Finish(w)
        <4>1. [row[j] EXCEPT !.status = "done", !.code = "none"] \in Row
          BY <2>1 DEF Row, Ended
        <4> QED
          BY <3>1, <4>1, UnleaseType DEF Finish, Settle
      <3>2. CASE Fail(w)
        <4>1. [row[j] EXCEPT !.status = "failed", !.code = l.then] \in Row
          BY <2>1, <3>2 DEF Row, Ended, Fail
        <4> QED
          BY <3>2, <4>1, UnleaseType DEF Fail, Settle
      <3>3. CASE Defer(w)
        <4>1. [row[j] EXCEPT !.attempts = l.attempts, !.due = FALSE] \in Row
          BY <2>1, <1>l DEF Row, Local
        <4> QED
          BY <3>3, <4>1, UnleaseType DEF Defer, Settle
      <3>4. CASE Release(w)
        BY <2>1, <3>4, UnleaseType DEF Release, Settle
      <3> QED
        BY <1>13, <3>1, <3>2, <3>3, <3>4
    <2>3. wk' = [wk EXCEPT ![w] = Idle] /\ UNCHANGED <<store, queued, faults>>
      BY <1>13 DEF Finish, Fail, Defer, Release, Settle
    <2> QED
      BY <2>1, <2>2, <2>3, <1>f, <1>idle, RowAndWorkerType, OnlyWorkerType
  <1> QED
    BY <1>1, <1>2, <1>3, <1>4, <1>5, <1>6, <1>7, <1>8, <1>9, <1>10, <1>11, <1>12, <1>13
    DEF Work

LEMMA StepType ==
  ASSUME TypeOK, JobInHand, [Next]_vars
  PROVE  TypeOK' /\ JobInHand'
  <1>f. faults \in Nat /\ (faults + 1) \in Nat
    BY DEF TypeOK
  <1>idle. Sound(Idle)
    BY IdleType DEF Sound, Idle
  <1>r. \A j \in Jobs : row[j] \in Row
    BY DEF TypeOK
  <1>1. ASSUME NEW j \in Jobs, Create(j) PROVE TypeOK' /\ JobInHand'
    <2>1. [row[j] EXCEPT !.status = "pending"] \in Row
      BY <1>r DEF Row, Active
    <2> QED
      BY <1>1, <2>1, <1>f, OnlyRowType DEF Create
  <1>2. ASSUME NEW j \in Jobs, Cancel(j) PROVE TypeOK' /\ JobInHand'
    <2>1. Unlease(row[j]) \in Row
      BY <1>r, UnleaseType
    <2>2. [Unlease(row[j]) EXCEPT !.status = "cancelled"] \in Row
      BY <2>1 DEF Row, Ended
    <2> QED
      BY <1>2, <2>2, <1>f, OnlyRowType DEF Cancel
  <1>3. ASSUME NEW j \in Jobs, BecomesDue(j) PROVE TypeOK' /\ JobInHand'
    <2>1. [row[j] EXCEPT !.due = TRUE] \in Row
      BY <1>r DEF Row
    <2> QED
      BY <1>3, <2>1, <1>f, OnlyRowType DEF BecomesDue
  <1>4. ASSUME NEW j \in Jobs, LeaseExpires(j) \/ LeaseOutrun(j) PROVE TypeOK' /\ JobInHand'
    <2>1. [row[j] EXCEPT !.leased = FALSE] \in Row
      BY <1>r DEF Row
    <2> QED
      BY <1>4, <2>1, <1>f, OnlyRowType DEF LeaseExpires, LeaseOutrun
  <1>5. ASSUME NEW w \in Workers, ClaimNext(w) \/ Claim(w) PROVE TypeOK' /\ JobInHand'
    BY <1>5, LeaseType DEF ClaimNext, Claim
  <1>6. ASSUME NEW w \in Workers, ReadLeftovers(w) PROVE TypeOK' /\ JobInHand'
    <2> DEFINE l == [Idle EXCEPT !.pc = "leftovers", !.todo = Leftover]
    <2>1. Leftover \in SUBSET Jobs
      BY DEF Leftover
    <2>2. l \in Local /\ l.pc = "leftovers"
      BY <2>1, IdleType DEF Local, PCs, Idle
    <2>3. Sound(l)
      BY <2>2 DEF Sound
    <2>4. wk' = [wk EXCEPT ![w] = Idle] \/ wk' = [wk EXCEPT ![w] = l]
      BY <1>6 DEF ReadLeftovers
    <2> HIDE DEF l
    <2> QED
      BY <1>6, <2>3, <2>4, <1>idle, <1>f, OnlyWorkerType DEF ReadLeftovers
  <1>7. ASSUME NEW w \in Workers, NextLeftover(w) PROVE TypeOK' /\ JobInHand'
    <2>1. CASE wk' = [wk EXCEPT ![w] = Idle]
      BY <1>7, <2>1, <1>idle, <1>f, OnlyWorkerType DEF NextLeftover
    <2>2. ASSUME NEW j \in wk[w].todo,
                 wk' = [wk EXCEPT ![w] =
                          Checkpoint([wk[w] EXCEPT !.job = j, !.todo = @ \ {j}], "leftovers")]
          PROVE  TypeOK' /\ JobInHand'
      <3>1. wk[w] \in Local /\ j \in Jobs /\ wk[w].todo \ {j} \in SUBSET Jobs
        BY <2>2 DEF TypeOK, Local
      <3> DEFINE m == [wk[w] EXCEPT !.job = j, !.todo = @ \ {j}]
      <3>2. m \in Local /\ m.job \in Jobs
        BY <3>1 DEF Local
      <3>3. "leftovers" \in Intents
        BY DEF Intents
      <3> HIDE DEF m
      <3>4. Sound(Checkpoint(m, "leftovers"))
        BY <3>2, <3>3, CheckpointSound
      <3>5. wk' = [wk EXCEPT ![w] = Checkpoint(m, "leftovers")]
        BY <2>2 DEF m
      <3> QED
        BY <1>7, <3>4, <3>5, <1>f, OnlyWorkerType DEF NextLeftover
    <2> QED
      BY <1>7, <2>1, <2>2 DEF NextLeftover
  <1>8. ASSUME NEW w \in Workers, Crash(w) PROVE TypeOK' /\ JobInHand'
    BY <1>8, <1>idle, <1>f, OnlyWorkerType DEF Crash
  <1>9. ASSUME NEW w \in Workers, CheckpointError(w) PROVE TypeOK' /\ JobInHand'
    <2>1. wk[w] \in Local /\ wk[w].job \in Jobs
      BY <1>9 DEF TypeOK, JobInHand, Sound, CheckpointError
    <2> QED
      BY <1>9, <2>1, <1>f, AfterCheckpointSound, OnlyWorkerType DEF CheckpointError
  <1>10. ASSUME NEW w \in Clis, Interrupt(w) PROVE TypeOK' /\ JobInHand'
    <2>1. CASE UNCHANGED <<row, older>>
      BY <1>10, <2>1, <1>idle, <1>f, OnlyWorkerType DEF Interrupt, Workers
    <2>2. CASE Holds(w) /\ row' = [row EXCEPT ![wk[w].job] = Unlease(@)] /\ Touch(wk[w].job)
      <3>1. CASE wk[w].job \in Jobs
        BY <1>10, <2>2, <3>1, <1>r, <1>idle, <1>f, UnleaseType, RowAndWorkerType
        DEF Interrupt, Workers
      <3>2. CASE wk[w].job \notin Jobs
        <4>1. row' = row
          BY <2>2, <3>2 DEF TypeOK
        <4>2. wk' \in [Workers -> Local] /\ JobInHand'
          BY <1>10, <1>idle, WorkerType DEF Interrupt, Workers
        <4>3. older' \in SUBSET (Jobs \X Jobs)
          BY <2>2, TouchType
        <4> QED
          BY <1>10, <1>f, <4>1, <4>2, <4>3 DEF Interrupt, TypeOK
      <3> QED
        BY <3>1, <3>2
    <2> QED
      BY <1>10, <2>1, <2>2 DEF Interrupt
  <1>11. CASE UNCHANGED vars
    BY <1>11 DEF vars, TypeOK, JobInHand, Sound
  <1> QED
    BY <1>1, <1>2, <1>3, <1>4, <1>5, <1>6, <1>7, <1>8, <1>9, <1>10, <1>11, WorkType
    DEF Next, DaemonStep, Workers

LEMMA InitJobInHand == Init => JobInHand
  BY IdleType DEF Init, JobInHand, Sound, Idle

LEMMA TypeInvariant == Spec => [](TypeOK /\ JobInHand)
  <1>1. Init => TypeOK /\ JobInHand
    BY InitType, InitJobInHand
  <1>2. (TypeOK /\ JobInHand) /\ [Next]_vars => (TypeOK /\ JobInHand)'
    BY StepType
  <1> QED
    BY <1>1, <1>2, PTL DEF Spec

(* The rows, the stored plays, the queues and the memory of the processes  *)
(* always have their types; in particular the cursor stays within the walk *)
(* and a process at work has a job in hand.                                *)
THEOREM TypeCorrect == Spec => []TypeOK
  BY TypeInvariant, PTL

-----------------------------------------------------------------------------
(***************************************************************************)
(* The history is complete when an import is done.                         *)
(*                                                                         *)
(* CompleteWhenDone is not inductive: a process finishes a job because of  *)
(* what it remembers.  It needs that a process holding the lease has an    *)
(* exact copy of the cursor (HolderInStep), that everything before the     *)
(* stored cursor is stored, and that "done" is only intended when all is.  *)
(***************************************************************************)
OnlyRunningIsLeased == \A j \in Jobs : row[j].token # NoWorker => row[j].status = "running"

WalkedIsStored ==
    \A j \in Jobs, p \in Plays : PageOf[p] < row[j].page => store[UserOf[j]][p] # Absent

DoneIsKnown ==
    \A w \in Workers : wk[w].then = "done" /\ wk[w].job \in Jobs =>
        \A p \in Plays : store[UserOf[wk[w].job]][p] # Absent

HistoryInv == /\ OnlyRunningIsLeased
              /\ HolderInStep
              /\ WalkedIsStored
              /\ DoneIsKnown
              /\ CompleteWhenDone

(* Process m remembers no more of its job than l did.                      *)
Follows(m, l) ==
    /\ m.pc = "fetch" \/ m.then = "walk" =>
         /\ l.pc = "fetch" \/ l.then = "walk"
         /\ m.job = l.job /\ m.page = l.page /\ m.imported = l.imported
         /\ m.lovedPage = l.lovedPage /\ m.lovedDone = l.lovedDone
    /\ m.then = "done" => l.then = "done" /\ m.job = l.job

LEMMA IdleFollows == \A l : Follows(Idle, l)
  BY DEF Follows, Idle

LEMMA CheckpointFollows ==
  ASSUME NEW l \in Local, NEW i \in Intents, i \notin {"walk", "done"}
  PROVE  Follows(Checkpoint(l, i), l)
  BY DEF Follows, Checkpoint, Idle, Local

LEMMA AfterCheckpointFollows ==
  ASSUME NEW l \in Local, l.pc # "fetch"
  PROVE  Follows(AfterCheckpoint(l), l)
  BY DEF Follows, AfterCheckpoint, Idle, Local

(* A step of one process that writes nothing the properties speak of.      *)
LEMMA MemoryStep ==
  ASSUME TypeOK, HistoryInv, NEW w \in Workers, NEW m \in Local, Follows(m, wk[w]),
         wk' = [wk EXCEPT ![w] = m],
         \A j \in Jobs : /\ row'[j].status = row[j].status /\ row'[j].token = row[j].token
                         /\ row'[j].page = row[j].page /\ row'[j].imported = row[j].imported
                         /\ row'[j].lovedPage = row[j].lovedPage
                         /\ row'[j].lovedDone = row[j].lovedDone,
         UNCHANGED store
  PROVE  HistoryInv'
  <1>1. OnlyRunningIsLeased' /\ WalkedIsStored' /\ CompleteWhenDone'
    BY DEF HistoryInv, OnlyRunningIsLeased, WalkedIsStored, CompleteWhenDone
  <1>2. ASSUME NEW v \in Workers
        PROVE  wk'[v] = IF v = w THEN m ELSE wk[v]
    BY DEF TypeOK
  <1>3. DoneIsKnown'
    BY <1>2 DEF HistoryInv, DoneIsKnown, Follows
  <1>4. HolderInStep'
    <2> SUFFICES ASSUME NEW v \in Workers, NEW j \in Jobs,
                        wk'[v].job = j, row'[j].token = v
                 PROVE  /\ row'[j].status = "running"
                        /\ Walks(v)' => /\ row'[j].page = wk'[v].page
                                        /\ row'[j].imported = wk'[v].imported
                                        /\ row'[j].lovedPage = wk'[v].lovedPage
                                        /\ row'[j].lovedDone = wk'[v].lovedDone
      BY DEF HolderInStep
    <2>1. row[j].status = "running" /\ row[j].token = v
      BY ActorsAssumption DEF HistoryInv, OnlyRunningIsLeased
    <2>2. CASE v # w
      BY <1>2, <2>1, <2>2 DEF HistoryInv, HolderInStep, Walks
    <2>3. CASE v = w
      BY <1>2, <2>1, <2>3 DEF HistoryInv, HolderInStep, Walks, Follows
    <2> QED
      BY <2>2, <2>3
  <1> QED
    BY <1>1, <1>3, <1>4 DEF HistoryInv

(* A step that takes the lease of one job away.                            *)
LEMMA UnleaseStep ==
  ASSUME TypeOK, HistoryInv, NEW j \in Jobs, NEW r \in Row, row' = [row EXCEPT ![j] = r],
         r.token = NoWorker, r.page = row[j].page,
         r.status = "done" => \A p \in Plays : store[UserOf[j]][p] # Absent,
         NEW w \in Workers, NEW m \in Local, Follows(m, wk[w]),
         wk' = [wk EXCEPT ![w] = m], UNCHANGED store
  PROVE  HistoryInv'
  <1>1. ASSUME NEW k \in Jobs
        PROVE  row'[k] = IF k = j THEN r ELSE row[k]
    BY DEF TypeOK
  <1>2. ASSUME NEW v \in Workers
        PROVE  wk'[v] = IF v = w THEN m ELSE wk[v]
    BY DEF TypeOK
  <1>3. OnlyRunningIsLeased' /\ WalkedIsStored' /\ CompleteWhenDone'
    BY <1>1 DEF HistoryInv, OnlyRunningIsLeased, WalkedIsStored, CompleteWhenDone
  <1>4. DoneIsKnown'
    BY <1>2 DEF HistoryInv, DoneIsKnown, Follows
  <1>5. HolderInStep'
    <2> SUFFICES ASSUME NEW v \in Workers, NEW k \in Jobs,
                        wk'[v].job = k, row'[k].token = v
                 PROVE  /\ row'[k].status = "running"
                        /\ Walks(v)' => /\ row'[k].page = wk'[v].page
                                        /\ row'[k].imported = wk'[v].imported
                                        /\ row'[k].lovedPage = wk'[v].lovedPage
                                        /\ row'[k].lovedDone = wk'[v].lovedDone
      BY DEF HolderInStep
    <2>1. k # j /\ row'[k] = row[k]
      BY <1>1, ActorsAssumption
    <2>2. row[k].status = "running"
      BY <2>1, ActorsAssumption DEF HistoryInv, OnlyRunningIsLeased
    <2>3. CASE v # w
      BY <1>2, <2>1, <2>2, <2>3 DEF HistoryInv, HolderInStep, Walks
    <2>4. CASE v = w
      BY <1>2, <2>1, <2>2, <2>4 DEF HistoryInv, HolderInStep, Walks, Follows
    <2> QED
      BY <2>3, <2>4
  <1> QED
    BY <1>3, <1>4, <1>5 DEF HistoryInv

LEMMA LeaseStep ==
  ASSUME TypeOK, HistoryInv, NEW w \in Workers, NEW j \in Jobs, IsActive(j), Lease(w, j)
  PROVE  HistoryInv'
  <1>0. row[j] \in Row
    BY DEF TypeOK
  <1> DEFINE r == [row[j] EXCEPT !.status = "running", !.token = w, !.leased = TRUE]
  <1>1. /\ r.status = "running" /\ r.token = w /\ r.page = row[j].page
        /\ r.imported = row[j].imported /\ r.lovedPage = row[j].lovedPage
        /\ r.lovedDone = row[j].lovedDone
    BY <1>0 DEF Row
  <1>2. \A k \in Jobs : row'[k] = IF k = j THEN r ELSE row[k]
    BY DEF TypeOK, Lease
  <1> DEFINE m == [Idle EXCEPT !.pc = "fetch",
                     !.job = j,
                     !.page = row[j].page,
                     !.imported = row[j].imported,
                     !.before = ImportedBefore(j),
                     !.attempts = row[j].attempts,
                     !.lovedPage = row[j].lovedPage,
                     !.lovedDone = row[j].lovedDone]
  <1>3. /\ m.job = j /\ m.then = "lost" /\ m.page = row[j].page
        /\ m.imported = row[j].imported /\ m.lovedPage = row[j].lovedPage
        /\ m.lovedDone = row[j].lovedDone
    BY DEF Idle
  <1>4. \A v \in Workers : wk'[v] = IF v = w THEN m ELSE wk[v]
    BY DEF TypeOK, Lease
  <1>5. UNCHANGED store
    BY DEF Lease
  <1> HIDE DEF r, m
  <1>6. OnlyRunningIsLeased' /\ WalkedIsStored' /\ CompleteWhenDone'
    BY <1>1, <1>2, <1>5 DEF HistoryInv, OnlyRunningIsLeased, WalkedIsStored, CompleteWhenDone
  <1>7. DoneIsKnown'
    BY <1>3, <1>4, <1>5 DEF HistoryInv, DoneIsKnown
  <1>8. HolderInStep'
    BY <1>1, <1>2, <1>3, <1>4 DEF HistoryInv, HolderInStep, Walks
  <1> QED
    BY <1>6, <1>7, <1>8 DEF HistoryInv

(* A step that moves the loved-tracks cursor of the row and of the process *)
(* that holds it alike.                                                    *)
LEMMA LovesStep ==
  ASSUME TypeOK, HistoryInv, NEW w \in Workers, NEW j \in Jobs, wk[w].job = j,
         wk[w].pc = "fetch", Holds(w),
         NEW r \in Row, row' = [row EXCEPT ![j] = r],
         NEW m \in Local, wk' = [wk EXCEPT ![w] = m],
         r.status = row[j].status, r.token = row[j].token, r.page = row[j].page,
         r.imported = row[j].imported,
         m.then = wk[w].then, m.job = j, m.page = wk[w].page, m.imported = wk[w].imported,
         m.lovedPage = r.lovedPage, m.lovedDone = r.lovedDone,
         UNCHANGED store
  PROVE  HistoryInv'
  <1>1. \A k \in Jobs : row'[k] = IF k = j THEN r ELSE row[k]
    BY DEF TypeOK
  <1>2. \A v \in Workers : wk'[v] = IF v = w THEN m ELSE wk[v]
    BY DEF TypeOK
  <1>3. OnlyRunningIsLeased' /\ WalkedIsStored' /\ CompleteWhenDone'
    BY <1>1 DEF HistoryInv, OnlyRunningIsLeased, WalkedIsStored, CompleteWhenDone
  <1>4. DoneIsKnown'
    BY <1>2 DEF HistoryInv, DoneIsKnown
  <1>5. HolderInStep'
    BY <1>1, <1>2 DEF HistoryInv, HolderInStep, Walks, Holds
  <1> QED
    BY <1>3, <1>4, <1>5 DEF HistoryInv

(* A process without the lease skips the loves: nobody's copy but its own. *)
LEMMA LostLovesStep ==
  ASSUME TypeOK, HistoryInv, NEW w \in Workers, NEW m \in Local, wk' = [wk EXCEPT ![w] = m],
         m.job = wk[w].job, m.then = wk[w].then, ~Holds(w), UNCHANGED <<row, store>>
  PROVE  HistoryInv'
  <1>1. \A v \in Workers : wk'[v] = IF v = w THEN m ELSE wk[v]
    BY DEF TypeOK
  <1>2. OnlyRunningIsLeased' /\ WalkedIsStored' /\ CompleteWhenDone' /\ DoneIsKnown'
    BY <1>1 DEF HistoryInv, OnlyRunningIsLeased, WalkedIsStored, CompleteWhenDone, DoneIsKnown
  <1>3. HolderInStep'
    BY <1>1 DEF HistoryInv, HolderInStep, Walks, Holds
  <1> QED
    BY <1>2, <1>3 DEF HistoryInv

LEMMA AfterPageFacts ==
  ASSUME NEW l \in Local, l.pc = "fetch", l.then # "done", NEW n \in Nat
  PROVE  LET m == AfterPage(l, n)
         IN  /\ m.job = l.job
             /\ m.then = "done" => l.page = Pages
             /\ m.pc = "fetch" \/ m.then = "walk" =>
                  /\ l.page # Pages /\ m.page = l.page + 1 /\ m.imported = l.imported + n
                  /\ m.lovedPage = l.lovedPage /\ m.lovedDone = l.lovedDone
  <1> DEFINE counted == [l EXCEPT !.imported = @ + n, !.pages = @ + 1]
             moved == [counted EXCEPT !.page = @ + 1]
  <1>1. /\ counted.job = l.job /\ counted.page = l.page /\ counted.imported = l.imported + n
        /\ counted.lovedPage = l.lovedPage /\ counted.lovedDone = l.lovedDone
        /\ counted.pc = l.pc /\ counted.then = l.then
        /\ DOMAIN counted = DOMAIN l
    BY DEF Local
  <1>2. /\ moved.job = l.job /\ moved.page = l.page + 1 /\ moved.imported = l.imported + n
        /\ moved.lovedPage = l.lovedPage /\ moved.lovedDone = l.lovedDone
        /\ moved.pc = l.pc /\ moved.then = l.then
        /\ DOMAIN moved = DOMAIN l
    BY DEF Local
  <1>3. {"job", "page", "imported", "lovedPage", "lovedDone", "pc", "then"} \subseteq DOMAIN l
    BY DEF Local
  <1>4. AfterPage(l, n) = IF l.page = Pages THEN Checkpoint(counted, "done")
                          ELSE IF l.page % SegmentPages = 0 THEN Checkpoint(moved, "walk")
                          ELSE moved
    BY DEF AfterPage
  <1> HIDE DEF counted, moved
  <1>5. CASE l.page = Pages
    BY <1>1, <1>4, <1>5 DEF Checkpoint, Idle
  <1>6. CASE l.page # Pages
    <2>1. /\ Checkpoint(moved, "walk").job = l.job
          /\ Checkpoint(moved, "walk").then = "walk"
          /\ Checkpoint(moved, "walk").page = moved.page
          /\ Checkpoint(moved, "walk").imported = moved.imported
          /\ Checkpoint(moved, "walk").lovedPage = moved.lovedPage
          /\ Checkpoint(moved, "walk").lovedDone = moved.lovedDone
      BY <1>2, <1>3 DEF Checkpoint
    <2> QED
      BY <1>2, <1>4, <1>6, <2>1
  <1> QED
    BY <1>5, <1>6

(* A recorded page: the plays before the new cursor are stored because the *)
(* old cursor was the process's own, and its page is stored now.           *)
LEMMA PageStep ==
  ASSUME TypeOK, JobInHand, HistoryInv, NEW w \in Workers, PageRecorded(w),
         wk[w].then # "done"
  PROVE  HistoryInv'
  <1> DEFINE j == wk[w].job
             l == wk[w]
             n == Cardinality(Fresh(w))
             m == AfterPage(l, n)
             r == [row[j] EXCEPT !.page = NextPage(l.page),
                              !.imported = row[j].imported + n,
                              !.pending = Hull(row[j].pending \cup {TimeOf[p] : p \in Fresh(w)}),
                              !.attempts = 0, !.leased = TRUE]
  <1>1. l \in Local /\ j \in Jobs /\ row[j] \in Row /\ l.pc = "fetch" /\ n \in Nat
    BY FreshType DEF PageRecorded, Walking, TypeOK, JobInHand, Sound
  <1>2. row[j].token = w /\ row[j].status = "running"
    BY DEF PageRecorded, Holds
  <1>3. /\ row[j].page = l.page /\ row[j].imported = l.imported
        /\ row[j].lovedPage = l.lovedPage /\ row[j].lovedDone = l.lovedDone
    BY <1>1, <1>2 DEF HistoryInv, HolderInStep, Walks
  <1>4. /\ r.status = "running" /\ r.token = w /\ r.page = NextPage(l.page)
        /\ r.imported = l.imported + n /\ r.lovedPage = l.lovedPage /\ r.lovedDone = l.lovedDone
    BY <1>1, <1>2, <1>3 DEF Row
  <1>5. \A k \in Jobs : row'[k] = IF k = j THEN r ELSE row[k]
    BY <1>1 DEF TypeOK, PageRecorded, RecordPage
  <1>6. \A v \in Workers : wk'[v] = IF v = w THEN m ELSE wk[v]
    BY DEF TypeOK, PageRecorded, RecordPage
  <1>7. /\ m.job = j
        /\ m.then = "done" => l.page = Pages
        /\ m.pc = "fetch" \/ m.then = "walk" =>
             /\ l.page # Pages /\ m.page = l.page + 1 /\ m.imported = l.imported + n
             /\ m.lovedPage = l.lovedPage /\ m.lovedDone = l.lovedDone
    BY <1>1, AfterPageFacts
  <1>8. \A u \in Users, p \in Plays :
          store'[u][p] = IF u = UserOf[j] /\ p \in Fresh(w) THEN j ELSE store[u][p]
    BY <1>1, ActorsAssumption DEF TypeOK, PageRecorded, RecordPage
  <1>9. \A u \in Users, p \in Plays : store[u][p] # Absent => store'[u][p] # Absent
    BY <1>1, <1>8, ActorsAssumption
  <1>10. \A p \in Plays : PageOf[p] <= l.page => store'[UserOf[j]][p] # Absent
    <2> SUFFICES ASSUME NEW p \in Plays, PageOf[p] <= l.page
                 PROVE  store'[UserOf[j]][p] # Absent
      OBVIOUS
    <2>1. UserOf[j] \in Users /\ PageOf[p] \in Nat /\ l.page \in Nat
      BY <1>1, ActorsAssumption, HistoryAssumption, ConstantsAssumption DEF Local
    <2>2. CASE PageOf[p] < l.page
      BY <1>1, <1>3, <1>9, <2>1, <2>2 DEF HistoryInv, WalkedIsStored
    <2>3. CASE PageOf[p] = l.page
      BY <1>1, <1>8, <2>1, <2>3, ActorsAssumption DEF Fresh
    <2> QED
      BY <2>1, <2>2, <2>3
  <1>11. l.page \in 1..Pages /\ \A p \in Plays : PageOf[p] \in 1..Pages
    BY <1>1, HistoryAssumption DEF Local
  <1>12. UserOf \in [Jobs -> Users]
    BY ActorsAssumption
  <1> HIDE DEF r, m, n
  <1>13. OnlyRunningIsLeased'
    BY <1>4, <1>5 DEF HistoryInv, OnlyRunningIsLeased
  <1>14. CompleteWhenDone'
    BY <1>4, <1>5, <1>9, <1>12 DEF HistoryInv, CompleteWhenDone
  <1>15. WalkedIsStored'
    <2> SUFFICES ASSUME NEW k \in Jobs, NEW p \in Plays, PageOf[p] < row'[k].page
                 PROVE  store'[UserOf[k]][p] # Absent
      BY DEF WalkedIsStored
    <2>1. CASE k # j
      BY <1>5, <1>9, <1>12, <2>1 DEF HistoryInv, WalkedIsStored
    <2>2. CASE k = j
      <3>1. row'[k].page = NextPage(l.page)
        BY <1>4, <1>5, <2>2
      <3>2. PageOf[p] <= l.page
        BY <1>11, <3>1, ConstantsAssumption DEF NextPage
      <3> QED
        BY <1>10, <2>2, <3>2
    <2> QED
      BY <2>1, <2>2
  <1>16. DoneIsKnown'
    <2> SUFFICES ASSUME NEW v \in Workers, wk'[v].then = "done", wk'[v].job \in Jobs,
                        NEW p \in Plays
                 PROVE  store'[UserOf[wk'[v].job]][p] # Absent
      BY DEF DoneIsKnown
    <2>1. CASE v # w
      BY <1>6, <1>9, <1>12, <2>1 DEF HistoryInv, DoneIsKnown
    <2>2. CASE v = w
      BY <1>6, <1>7, <1>10, <1>11, <2>2
    <2> QED
      BY <2>1, <2>2
  <1>17. HolderInStep'
    <2> SUFFICES ASSUME NEW v \in Workers, NEW k \in Jobs, wk'[v].job = k, row'[k].token = v
                 PROVE  /\ row'[k].status = "running"
                        /\ Walks(v)' => /\ row'[k].page = wk'[v].page
                                        /\ row'[k].imported = wk'[v].imported
                                        /\ row'[k].lovedPage = wk'[v].lovedPage
                                        /\ row'[k].lovedDone = wk'[v].lovedDone
      BY DEF HolderInStep
    <2>1. CASE v # w
      BY <1>2, <1>4, <1>5, <1>6, <2>1 DEF HistoryInv, HolderInStep, Walks
    <2>2. CASE v = w
      BY <1>4, <1>5, <1>6, <1>7, <2>2 DEF Walks, NextPage
    <2> QED
      BY <2>1, <2>2
  <1> QED
    BY <1>13, <1>14, <1>15, <1>16, <1>17 DEF HistoryInv

(* Nothing but one row's lease, due or attempts changes.                   *)
LEMMA ClockStep ==
  ASSUME TypeOK, HistoryInv, UNCHANGED <<wk, store>>,
         \A j \in Jobs : /\ row'[j].status = row[j].status /\ row'[j].token = row[j].token
                         /\ row'[j].page = row[j].page /\ row'[j].imported = row[j].imported
                         /\ row'[j].lovedPage = row[j].lovedPage
                         /\ row'[j].lovedDone = row[j].lovedDone
  PROVE  HistoryInv'
  <1>1. OnlyRunningIsLeased' /\ WalkedIsStored' /\ CompleteWhenDone' /\ DoneIsKnown'
    BY DEF HistoryInv, OnlyRunningIsLeased, WalkedIsStored, CompleteWhenDone, DoneIsKnown
  <1>2. HolderInStep'
    BY DEF HistoryInv, HolderInStep, Walks
  <1> QED
    BY <1>1, <1>2 DEF HistoryInv

(* A request or a cancellation: the row is, or becomes, nobody's.          *)
LEMMA UserStep ==
  ASSUME TypeOK, HistoryInv, NEW j \in Jobs, NEW r \in Row, row' = [row EXCEPT ![j] = r],
         r.token = NoWorker, r.page = row[j].page, r.status # "done",
         UNCHANGED <<wk, store>>
  PROVE  HistoryInv'
  <1>1. \A k \in Jobs : row'[k] = IF k = j THEN r ELSE row[k]
    BY DEF TypeOK
  <1>2. OnlyRunningIsLeased' /\ WalkedIsStored' /\ CompleteWhenDone' /\ DoneIsKnown'
    BY <1>1 DEF HistoryInv, OnlyRunningIsLeased, WalkedIsStored, CompleteWhenDone, DoneIsKnown
  <1>3. HolderInStep'
    BY <1>1, ActorsAssumption DEF HistoryInv, HolderInStep, Walks
  <1> QED
    BY <1>2, <1>3 DEF HistoryInv

LEMMA WorkHistory ==
  ASSUME TypeOK, JobInHand, HistoryInv, NEW w \in Workers, Work(w)
  PROVE  HistoryInv'
  <1> DEFINE j == wk[w].job
             l == wk[w]
  <1>l. l \in Local /\ Sound(l) /\ (l.pc = "fetch" => l.then = "lost")
    BY DEF TypeOK, JobInHand, Sound
  <1>busy. l.pc \notin {"idle", "leftovers"} => j \in Jobs /\ row[j] \in Row
    BY <1>l DEF Sound, TypeOK
  <1>i. /\ Failures \subseteq Intents
        /\ {"defer", "release", "lost", "leftovers"} \subseteq Intents
        /\ "walk" \notin Failures /\ "done" \notin Failures
        /\ Failures = {"cap_reached", "lastfm_error", "lastfm_unavailable"}
    BY DEF Intents, Failures
  <1>cp. \A i \in Intents \ {"walk", "done"} :
            Checkpoint(l, i) \in Local /\ Follows(Checkpoint(l, i), l)
    BY <1>l, CheckpointType, CheckpointFollows
  <1>ac. l.pc # "fetch" => AfterCheckpoint(l) \in Local /\ Follows(AfterCheckpoint(l), l)
    BY <1>l, AfterCheckpointType, AfterCheckpointFollows
  <1>idle. Idle \in Local /\ Follows(Idle, l)
    BY IdleType, IdleFollows
  <1>1. CASE LovesRecorded(w)
    <2>1. j \in Jobs /\ row[j] \in Row /\ l.pc = "fetch" /\ Holds(w) /\ UNCHANGED store
      BY <1>1, <1>busy DEF LovesRecorded, InLoves
    <2>2. PICK capped \in BOOLEAN :
            LET over == l.lovedPage >= LovedPages \/ capped
                next == l.lovedPage + 1
            IN  /\ row' = [row EXCEPT ![j] =
                              [@ EXCEPT !.lovedPage = next, !.lovedDone = over,
                                        !.attempts = 0, !.leased = TRUE]]
                /\ wk' = [wk EXCEPT ![w] =
                              [wk[w] EXCEPT !.lovedPage = next, !.lovedDone = over,
                                            !.pages = @ + 1]]
      BY <1>1 DEF LovesRecorded
    <2> DEFINE over == l.lovedPage >= LovedPages \/ capped
               next == l.lovedPage + 1
               more == l.pages + 1
               r == [row[j] EXCEPT !.lovedPage = next, !.lovedDone = over,
                                   !.attempts = 0, !.leased = TRUE]
               m == [l EXCEPT !.lovedPage = next, !.lovedDone = over, !.pages = more]
    <2>3. over \in BOOLEAN /\ next \in Nat /\ more \in Nat
      BY <1>l DEF Local
    <2>4. row' = [row EXCEPT ![j] = r] /\ wk' = [wk EXCEPT ![w] = m]
      <3>1. row' = [row EXCEPT ![j] = [row[j] EXCEPT !.lovedPage = next, !.lovedDone = over,
                                                     !.attempts = 0, !.leased = TRUE]]
        BY <2>2 DEF TypeOK
      <3>2. wk' = [wk EXCEPT ![w] = [wk[w] EXCEPT !.lovedPage = next, !.lovedDone = over,
                                                  !.pages = wk[w].pages + 1]]
        BY <2>2 DEF TypeOK
      <3> QED
        BY <3>1, <3>2
    <2> HIDE DEF over, next, more
    <2>5. /\ r \in Row /\ r.status = row[j].status /\ r.token = row[j].token
          /\ r.page = row[j].page /\ r.imported = row[j].imported
          /\ r.lovedPage = next /\ r.lovedDone = over
      BY <2>1, <2>3 DEF Row
    <2>6. /\ m \in Local /\ m.job = j /\ m.then = l.then /\ m.page = l.page
          /\ m.imported = l.imported /\ m.lovedPage = next /\ m.lovedDone = over
      BY <2>3, <1>l DEF Local
    <2> HIDE DEF r, m
    <2> QED
      BY <2>1, <2>4, <2>5, <2>6, LovesStep
  <1>2. CASE LovesLost(w)
    BY <1>2, <1>idle, MemoryStep DEF LovesLost
  <1>3. CASE LovesSkipped(w)
    <2>1. j \in Jobs /\ row[j] \in Row /\ l.pc = "fetch" /\ UNCHANGED store
      BY <1>3, <1>busy DEF LovesSkipped, InLoves
    <2> DEFINE m == [l EXCEPT !.lovedDone = TRUE]
               r == [row[j] EXCEPT !.lovedDone = TRUE]
    <2>2. /\ r \in Row /\ r.status = row[j].status /\ r.token = row[j].token
          /\ r.page = row[j].page /\ r.imported = row[j].imported
          /\ r.lovedPage = row[j].lovedPage /\ r.lovedDone = TRUE
      BY <2>1 DEF Row
    <2>3. /\ m \in Local /\ m.job = j /\ m.then = l.then /\ m.page = l.page
          /\ m.imported = l.imported /\ m.lovedPage = l.lovedPage /\ m.lovedDone = TRUE
          /\ m.pc = "fetch"
      BY <1>l, <2>1 DEF Local
    <2>4. wk' = [wk EXCEPT ![w] = m]
      BY <1>3 DEF LovesSkipped
    <2>5. \/ Holds(w) /\ row' = [row EXCEPT ![j] = r]
          \/ ~Holds(w) /\ UNCHANGED row
      BY <1>3 DEF LovesSkipped
    <2> HIDE DEF m, r
    <2>6. CASE Holds(w) /\ row' = [row EXCEPT ![j] = r]
      <3>1. row[j].lovedPage = l.lovedPage
        BY <2>1, <2>6 DEF Holds, HistoryInv, HolderInStep, Walks
      <3> QED
        BY <2>1, <2>2, <2>3, <2>4, <2>6, <3>1, LovesStep
    <2>7. CASE ~Holds(w) /\ UNCHANGED row
      BY <1>l, <2>1, <2>3, <2>4, <2>7, LostLovesStep
    <2> QED
      BY <2>5, <2>6, <2>7
  <1>4. CASE \/ SliceOver(w) \/ CapReached(w) \/ PageLost(w) \/ Refused(w)
    <2>1. PICK i \in Intents \ {"walk", "done"} : wk' = [wk EXCEPT ![w] = Checkpoint(l, i)]
      BY <1>4, <1>i DEF SliceOver, CapReached, PageLost, Refused
    <2>2. UNCHANGED <<row, store>>
      BY <1>4 DEF SliceOver, CapReached, PageLost, Refused
    <2> QED
      BY <2>1, <2>2, <1>cp, MemoryStep
  <1>5. CASE PageRecorded(w)
    BY <1>5, <1>l, PageStep DEF PageRecorded, Walking
  <1>6. CASE RateLimited(w) \/ Transient(w)
    <2>1. PICK n \in Nat : DeferOrGiveUp(w, n)
      BY <1>6, <1>l DEF RateLimited, Transient, Local
    <2>2. UNCHANGED <<row, store>>
      BY <1>6 DEF RateLimited, Transient
    <2> DEFINE a == [l EXCEPT !.attempts = n]
    <2>3. a \in Local
      BY <1>l DEF Local
    <2>4. PICK i \in Intents \ {"walk", "done"} : wk' = [wk EXCEPT ![w] = Checkpoint(a, i)]
      BY <2>1, <1>i DEF DeferOrGiveUp
    <2> HIDE DEF a
    <2>5. Checkpoint(a, i) \in Local
      BY <2>3, CheckpointType
    <2>6. Follows(Checkpoint(a, i), l)
      BY DEF Follows, Checkpoint, Idle
    <2> QED
      BY <2>2, <2>4, <2>5, <2>6, MemoryStep
  <1>7. CASE ReadPending(w)
    <2>1. j \in Jobs /\ row[j] \in Row /\ l.pc = "read" /\ UNCHANGED <<row, store>>
      BY <1>7, <1>busy DEF ReadPending
    <2> DEFINE m == [l EXCEPT !.pc = "classify", !.range = row[j].pending]
    <2>2. m \in Local /\ Follows(m, l)
      BY <2>1, <1>l DEF Local, Row, PCs, Follows
    <2>3. wk' = [wk EXCEPT ![w] = IF row[j].pending = {} THEN AfterCheckpoint(l) ELSE m]
      BY <1>7 DEF ReadPending
    <2> HIDE DEF m
    <2> QED
      BY <2>1, <2>2, <2>3, <1>ac, MemoryStep
  <1>8. CASE QueueClassification(w) \/ QueueEnrichment(w)
    <2>1. PICK pc \in {"enrich", "clear"} : wk' = [wk EXCEPT ![w].pc = pc]
      BY <1>8 DEF QueueClassification, QueueEnrichment
    <2>2. l.pc # "fetch" /\ UNCHANGED <<row, store>>
      BY <1>8 DEF QueueClassification, QueueEnrichment
    <2> DEFINE m == [l EXCEPT !.pc = pc]
    <2>3. m \in Local /\ Follows(m, l)
      BY <2>2, <1>l DEF Local, PCs, Follows
    <2>4. wk' = [wk EXCEPT ![w] = m]
      BY <2>1
    <2> HIDE DEF m
    <2> QED
      BY <2>2, <2>3, <2>4, MemoryStep
  <1>9. CASE ClearPending(w)
    <2>1. j \in Jobs /\ row[j] \in Row /\ l.pc = "clear" /\ UNCHANGED store
      BY <1>9, <1>busy DEF ClearPending
    <2>2. wk' = [wk EXCEPT ![w] = AfterCheckpoint(l)]
      BY <1>9 DEF ClearPending
    <2>3. \A k \in Jobs : /\ row'[k].status = row[k].status /\ row'[k].token = row[k].token
                          /\ row'[k].page = row[k].page /\ row'[k].imported = row[k].imported
                          /\ row'[k].lovedPage = row[k].lovedPage
                          /\ row'[k].lovedDone = row[k].lovedDone
      <3> DEFINE r == [row[j] EXCEPT !.pending = {}]
      <3>1. /\ r.status = row[j].status /\ r.token = row[j].token /\ r.page = row[j].page
            /\ r.imported = row[j].imported /\ r.lovedPage = row[j].lovedPage
            /\ r.lovedDone = row[j].lovedDone
        BY <2>1 DEF Row
      <3>2. row' = [row EXCEPT ![j] = r] \/ row' = row
        BY <1>9 DEF ClearPending
      <3> HIDE DEF r
      <3> QED
        BY <3>1, <3>2 DEF TypeOK
    <2> QED
      BY <2>1, <2>2, <2>3, <1>ac, MemoryStep
  <1>10. CASE Finish(w) \/ Fail(w) \/ Defer(w) \/ Release(w)
    <2>1. /\ j \in Jobs /\ row[j] \in Row /\ l.pc = "settle"
          /\ wk' = [wk EXCEPT ![w] = Idle] /\ UNCHANGED store
      BY <1>10, <1>busy DEF Finish, Fail, Defer, Release, Settle
    <2>2. CASE ~Holds(w) /\ UNCHANGED row
      BY <2>1, <2>2, <1>idle, MemoryStep
    <2>3. CASE Finish(w) /\ Holds(w)
      <3> DEFINE r == Unlease([row[j] EXCEPT !.status = "done", !.code = "none"])
      <3>1. r \in Row /\ r.token = NoWorker /\ r.page = row[j].page
        BY <2>1 DEF Row, Ended, Unlease
      <3>2. row' = [row EXCEPT ![j] = r]
        BY <2>3 DEF Finish, Settle
      <3>3. \A p \in Plays : store[UserOf[j]][p] # Absent
        BY <2>1, <2>3 DEF Finish, HistoryInv, DoneIsKnown
      <3> HIDE DEF r
      <3> QED
        BY <2>1, <3>1, <3>2, <3>3, <1>idle, UnleaseStep
    <2>4. CASE Holds(w) /\ (Fail(w) \/ Defer(w) \/ Release(w))
      <3>1. row[j].status = "running"
        BY <2>1, <2>4 DEF Holds, HistoryInv, HolderInStep
      <3>2. PICK r \in Row : /\ row' = [row EXCEPT ![j] = r]
                             /\ r.token = NoWorker /\ r.page = row[j].page
                             /\ r.status # "done"
        <4>1. CASE Fail(w)
          <5> DEFINE r == Unlease([row[j] EXCEPT !.status = "failed", !.code = l.then])
          <5>1. r \in Row /\ r.token = NoWorker /\ r.page = row[j].page /\ r.status # "done"
            BY <2>1, <4>1 DEF Row, Ended, Unlease, Fail
          <5>2. row' = [row EXCEPT ![j] = r]
            BY <2>4, <4>1 DEF Fail, Settle
          <5> QED
            BY <5>1, <5>2
        <4>2. CASE Defer(w)
          <5> DEFINE r == Unlease([row[j] EXCEPT !.attempts = l.attempts, !.due = FALSE])
          <5>1. r \in Row /\ r.token = NoWorker /\ r.page = row[j].page /\ r.status # "done"
            BY <1>l, <2>1, <3>1 DEF Row, Unlease, Local
          <5>2. row' = [row EXCEPT ![j] = r]
            BY <2>4, <4>2 DEF Defer, Settle
          <5> QED
            BY <5>1, <5>2
        <4>3. CASE Release(w)
          <5> DEFINE r == Unlease(row[j])
          <5>1. r \in Row /\ r.token = NoWorker /\ r.page = row[j].page /\ r.status # "done"
            BY <2>1, <3>1 DEF Row, Unlease
          <5>2. row' = [row EXCEPT ![j] = r]
            BY <2>4, <4>3 DEF Release, Settle
          <5> QED
            BY <5>1, <5>2
        <4> QED
          BY <2>4, <4>1, <4>2, <4>3
      <3> QED
        BY <2>1, <3>2, <1>idle, UnleaseStep
    <2> QED
      BY <1>10, <2>2, <2>3, <2>4 DEF Finish, Fail, Defer, Release, Settle
  <1> QED
    BY <1>1, <1>2, <1>3, <1>4, <1>5, <1>6, <1>7, <1>8, <1>9, <1>10 DEF Work

LEMMA HistoryStep ==
  ASSUME TypeOK, JobInHand, HistoryInv, [Next]_vars
  PROVE  HistoryInv'
  <1>r. \A j \in Jobs : row[j] \in Row
    BY DEF TypeOK
  <1>idle. Idle \in Local /\ \A l : Follows(Idle, l)
    BY IdleType, IdleFollows
  <1>1. ASSUME NEW j \in Jobs, Create(j) PROVE HistoryInv'
    <2> DEFINE r == [row[j] EXCEPT !.status = "pending"]
    <2>1. r \in Row /\ r.status = "pending" /\ r.page = row[j].page /\ r.token = row[j].token
      BY <1>r DEF Row, Active
    <2>2. row[j].token = NoWorker
      BY <1>1 DEF Create, HistoryInv, OnlyRunningIsLeased
    <2>3. row' = [row EXCEPT ![j] = r] /\ UNCHANGED <<wk, store>>
      BY <1>1 DEF Create
    <2> HIDE DEF r
    <2> QED
      BY <2>1, <2>2, <2>3, UserStep
  <1>2. ASSUME NEW j \in Jobs, Cancel(j) PROVE HistoryInv'
    <2> DEFINE r == [Unlease(row[j]) EXCEPT !.status = "cancelled"]
    <2>1. r \in Row /\ r.status = "cancelled" /\ r.page = row[j].page /\ r.token = NoWorker
      <3> DEFINE u == Unlease(row[j])
      <3>1. u \in Row /\ u.page = row[j].page /\ u.token = NoWorker
        BY <1>r DEF Row, Unlease
      <3> HIDE DEF u
      <3>2. [u EXCEPT !.status = "cancelled"] \in Row
        BY <3>1 DEF Row, Ended
      <3>3. LET c == [u EXCEPT !.status = "cancelled"]
            IN  c.status = "cancelled" /\ c.page = u.page /\ c.token = u.token
        BY <3>1 DEF Row
      <3> QED
        BY <3>1, <3>2, <3>3 DEF u
    <2>2. row' = [row EXCEPT ![j] = r] /\ UNCHANGED <<wk, store>>
      BY <1>2 DEF Cancel
    <2> HIDE DEF r
    <2> QED
      BY <2>1, <2>2, UserStep
  <1>3. ASSUME NEW j \in Jobs, BecomesDue(j) \/ LeaseExpires(j) \/ LeaseOutrun(j)
        PROVE  HistoryInv'
    <2> DEFINE d == [row[j] EXCEPT !.due = TRUE]
               e == [row[j] EXCEPT !.leased = FALSE]
    <2>1. /\ d.status = row[j].status /\ d.token = row[j].token /\ d.page = row[j].page
          /\ d.imported = row[j].imported /\ d.lovedPage = row[j].lovedPage
          /\ d.lovedDone = row[j].lovedDone
      BY <1>r DEF Row
    <2>2. /\ e.status = row[j].status /\ e.token = row[j].token /\ e.page = row[j].page
          /\ e.imported = row[j].imported /\ e.lovedPage = row[j].lovedPage
          /\ e.lovedDone = row[j].lovedDone
      BY <1>r DEF Row
    <2>3. row' = [row EXCEPT ![j] = d] \/ row' = [row EXCEPT ![j] = e]
      BY <1>3 DEF BecomesDue, LeaseExpires, LeaseOutrun
    <2>4. UNCHANGED <<wk, store>>
      BY <1>3 DEF BecomesDue, LeaseExpires, LeaseOutrun
    <2> HIDE DEF d, e
    <2>5. \A k \in Jobs : /\ row'[k].status = row[k].status /\ row'[k].token = row[k].token
                          /\ row'[k].page = row[k].page /\ row'[k].imported = row[k].imported
                          /\ row'[k].lovedPage = row[k].lovedPage
                          /\ row'[k].lovedDone = row[k].lovedDone
      BY <2>1, <2>2, <2>3 DEF TypeOK
    <2> QED
      BY <2>4, <2>5, ClockStep
  <1>4. ASSUME NEW w \in Workers, ClaimNext(w) \/ Claim(w) PROVE HistoryInv'
    BY <1>4, LeaseStep DEF ClaimNext, Claim, Claimable
  <1>5. ASSUME NEW w \in Workers, ReadLeftovers(w) PROVE HistoryInv'
    <2> DEFINE m == [Idle EXCEPT !.pc = "leftovers", !.todo = Leftover]
    <2>1. m \in Local
      BY <1>idle DEF Local, PCs, Leftover
    <2>2. Follows(m, wk[w])
      BY DEF Follows, Idle
    <2>3. wk' = [wk EXCEPT ![w] = Idle] \/ wk' = [wk EXCEPT ![w] = m]
      BY <1>5 DEF ReadLeftovers
    <2> HIDE DEF m
    <2> QED
      BY <1>5, <1>idle, <2>1, <2>2, <2>3, MemoryStep DEF ReadLeftovers
  <1>6. ASSUME NEW w \in Workers, NextLeftover(w) PROVE HistoryInv'
    <2>1. CASE wk' = [wk EXCEPT ![w] = Idle]
      BY <1>6, <2>1, <1>idle, MemoryStep DEF NextLeftover
    <2>2. ASSUME NEW j \in wk[w].todo,
                 wk' = [wk EXCEPT ![w] =
                          Checkpoint([wk[w] EXCEPT !.job = j, !.todo = @ \ {j}], "leftovers")]
          PROVE  HistoryInv'
      <3>1. wk[w] \in Local /\ j \in Jobs /\ wk[w].todo \ {j} \in SUBSET Jobs
        BY <2>2 DEF TypeOK, Local
      <3> DEFINE m == [wk[w] EXCEPT !.job = j, !.todo = @ \ {j}]
      <3>2. m \in Local
        BY <3>1 DEF Local
      <3>3. "leftovers" \in Intents
        BY DEF Intents
      <3> HIDE DEF m
      <3>4. Checkpoint(m, "leftovers") \in Local
        BY <3>2, <3>3, CheckpointType
      <3>5. Follows(Checkpoint(m, "leftovers"), wk[w])
        BY DEF Follows, Checkpoint, Idle
      <3>6. wk' = [wk EXCEPT ![w] = Checkpoint(m, "leftovers")]
        BY <2>2 DEF m
      <3> QED
        BY <1>6, <3>4, <3>5, <3>6, MemoryStep DEF NextLeftover
    <2> QED
      BY <1>6, <2>1, <2>2 DEF NextLeftover
  <1>7. ASSUME NEW w \in Workers, Crash(w) PROVE HistoryInv'
    BY <1>7, <1>idle, MemoryStep DEF Crash
  <1>8. ASSUME NEW w \in Workers, CheckpointError(w) PROVE HistoryInv'
    <2>1. wk[w] \in Local /\ wk[w].pc # "fetch"
      BY <1>8 DEF TypeOK, CheckpointError
    <2>2. /\ AfterCheckpoint(wk[w]) \in Local /\ Follows(AfterCheckpoint(wk[w]), wk[w])
          /\ wk' = [wk EXCEPT ![w] = AfterCheckpoint(wk[w])]
      BY <1>8, <2>1, AfterCheckpointType, AfterCheckpointFollows DEF CheckpointError
    <2> QED
      BY <1>8, <2>2, MemoryStep DEF CheckpointError
  <1>9. ASSUME NEW w \in Clis, Interrupt(w) PROVE HistoryInv'
    <2>1. w \in Workers /\ wk' = [wk EXCEPT ![w] = Idle] /\ UNCHANGED store
      BY <1>9 DEF Interrupt, Workers
    <2>2. CASE row' = row
      BY <2>1, <2>2, <1>idle, MemoryStep
    <2>3. CASE wk[w].job \in Jobs /\ Holds(w) /\ row' = [row EXCEPT ![wk[w].job] = Unlease(@)]
      <3> DEFINE j == wk[w].job
                 r == Unlease(row[j])
      <3>1. row[j].status = "running"
        BY <2>1, <2>3 DEF Holds, HistoryInv, HolderInStep
      <3>j. row[j] \in Row
        BY <1>r, <2>3
      <3>2. r \in Row /\ r.token = NoWorker /\ r.page = row[j].page /\ r.status # "done"
        BY <3>j, <3>1 DEF Row, Unlease
      <3>3. row' = [row EXCEPT ![j] = r]
        BY <2>3
      <3> HIDE DEF r
      <3> QED
        BY <2>1, <2>3, <3>2, <3>3, <1>idle, UnleaseStep
    <2> QED
      BY <1>9, <2>2, <2>3 DEF Interrupt, TypeOK
  <1>10. CASE UNCHANGED vars
    BY <1>10, ClockStep DEF vars
  <1> QED
    BY <1>1, <1>2, <1>3, <1>4, <1>5, <1>6, <1>7, <1>8, <1>9, <1>10, WorkHistory
    DEF Next, DaemonStep, Workers

LEMMA InitHistory == Init => HistoryInv
  <1> SUFFICES ASSUME Init PROVE HistoryInv
    OBVIOUS
  <1>1. \A j \in Jobs : row[j] = NewRow
    BY DEF Init
  <1>2. \A w \in Workers : wk[w] = Idle
    BY DEF Init
  <1>3. OnlyRunningIsLeased /\ CompleteWhenDone /\ HolderInStep
    BY <1>1, <1>2, ActorsAssumption
    DEF OnlyRunningIsLeased, CompleteWhenDone, HolderInStep, NewRow
  <1>4. WalkedIsStored
    BY <1>1, HistoryAssumption, ConstantsAssumption DEF WalkedIsStored, NewRow
  <1>5. DoneIsKnown
    BY <1>2 DEF DoneIsKnown, Idle
  <1> QED
    BY <1>3, <1>4, <1>5 DEF HistoryInv

LEMMA HistoryInvariant == Spec => []HistoryInv
  <1>1. HistoryInv /\ TypeOK /\ JobInHand /\ [Next]_vars => HistoryInv'
    BY HistoryStep
  <1> QED
    BY <1>1, InitHistory, TypeInvariant, PTL DEF Spec

(* While a process holds a job's lease its copy of the cursors and of the  *)
(* counter is the row's, and the job is running: takeovers, cancellations  *)
(* and late answers can only happen to a process that no longer holds it.  *)
THEOREM HolderStaysInStep == Spec => []HolderInStep
  <1>1. HistoryInv => HolderInStep
    BY DEF HistoryInv
  <1> QED
    BY <1>1, HistoryInvariant, PTL

(* An import marked done has stored the whole history, for any number of   *)
(* jobs, processes, pages, slices, failures and takeovers.                 *)
THEOREM DoneIsComplete == Spec => []CompleteWhenDone
  <1>1. HistoryInv => CompleteWhenDone
    BY DEF HistoryInv
  <1> QED
    BY <1>1, HistoryInvariant, PTL

-----------------------------------------------------------------------------
(***************************************************************************)
(* What a step may never do: move a stored cursor back, or touch an import *)
(* that has ended.                                                         *)
(***************************************************************************)
CursorsKept(j) == row'[j].page >= row[j].page /\ row'[j].lovedPage >= row[j].lovedPage
EndKept(j) ==
    row[j].status \in Ended =>
        /\ row'[j].status = row[j].status
        /\ \A p \in Plays : store'[UserOf[j]][p] = j => store[UserOf[j]][p] = j
Kept == \A j \in Jobs : CursorsKept(j) /\ EndKept(j)

LEMMA NothingWritten ==
  ASSUME TypeOK, UNCHANGED <<row, store>>
  PROVE  Kept
  <1>1. \A j \in Jobs : row[j].page \in Nat /\ row[j].lovedPage \in Nat
    BY ConstantsAssumption DEF TypeOK, Row
  <1> QED
    BY <1>1 DEF Kept, CursorsKept, EndKept

LEMMA RowWritten ==
  ASSUME TypeOK, UNCHANGED store, NEW j \in Jobs, NEW r \in Row, row' = [row EXCEPT ![j] = r],
         r.page = row[j].page, r.lovedPage = row[j].lovedPage \/ r.lovedPage >= row[j].lovedPage,
         r.status = row[j].status \/ row[j].status \notin Ended
  PROVE  Kept
  <1>1. \A k \in Jobs : row[k].page \in Nat /\ row[k].lovedPage \in Nat
    BY ConstantsAssumption DEF TypeOK, Row
  <1>2. \A k \in Jobs : row'[k] = IF k = j THEN r ELSE row[k]
    BY DEF TypeOK
  <1> QED
    BY <1>1, <1>2 DEF Kept, CursorsKept, EndKept

(* The steps that need the lease: what they write follows the row.         *)
LEMMA WorkKept ==
  ASSUME TypeOK, JobInHand, HistoryInv, NEW w \in Workers, Work(w)
  PROVE  Kept
  <1> DEFINE j == wk[w].job
             l == wk[w]
  <1>l. l \in Local /\ Sound(l)
    BY DEF TypeOK, JobInHand
  <1>busy. l.pc \notin {"idle", "leftovers"} => j \in Jobs /\ row[j] \in Row
    BY <1>l DEF Sound, TypeOK
  <1>held. j \in Jobs /\ Holds(w) =>
             /\ row[j].status = "running"
             /\ l.pc = "fetch" => row[j].page = l.page /\ row[j].lovedPage = l.lovedPage
    BY DEF Holds, HistoryInv, HolderInStep, Walks
  <1>e. "running" \notin Ended
    BY DEF Ended
  <1>1. CASE LovesRecorded(w)
    <2>1. j \in Jobs /\ row[j] \in Row /\ l.pc = "fetch" /\ Holds(w) /\ UNCHANGED store
      BY <1>1, <1>busy DEF LovesRecorded, InLoves
    <2>2. PICK over \in BOOLEAN :
            row' = [row EXCEPT ![j] = [row[j] EXCEPT !.lovedPage = l.lovedPage + 1,
                                           !.lovedDone = over, !.attempts = 0, !.leased = TRUE]]
      BY <1>1 DEF LovesRecorded
    <2> DEFINE next == l.lovedPage + 1
               r == [row[j] EXCEPT !.lovedPage = next,
                                   !.lovedDone = over, !.attempts = 0, !.leased = TRUE]
    <2>3. next \in Nat /\ next >= l.lovedPage
      BY <1>l DEF Local
    <2> HIDE DEF next
    <2>4. r \in Row /\ r.page = row[j].page /\ r.lovedPage = next /\ r.status = row[j].status
      BY <2>1, <2>3 DEF Row
    <2>5. row' = [row EXCEPT ![j] = r]
      BY <2>2 DEF next
    <2> HIDE DEF r
    <2> QED
      BY <2>1, <2>3, <2>4, <2>5, <1>held, RowWritten
  <1>2. CASE LovesSkipped(w)
    <2>1. j \in Jobs /\ row[j] \in Row /\ UNCHANGED store
      BY <1>2, <1>busy DEF LovesSkipped, InLoves
    <2> DEFINE r == [row[j] EXCEPT !.lovedDone = TRUE]
    <2>2. /\ r \in Row /\ r.page = row[j].page /\ r.lovedPage = row[j].lovedPage
          /\ r.status = row[j].status /\ row[j].lovedPage \in Nat
      BY <2>1 DEF Row
    <2>3. row' = [row EXCEPT ![j] = r] \/ row' = row
      BY <1>2 DEF LovesSkipped
    <2> HIDE DEF r
    <2> QED
      BY <2>1, <2>2, <2>3, RowWritten, NothingWritten
  <1>3. CASE PageRecorded(w)
    <2>1. j \in Jobs /\ row[j] \in Row /\ l.pc = "fetch" /\ Holds(w) /\ RecordPage(w)
      BY <1>3, <1>busy DEF PageRecorded, Walking
    <2> DEFINE n == row[j].imported + Cardinality(Fresh(w))
               q == Hull(row[j].pending \cup {TimeOf[p] : p \in Fresh(w)})
               next == NextPage(l.page)
               r == [row[j] EXCEPT !.page = next, !.imported = n, !.pending = q,
                                   !.attempts = 0, !.leased = TRUE]
    <2>2. row' = [row EXCEPT ![j] = r]
      BY <2>1 DEF RecordPage
    <2>3. row[j].page = l.page /\ next >= l.page /\ l.page \in Nat
      BY <1>held, <1>l, <2>1, ConstantsAssumption DEF Local, NextPage
    <2> HIDE DEF n, q, next
    <2>4. r.page = next /\ r.lovedPage = row[j].lovedPage /\ r.status = row[j].status
      BY <2>1 DEF Row
    <2> HIDE DEF r
    <2>5. \A k \in Jobs : row'[k] = IF k = j THEN r ELSE row[k]
      BY <2>2 DEF TypeOK
    <2>6. \A k \in Jobs : row[k].page \in Nat /\ row[k].lovedPage \in Nat
      BY ConstantsAssumption DEF TypeOK, Row
    <2>7. \A k \in Jobs : CursorsKept(k)
      BY <2>3, <2>4, <2>5, <2>6 DEF CursorsKept
    <2>8. \A u \in Users, p \in Plays : store'[u][p] = j \/ store'[u][p] = store[u][p]
      BY <2>1, ActorsAssumption DEF TypeOK, RecordPage
    <2>9. \A k \in Jobs : EndKept(k)
      BY <1>held, <1>e, <2>1, <2>4, <2>5, <2>8, ActorsAssumption DEF EndKept
    <2> QED
      BY <2>7, <2>9 DEF Kept
  <1>4. CASE ClearPending(w)
    <2>1. j \in Jobs /\ row[j] \in Row /\ UNCHANGED store
      BY <1>4, <1>busy DEF ClearPending
    <2> DEFINE r == [row[j] EXCEPT !.pending = {}]
    <2>2. /\ r \in Row /\ r.page = row[j].page /\ r.lovedPage = row[j].lovedPage
          /\ r.status = row[j].status /\ row[j].lovedPage \in Nat
      BY <2>1 DEF Row
    <2>3. row' = [row EXCEPT ![j] = r] \/ row' = row
      BY <1>4 DEF ClearPending
    <2> HIDE DEF r
    <2> QED
      BY <2>1, <2>2, <2>3, RowWritten, NothingWritten
  <1>5. CASE Finish(w) \/ Fail(w) \/ Defer(w) \/ Release(w)
    <2>1. j \in Jobs /\ row[j] \in Row /\ UNCHANGED store
      BY <1>5, <1>busy DEF Finish, Fail, Defer, Release, Settle
    <2>2. CASE ~Holds(w) /\ UNCHANGED row
      BY <2>1, <2>2, NothingWritten
    <2>3. CASE Holds(w) /\ Finish(w)
      <3> DEFINE r == Unlease([row[j] EXCEPT !.status = "done", !.code = "none"])
      <3>1. /\ r \in Row /\ r.page = row[j].page /\ r.lovedPage = row[j].lovedPage
            /\ row[j].lovedPage \in Nat
        BY <2>1 DEF Row, Ended, Unlease
      <3>2. row' = [row EXCEPT ![j] = r]
        BY <2>3 DEF Finish, Settle
      <3> HIDE DEF r
      <3> QED
        BY <1>held, <1>e, <2>1, <2>3, <3>1, <3>2, RowWritten
    <2>4. CASE Holds(w) /\ Fail(w)
      <3> DEFINE r == Unlease([row[j] EXCEPT !.status = "failed", !.code = l.then])
      <3>1. /\ r \in Row /\ r.page = row[j].page /\ r.lovedPage = row[j].lovedPage
            /\ row[j].lovedPage \in Nat
        BY <2>1, <2>4 DEF Row, Ended, Unlease, Fail
      <3>2. row' = [row EXCEPT ![j] = r]
        BY <2>4 DEF Fail, Settle
      <3> HIDE DEF r
      <3> QED
        BY <1>held, <1>e, <2>1, <2>4, <3>1, <3>2, RowWritten
    <2>5. CASE Holds(w) /\ Defer(w)
      <3> DEFINE r == Unlease([row[j] EXCEPT !.attempts = l.attempts, !.due = FALSE])
      <3>1. /\ r \in Row /\ r.page = row[j].page /\ r.lovedPage = row[j].lovedPage
            /\ row[j].lovedPage \in Nat
        BY <1>l, <2>1 DEF Row, Unlease, Local
      <3>2. row' = [row EXCEPT ![j] = r]
        BY <2>5 DEF Defer, Settle
      <3> HIDE DEF r
      <3> QED
        BY <1>held, <1>e, <2>1, <2>5, <3>1, <3>2, RowWritten
    <2>6. CASE Holds(w) /\ Release(w)
      <3> DEFINE r == Unlease(row[j])
      <3>1. /\ r \in Row /\ r.page = row[j].page /\ r.lovedPage = row[j].lovedPage
            /\ row[j].lovedPage \in Nat
        BY <2>1 DEF Row, Unlease
      <3>2. row' = [row EXCEPT ![j] = r]
        BY <2>6 DEF Release, Settle
      <3> HIDE DEF r
      <3> QED
        BY <1>held, <1>e, <2>1, <2>6, <3>1, <3>2, RowWritten
    <2> QED
      BY <1>5, <2>2, <2>3, <2>4, <2>5, <2>6 DEF Finish, Fail, Defer, Release, Settle
  <1>6. CASE UNCHANGED <<row, store>>
    BY <1>6, NothingWritten
  <1> QED
    BY <1>1, <1>2, <1>3, <1>4, <1>5, <1>6
    DEF Work, LovesLost, SliceOver, CapReached, PageLost, Refused, RateLimited, Transient,
        ReadPending, QueueClassification, QueueEnrichment

LEMMA StepKept ==
  ASSUME TypeOK, JobInHand, HistoryInv, [Next]_vars
  PROVE  Kept
  <1>r. \A j \in Jobs : row[j] \in Row /\ row[j].lovedPage \in Nat
    BY DEF TypeOK, Row
  <1>e. \A s \in Active \cup {"none"} : s \notin Ended
    BY DEF Ended, Active
  <1>1. ASSUME NEW j \in Jobs, Create(j) PROVE Kept
    <2> DEFINE r == [row[j] EXCEPT !.status = "pending"]
    <2>1. r \in Row /\ r.page = row[j].page /\ r.lovedPage = row[j].lovedPage
      BY <1>r DEF Row, Active
    <2>2. row' = [row EXCEPT ![j] = r] /\ row[j].status = "none" /\ UNCHANGED store
      BY <1>1 DEF Create
    <2> HIDE DEF r
    <2> QED
      BY <1>r, <1>e, <2>1, <2>2, RowWritten
  <1>2. ASSUME NEW j \in Jobs, Cancel(j) PROVE Kept
    <2> DEFINE u == Unlease(row[j])
               r == [u EXCEPT !.status = "cancelled"]
    <2>1. u \in Row /\ u.page = row[j].page /\ u.lovedPage = row[j].lovedPage
      BY <1>r DEF Row, Unlease
    <2>2. row' = [row EXCEPT ![j] = r] /\ row[j].status \in Active /\ UNCHANGED store
      BY <1>2 DEF Cancel, IsActive
    <2> HIDE DEF u
    <2>3. r \in Row /\ r.page = row[j].page /\ r.lovedPage = row[j].lovedPage
      BY <2>1 DEF Row, Ended
    <2> HIDE DEF r
    <2> QED
      BY <1>r, <1>e, <2>2, <2>3, RowWritten
  <1>3. ASSUME NEW j \in Jobs, BecomesDue(j) \/ LeaseExpires(j) \/ LeaseOutrun(j)
        PROVE  Kept
    <2>1. PICK r \in {[row[j] EXCEPT !.due = TRUE], [row[j] EXCEPT !.leased = FALSE]} :
             row' = [row EXCEPT ![j] = r]
      BY <1>3 DEF BecomesDue, LeaseExpires, LeaseOutrun
    <2>2. /\ r \in Row /\ r.page = row[j].page /\ r.lovedPage = row[j].lovedPage
          /\ r.status = row[j].status
      BY <1>r DEF Row
    <2>3. UNCHANGED store
      BY <1>3 DEF BecomesDue, LeaseExpires, LeaseOutrun
    <2> QED
      BY <1>r, <2>1, <2>2, <2>3, RowWritten
  <1>4. ASSUME NEW w \in Workers, ClaimNext(w) \/ Claim(w) PROVE Kept
    <2>1. PICK j \in Jobs : IsActive(j) /\ Lease(w, j)
      BY <1>4 DEF ClaimNext, Claim, Claimable
    <2> DEFINE r == [row[j] EXCEPT !.status = "running", !.token = w, !.leased = TRUE]
    <2>2. r \in Row /\ r.page = row[j].page /\ r.lovedPage = row[j].lovedPage
      BY <1>r DEF Row, Active
    <2>3. row' = [row EXCEPT ![j] = r] /\ UNCHANGED store
      BY <2>1 DEF Lease
    <2> HIDE DEF r
    <2> QED
      BY <1>r, <1>e, <2>1, <2>2, <2>3, RowWritten DEF IsActive
  <1>5. ASSUME NEW w \in Clis, Interrupt(w) PROVE Kept
    <2>1. CASE row' = row
      BY <1>5, <2>1, NothingWritten DEF Interrupt
    <2>2. CASE wk[w].job \in Jobs /\ row' = [row EXCEPT ![wk[w].job] = Unlease(row[wk[w].job])]
      <3> DEFINE j == wk[w].job
                 r == Unlease(row[j])
      <3>j. j \in Jobs /\ row[j] \in Row
        BY <1>r, <2>2
      <3>1. /\ r \in Row /\ r.page = row[j].page /\ r.lovedPage = row[j].lovedPage
            /\ r.status = row[j].status
        BY <3>j DEF Row, Unlease
      <3>2. row' = [row EXCEPT ![j] = r] /\ UNCHANGED store
        BY <1>5, <2>2 DEF Interrupt
      <3> HIDE DEF r
      <3> QED
        BY <1>r, <3>j, <3>1, <3>2, RowWritten
    <2> QED
      BY <1>5, <2>1, <2>2 DEF Interrupt, TypeOK
  <1>6. ASSUME NEW w \in Workers,
               ReadLeftovers(w) \/ NextLeftover(w) \/ CheckpointError(w) \/ Crash(w)
        PROVE  Kept
    BY <1>6, NothingWritten DEF ReadLeftovers, NextLeftover, CheckpointError, Crash
  <1>7. CASE UNCHANGED vars
    BY <1>7, NothingWritten DEF vars
  <1> QED
    BY <1>1, <1>2, <1>3, <1>4, <1>5, <1>6, <1>7, WorkKept DEF Next, DaemonStep, Workers

(* No step of any process moves a stored cursor back: a page recorded late *)
(* by a process that lost its lease is refused.                            *)
THEOREM CursorsMoveForward == Spec => CursorForward
  <1>1. TypeOK /\ JobInHand /\ HistoryInv /\ [Next]_vars =>
          [\A j \in Jobs :
             row'[j].page >= row[j].page /\ row'[j].lovedPage >= row[j].lovedPage]_vars
    BY StepKept DEF Kept, CursorsKept
  <1> QED
    BY <1>1, TypeInvariant, HistoryInvariant, PTL DEF Spec, CursorForward

(* A done, failed or cancelled import keeps its status and stores nothing  *)
(* more, whatever a process still had in flight for it.                    *)
THEOREM EndedStaysEnded == Spec => EndedStays
  <1>1. TypeOK /\ JobInHand /\ HistoryInv /\ [Next]_vars =>
          [\A j \in Jobs : row[j].status \in Ended =>
             /\ row'[j].status = row[j].status
             /\ \A p \in Plays : store'[UserOf[j]][p] = j => store[UserOf[j]][p] = j]_vars
    BY StepKept DEF Kept, EndKept
  <1> QED
    BY <1>1, TypeInvariant, HistoryInvariant, PTL DEF Spec, EndedStays

-----------------------------------------------------------------------------
(***************************************************************************)
(* ImportJobs implements ImportContract.  Every step is a request, a start,*)
(* an import of missing plays by a running job, a completion of a complete *)
(* history, a failure, a cancellation, or invisible.                       *)
(***************************************************************************)
Status == [j \in Jobs |-> row[j].status]

ContractStep == Contract!Next \/ UNCHANGED <<Status, store>>

LEMMA Invisible ==
  ASSUME UNCHANGED store, \A j \in Jobs : row'[j].status = row[j].status
  PROVE  ContractStep
  BY DEF ContractStep, Status

LEMMA StatusWritten ==
  ASSUME TypeOK, NEW j \in Jobs, NEW r, row' = [row EXCEPT ![j] = r]
  PROVE  Status' = [Status EXCEPT ![j] = r.status]
  BY DEF Status, TypeOK

LEMMA WorkContract ==
  ASSUME TypeOK, JobInHand, HistoryInv, NEW w \in Workers, Work(w)
  PROVE  ContractStep
  <1> DEFINE j == wk[w].job
             l == wk[w]
  <1>busy. l.pc \notin {"idle", "leftovers"} => j \in Jobs /\ row[j] \in Row
    BY DEF JobInHand, Sound, TypeOK
  <1>held. j \in Jobs /\ Holds(w) => row[j].status = "running"
    BY DEF Holds, HistoryInv, HolderInStep
  <1>1. CASE LovesRecorded(w) \/ LovesSkipped(w) \/ ClearPending(w)
    <2>1. j \in Jobs /\ row[j] \in Row /\ UNCHANGED store
      BY <1>1, <1>busy DEF LovesRecorded, LovesSkipped, ClearPending, InLoves
    <2>2. row' = row \/ \E r : row' = [row EXCEPT ![j] = r] /\ r.status = row[j].status
      <3>1. CASE LovesRecorded(w)
        <4>1. PICK over \in BOOLEAN :
                row' = [row EXCEPT ![j] = [row[j] EXCEPT !.lovedPage = l.lovedPage + 1,
                                               !.lovedDone = over, !.attempts = 0, !.leased = TRUE]]
          BY <3>1 DEF LovesRecorded
        <4> DEFINE r == [row[j] EXCEPT !.lovedPage = l.lovedPage + 1,
                                       !.lovedDone = over, !.attempts = 0, !.leased = TRUE]
        <4>2. r.status = row[j].status
          BY <2>1 DEF Row
        <4> QED
          BY <4>1, <4>2
      <3>2. CASE LovesSkipped(w)
        <4> DEFINE r == [row[j] EXCEPT !.lovedDone = TRUE]
        <4>1. r.status = row[j].status
          BY <2>1 DEF Row
        <4>2. row' = row \/ row' = [row EXCEPT ![j] = r]
          BY <3>2 DEF LovesSkipped
        <4> QED
          BY <4>1, <4>2
      <3>3. CASE ClearPending(w)
        <4> DEFINE r == [row[j] EXCEPT !.pending = {}]
        <4>1. r.status = row[j].status
          BY <2>1 DEF Row
        <4>2. row' = row \/ row' = [row EXCEPT ![j] = r]
          BY <3>3 DEF ClearPending
        <4> QED
          BY <4>1, <4>2
      <3> QED
        BY <1>1, <3>1, <3>2, <3>3
    <2> QED
      BY <2>1, <2>2, Invisible DEF TypeOK
  <1>2. CASE PageRecorded(w)
    <2>1. /\ j \in Jobs /\ row[j] \in Row /\ RecordPage(w)
          /\ row[j].status = "running" /\ UserOf[j] \in Users
      BY <1>2, <1>busy, ActorsAssumption DEF PageRecorded, Walking
    <2> DEFINE r == [row[j] EXCEPT !.page = NextPage(l.page),
                              !.imported = row[j].imported + Cardinality(Fresh(w)),
                              !.pending = Hull(row[j].pending \cup {TimeOf[p] : p \in Fresh(w)}),
                              !.attempts = 0, !.leased = TRUE]
    <2>2. r.status = row[j].status
      BY <2>1 DEF Row
    <2>3. row' = [row EXCEPT ![j] = r]
      BY <2>1 DEF RecordPage
    <2> HIDE DEF r
    <2>4. Status' = Status
      BY <2>2, <2>3 DEF TypeOK, Status
    <2>5. Fresh(w) \in SUBSET Contract!Missing(UserOf[j])
      BY DEF Fresh, Contract!Missing
    <2>6. store' = [store EXCEPT ![UserOf[j]] = [p \in Plays |-> IF p \in Fresh(w) THEN j ELSE @[p]]]
      BY <2>1 DEF RecordPage
    <2>7. Contract!Import(j)
      BY <2>1, <2>4, <2>5, <2>6 DEF Contract!Import, Status
    <2> QED
      BY <2>1, <2>7 DEF ContractStep, Contract!Next
  <1>3. CASE Finish(w) \/ Fail(w) \/ Defer(w) \/ Release(w)
    <2>1. j \in Jobs /\ row[j] \in Row /\ UserOf[j] \in Users /\ UNCHANGED store
      BY <1>3, <1>busy, ActorsAssumption DEF Finish, Fail, Defer, Release, Settle
    <2>2. CASE ~Holds(w) /\ UNCHANGED row
      BY <2>1, <2>2, Invisible
    <2>3. CASE Holds(w) /\ Finish(w)
      <3> DEFINE r == Unlease([row[j] EXCEPT !.status = "done", !.code = "none"])
      <3>1. r.status = "done" /\ row[j].status = "running"
        BY <1>held, <2>1, <2>3 DEF Row, Unlease
      <3>2. row' = [row EXCEPT ![j] = r]
        BY <2>3 DEF Finish, Settle
      <3> HIDE DEF r
      <3>3. Status' = [Status EXCEPT ![j] = "done"] /\ Status[j] = "running"
        BY <2>1, <3>1, <3>2, StatusWritten DEF Status
      <3>4. Contract!Missing(UserOf[j]) = {}
        BY <2>1, <2>3 DEF Finish, HistoryInv, DoneIsKnown, Contract!Missing
      <3>5. PICK k \in Jobs : k = j
        BY <2>1
      <3>6. Contract!Complete(k)
        BY <2>1, <3>3, <3>4, <3>5 DEF Contract!Complete, Status
      <3> QED
        BY <3>6 DEF ContractStep, Contract!Next
    <2>4. CASE Holds(w) /\ Fail(w)
      <3> DEFINE r == Unlease([row[j] EXCEPT !.status = "failed", !.code = l.then])
      <3>1. r.status = "failed" /\ row[j].status = "running"
        BY <1>held, <2>1, <2>4 DEF Row, Unlease
      <3>2. row' = [row EXCEPT ![j] = r]
        BY <2>4 DEF Fail, Settle
      <3> HIDE DEF r
      <3>3. Status' = [Status EXCEPT ![j] = "failed"] /\ Status[j] = "running"
        BY <2>1, <3>1, <3>2, StatusWritten DEF Status
      <3>5. PICK k \in Jobs : k = j
        BY <2>1
      <3>6. Contract!GiveUp(k)
        BY <2>1, <3>3, <3>5 DEF Contract!GiveUp, Status
      <3> QED
        BY <3>6 DEF ContractStep, Contract!Next
    <2>5. CASE Holds(w) /\ (Defer(w) \/ Release(w))
      <3>1. \E r : row' = [row EXCEPT ![j] = r] /\ r.status = row[j].status
        <4>1. CASE Defer(w)
          <5> DEFINE r == Unlease([row[j] EXCEPT !.attempts = l.attempts, !.due = FALSE])
          <5>1. r.status = row[j].status
            BY <2>1 DEF Row, Unlease
          <5>2. row' = [row EXCEPT ![j] = r]
            BY <2>5, <4>1 DEF Defer, Settle
          <5> QED
            BY <5>1, <5>2
        <4>2. CASE Release(w)
          <5> DEFINE r == Unlease(row[j])
          <5>1. r.status = row[j].status
            BY <2>1 DEF Row, Unlease
          <5>2. row' = [row EXCEPT ![j] = r]
            BY <2>5, <4>2 DEF Release, Settle
          <5> QED
            BY <5>1, <5>2
        <4> QED
          BY <2>5, <4>1, <4>2
      <3> QED
        BY <2>1, <3>1, Invisible DEF TypeOK
    <2> QED
      BY <1>3, <2>2, <2>3, <2>4, <2>5 DEF Finish, Fail, Defer, Release, Settle
  <1>4. CASE UNCHANGED <<row, store>>
    BY <1>4, Invisible
  <1> QED
    BY <1>1, <1>2, <1>3, <1>4
    DEF Work, LovesLost, SliceOver, CapReached, PageLost, Refused, RateLimited, Transient,
        ReadPending, QueueClassification, QueueEnrichment

LEMMA StepContract ==
  ASSUME TypeOK, JobInHand, HistoryInv, [Next]_vars
  PROVE  ContractStep
  <1>r. \A j \in Jobs : row[j] \in Row
    BY DEF TypeOK
  <1>1. ASSUME NEW j \in Jobs, Create(j) PROVE ContractStep
    <2> DEFINE r == [row[j] EXCEPT !.status = "pending"]
    <2>1. r.status = "pending"
      BY <1>r DEF Row
    <2>2. row' = [row EXCEPT ![j] = r] /\ UNCHANGED store /\ row[j].status = "none"
      BY <1>1 DEF Create
    <2>3. \A k \in Jobs : UserOf[k] = UserOf[j] => row[k].status \notin {"pending", "running"}
      BY <1>1 DEF Create, IsActive, Active
    <2> HIDE DEF r
    <2>4. Status' = [Status EXCEPT ![j] = "pending"]
      BY <2>1, <2>2, StatusWritten
    <2>5. Contract!Request(j)
      BY <2>2, <2>3, <2>4 DEF Contract!Request, Status
    <2> QED
      BY <2>5 DEF ContractStep, Contract!Next
  <1>2. ASSUME NEW j \in Jobs, Cancel(j) PROVE ContractStep
    <2> DEFINE u == Unlease(row[j])
               r == [u EXCEPT !.status = "cancelled"]
    <2>1. u \in Row
      BY <1>r, UnleaseType
    <2>2. row' = [row EXCEPT ![j] = r] /\ UNCHANGED store /\ row[j].status \in {"pending", "running"}
      BY <1>2 DEF Cancel, IsActive, Active
    <2> HIDE DEF u
    <2>3. r.status = "cancelled"
      BY <2>1 DEF Row
    <2> HIDE DEF r
    <2>4. Status' = [Status EXCEPT ![j] = "cancelled"]
      BY <2>2, <2>3, StatusWritten
    <2>5. Contract!Cancel(j)
      BY <2>2, <2>4 DEF Contract!Cancel, Status
    <2> QED
      BY <2>5 DEF ContractStep, Contract!Next
  <1>3. ASSUME NEW j \in Jobs, BecomesDue(j) \/ LeaseExpires(j) \/ LeaseOutrun(j)
        PROVE  ContractStep
    <2> DEFINE d == [row[j] EXCEPT !.due = TRUE]
               e == [row[j] EXCEPT !.leased = FALSE]
    <2>1. d.status = row[j].status /\ e.status = row[j].status
      BY <1>r DEF Row
    <2>2. (row' = [row EXCEPT ![j] = d] \/ row' = [row EXCEPT ![j] = e]) /\ UNCHANGED store
      BY <1>3 DEF BecomesDue, LeaseExpires, LeaseOutrun
    <2> HIDE DEF d, e
    <2> QED
      BY <2>1, <2>2, Invisible DEF TypeOK
  <1>4. ASSUME NEW w \in Workers, ClaimNext(w) \/ Claim(w) PROVE ContractStep
    <2>1. PICK j \in Jobs : IsActive(j) /\ Lease(w, j)
      BY <1>4 DEF ClaimNext, Claim, Claimable
    <2> DEFINE r == [row[j] EXCEPT !.status = "running", !.token = w, !.leased = TRUE]
    <2>2. r.status = "running"
      BY <1>r DEF Row
    <2>3. row' = [row EXCEPT ![j] = r] /\ UNCHANGED store
      BY <2>1 DEF Lease
    <2> HIDE DEF r
    <2>4. Status' = [Status EXCEPT ![j] = "running"]
      BY <2>2, <2>3, StatusWritten
    <2>5. CASE row[j].status = "running"
      BY <2>2, <2>3, <2>5, Invisible DEF TypeOK
    <2>6. CASE row[j].status = "pending"
      <3>1. Contract!Begin(j)
        BY <2>3, <2>4, <2>6 DEF Contract!Begin, Status
      <3> QED
        BY <3>1 DEF ContractStep, Contract!Next
    <2> QED
      BY <2>1, <2>5, <2>6 DEF IsActive, Active
  <1>5. ASSUME NEW w \in Clis, Interrupt(w) PROVE ContractStep
    <2>1. UNCHANGED store
      BY <1>5 DEF Interrupt
    <2>2. CASE row' = row
      BY <2>1, <2>2, Invisible
    <2>3. CASE wk[w].job \in Jobs /\ row' = [row EXCEPT ![wk[w].job] = Unlease(row[wk[w].job])]
      <3> DEFINE j == wk[w].job
                 r == Unlease(row[j])
      <3>j. j \in Jobs /\ row[j] \in Row
        BY <1>r, <2>3
      <3>1. r.status = row[j].status
        BY <3>j DEF Row, Unlease
      <3>2. row' = [row EXCEPT ![j] = r]
        BY <2>3
      <3> HIDE DEF r
      <3> QED
        BY <2>1, <3>j, <3>1, <3>2, Invisible DEF TypeOK
    <2> QED
      BY <1>5, <2>2, <2>3 DEF Interrupt, TypeOK
  <1>6. ASSUME NEW w \in Workers,
               ReadLeftovers(w) \/ NextLeftover(w) \/ CheckpointError(w) \/ Crash(w)
        PROVE  ContractStep
    BY <1>6, Invisible DEF ReadLeftovers, NextLeftover, CheckpointError, Crash
  <1>7. CASE UNCHANGED vars
    BY <1>7, Invisible DEF vars
  <1> QED
    BY <1>1, <1>2, <1>3, <1>4, <1>5, <1>6, <1>7, WorkContract DEF Next, DaemonStep, Workers

(* Whatever leases, slices, retries, crashes and command lines do, all a   *)
(* user can see of the imports is a behaviour of ImportContract.           *)
THEOREM ImportsKeepContract == Spec => KeepsContract
  <1>1. Init => Contract!Init
    BY DEF Init, Contract!Init, NewRow
  <1>2. TypeOK /\ JobInHand /\ HistoryInv /\ [Next]_vars =>
          [Contract!Next]_<<[j \in Jobs |-> row[j].status], store>>
    BY StepContract DEF ContractStep, Status
  <1> QED
    BY <1>1, <1>2, TypeInvariant, HistoryInvariant, PTL DEF Spec, KeepsContract, Contract!Spec

-----------------------------------------------------------------------------
(***************************************************************************)
(* What becomes of the plays an import stores: the checkpoints hand them   *)
(* on, and the counters count them.                                        *)
(***************************************************************************)

(***************************************************************************)
(* No imported play is forgotten by the checkpoints of ImportJobs, unless  *)
(* a newer page of its job ended in its second.                            *)
(*                                                                         *)
(* clear_pending compares the range it read with the row's, so it forgets  *)
(* nothing that cannot enter a range after it was queued: what is missing  *)
(* is older than every range ever read, or of the oldest second in it and  *)
(* then tied with the play that put that second there.                     *)
(***************************************************************************)

Older(j, p, t) == TimeOf[p] < t \/ (TimeOf[p] = t /\ Tied(j, p))

OwnStore == \A u \in Users, p \in Plays : store[u][p] \in Jobs => UserOf[store[u][p]] = u

MissingIsOlder ==
    \A j \in Jobs, p \in Plays, t \in Times :
        store[UserOf[j]][p] = Absent /\ t \in row[j].pending => Older(j, p, t)

MissingIsOlderThanRead ==
    \A w \in Workers, j \in Jobs, p \in Plays, t \in Times :
        wk[w].job = j /\ store[UserOf[j]][p] = Absent /\ t \in wk[w].range => Older(j, p, t)

RangeIsQueued ==
    \A w \in Workers, j \in Jobs, p \in Plays :
        /\ wk[w].job = j /\ wk[w].pc \in {"enrich", "clear"}
        /\ store[UserOf[j]][p] = j /\ TimeOf[p] \in wk[w].range
        => \/ Tied(j, p)
           \/ /\ <<UserOf[j], p>> \in queued["classifier"]
              /\ wk[w].pc = "clear" => <<UserOf[j], p>> \in queued["enrichment"]

HandoverInv == /\ OwnStore
               /\ MissingIsOlder
               /\ MissingIsOlderThanRead
               /\ RangeIsQueued
               /\ HandedOver

PendingKept == \A j \in Jobs : row'[j].pending = row[j].pending

(* Process m has queued nothing and reads no other range than l did.       *)
ReadsNoMore(m, l) ==
    \/ m.range = {}
    \/ m.range = l.range /\ m.job = l.job /\ m.pc \notin {"enrich", "clear"}

LEMMA IdleQuiet == \A l : ReadsNoMore(Idle, l)
  BY DEF ReadsNoMore, Idle

LEMMA CheckpointQuiet ==
  ASSUME NEW l \in Local, NEW i \in Intents
  PROVE  ReadsNoMore(Checkpoint(l, i), l)
  BY DEF ReadsNoMore, Checkpoint, Idle, Local

LEMMA AfterCheckpointQuiet ==
  ASSUME NEW l \in Local
  PROVE  ReadsNoMore(AfterCheckpoint(l), l)
  BY DEF ReadsNoMore, AfterCheckpoint, Idle, Local

(* Steps that touch neither the store, nor a range, nor the queues.        *)
LEMMA RowHandover ==
  ASSUME HandoverInv, PendingKept, UNCHANGED <<store, queued, wk>>
  PROVE  HandoverInv'
  BY DEF HandoverInv, PendingKept, OwnStore, MissingIsOlder, MissingIsOlderThanRead,
         RangeIsQueued, HandedOver, Older, Tied

LEMMA QuietHandover ==
  ASSUME TypeOK, HandoverInv, PendingKept, UNCHANGED <<store, queued>>,
         NEW w \in Workers, NEW m, ReadsNoMore(m, wk[w]), wk' = [wk EXCEPT ![w] = m]
  PROVE  HandoverInv'
  <1>1. \A v \in Workers : wk'[v] = IF v = w THEN m ELSE wk[v]
    BY DEF TypeOK
  <1>2. OwnStore' /\ MissingIsOlder' /\ HandedOver'
    BY DEF HandoverInv, PendingKept, OwnStore, MissingIsOlder, HandedOver, Older, Tied
  <1>3. MissingIsOlderThanRead'
    BY <1>1 DEF HandoverInv, MissingIsOlderThanRead, ReadsNoMore, Older, Tied
  <1>4. RangeIsQueued'
    BY <1>1 DEF HandoverInv, RangeIsQueued, ReadsNoMore, Tied
  <1> QED
    BY <1>2, <1>3, <1>4 DEF HandoverInv

LEMMA OneRowKept ==
  ASSUME TypeOK, NEW j \in Jobs, NEW r, row' = [row EXCEPT ![j] = r], r.pending = row[j].pending
  PROVE  PendingKept
  BY DEF PendingKept, TypeOK

(* A recorded page joins the pending range; nothing newer is left before   *)
(* it, and what it stores can be in a range somebody has read only by a    *)
(* tie.                                                                    *)
LEMMA PageHandover ==
  ASSUME TypeOK, JobInHand, HistoryInv, HandoverInv,
         NEW w \in Workers, PageRecorded(w)
  PROVE  HandoverInv'
  <1> DEFINE j == wk[w].job
             l == wk[w]
             fresh == Fresh(w)
             n == Cardinality(Fresh(w))
             m == AfterPage(l, n)
             both == row[j].pending \cup {TimeOf[p] : p \in fresh}
             r == [row[j] EXCEPT !.page = NextPage(l.page),
                              !.imported = row[j].imported + n,
                              !.pending = Hull(both),
                              !.attempts = 0, !.leased = TRUE]
  <1>1. /\ l \in Local /\ Sound(l) /\ j \in Jobs /\ row[j] \in Row /\ l.pc = "fetch"
        /\ RecordPage(w) /\ n \in Nat /\ UserOf[j] \in Users /\ queued' = queued
    BY FreshType, ActorsAssumption
    DEF PageRecorded, RecordPage, Walking, TypeOK, JobInHand, Sound
  <1>2. row[j].page = l.page
    BY <1>1 DEF PageRecorded, Holds, HistoryInv, HolderInStep, Walks
  <1>3. \A k \in Jobs : row'[k] = IF k = j THEN r ELSE row[k]
    BY <1>1 DEF TypeOK, RecordPage
  <1>4. r.pending = Hull(both)
    BY <1>1 DEF Row
  <1>5. \A v \in Workers : wk'[v] = IF v = w THEN m ELSE wk[v]
    BY <1>1 DEF TypeOK, RecordPage
  <1>6. \A u \in Users, p \in Plays :
          store'[u][p] = IF u = UserOf[j] /\ p \in fresh THEN j ELSE store[u][p]
    BY <1>1 DEF TypeOK, RecordPage
  <1>7. \A p \in Plays : p \in fresh <=> PageOf[p] = l.page /\ store[UserOf[j]][p] = Absent
    BY <1>1 DEF Fresh
  <1>8. ReadsNoMore(m, l)
    <2> DEFINE counted == [l EXCEPT !.imported = @ + n, !.pages = @ + 1]
               moved == [counted EXCEPT !.page = @ + 1]
    <2>1. /\ counted.range = l.range /\ counted.job = l.job /\ counted.pc = "fetch"
          /\ DOMAIN counted = DOMAIN l
      BY <1>1 DEF Local
    <2>2. /\ moved.range = l.range /\ moved.job = l.job /\ moved.pc = "fetch"
          /\ DOMAIN moved = DOMAIN l
      BY <1>1 DEF Local
    <2>3. {"range", "job", "pc", "then"} \subseteq DOMAIN l
      BY <1>1 DEF Local
    <2>4. m = IF l.page = Pages THEN Checkpoint(counted, "done")
              ELSE IF l.page % SegmentPages = 0 THEN Checkpoint(moved, "walk")
              ELSE moved
      BY DEF AfterPage
    <2> HIDE DEF counted, moved, m
    <2>5. Checkpoint(counted, "done").range = {}
      BY DEF Checkpoint, Idle
    <2>6. /\ Checkpoint(moved, "walk").range = l.range /\ Checkpoint(moved, "walk").job = l.job
          /\ Checkpoint(moved, "walk").pc = "read"
      BY <2>2, <2>3 DEF Checkpoint
    <2> QED
      BY <2>2, <2>4, <2>5, <2>6 DEF ReadsNoMore
  <1> HIDE DEF r, m, n
  <1>t. /\ \A p \in Plays : TimeOf[p] \in Times /\ TimeOf[p] \in Nat /\ PageOf[p] \in Nat
        /\ Times \subseteq Nat /\ l.page \in Nat
    BY <1>1, HistoryAssumption, ConstantsAssumption DEF Times, Local
  <1>u. \A k \in Jobs : UserOf[k] \in Users /\ k # Absent
    BY ActorsAssumption
  <1>9. \A u \in Users, p \in Plays : store'[u][p] = Absent => store[u][p] = Absent
    BY <1>1, <1>6, <1>u
  <1>tie. \A k \in Jobs, p \in Plays : Tied(k, p) => Tied(k, p)'
    BY <1>1, <1>6, <1>7, <1>u DEF Tied
  <1>10. OwnStore'
    BY <1>1, <1>6 DEF HandoverInv, OwnStore
  <1>11. MissingIsOlder'
    <2> SUFFICES ASSUME NEW k \in Jobs, NEW p \in Plays, NEW t \in Times,
                        store'[UserOf[k]][p] = Absent, t \in row'[k].pending
                 PROVE  TimeOf[p] < t \/ (TimeOf[p] = t /\ Tied(k, p)')
      BY DEF MissingIsOlder, Older
    <2>1. store[UserOf[k]][p] = Absent
      BY <1>9, <1>u
    <2>2. CASE k # j
      BY <1>3, <1>tie, <2>1, <2>2 DEF HandoverInv, MissingIsOlder, Older
    <2>3. CASE k = j
      <3>1. PICK a \in both : a <= t
        BY <1>3, <1>4, <2>3 DEF Hull
      <3>2. CASE a \in row[j].pending
        <4>1. a \in Times
          BY <1>1, <3>2 DEF Row
        <4>2. TimeOf[p] < a \/ (TimeOf[p] = a /\ Tied(k, p)')
          BY <1>1, <1>tie, <2>1, <2>3, <3>2, <4>1 DEF HandoverInv, MissingIsOlder, Older
        <4> QED
          BY <1>t, <3>1, <4>1, <4>2
      <3>3. CASE a \in {TimeOf[q] : q \in fresh}
        <4>1. PICK q \in fresh : a = TimeOf[q]
          BY <3>3
        <4>2. q \in Plays /\ PageOf[q] = l.page
          BY <4>1 DEF Fresh
        <4>3. ~(PageOf[p] < l.page)
          BY <1>1, <1>2, <2>1, <2>3 DEF HistoryInv, WalkedIsStored
        <4>4. PageOf[p] # l.page
          BY <1>1, <1>6, <1>7, <1>u, <2>1, <2>3
        <4>5. PageOf[q] < PageOf[p]
          BY <1>t, <4>2, <4>3, <4>4
        <4>6. TimeOf[q] >= TimeOf[p]
          BY <4>2, <4>5, HistoryAssumption
        <4>7. TimeOf[p] = t => TimeOf[q] = TimeOf[p]
          BY <1>t, <3>1, <4>1, <4>2, <4>6
        <4>8. store'[UserOf[k]][q] = k
          BY <1>1, <1>6, <2>3, <4>1, <4>2
        <4>9. TimeOf[p] = t => Tied(k, p)'
          BY <4>2, <4>5, <4>7, <4>8 DEF Tied
        <4> QED
          BY <1>t, <3>1, <4>1, <4>2, <4>6, <4>9
      <3> QED
        BY <3>1, <3>2, <3>3
    <2> QED
      BY <2>2, <2>3
  <1>12. MissingIsOlderThanRead'
    BY <1>5, <1>8, <1>9, <1>u, <1>tie DEF HandoverInv, MissingIsOlderThanRead, ReadsNoMore, Older
  <1>13. RangeIsQueued'
    <2> SUFFICES ASSUME NEW v \in Workers, NEW k \in Jobs, NEW p \in Plays,
                        wk'[v].job = k, wk'[v].pc \in {"enrich", "clear"},
                        store'[UserOf[k]][p] = k, TimeOf[p] \in wk'[v].range
                 PROVE  \/ Tied(k, p)'
                        \/ /\ <<UserOf[k], p>> \in queued["classifier"]
                           /\ wk'[v].pc = "clear" => <<UserOf[k], p>> \in queued["enrichment"]
      BY <1>1 DEF RangeIsQueued
    <2>1. v # w
      BY <1>5, <1>8 DEF ReadsNoMore
    <2>2. wk'[v] = wk[v]
      BY <1>5, <2>1
    <2>3. CASE store[UserOf[k]][p] = Absent
      <3>1. TimeOf[p] < TimeOf[p] \/ Tied(k, p)
        BY <1>t, <2>2, <2>3 DEF HandoverInv, MissingIsOlderThanRead, Older
      <3> QED
        BY <1>t, <1>tie, <3>1
    <2>4. CASE store[UserOf[k]][p] # Absent
      <3>1. store[UserOf[k]][p] = k
        BY <1>6, <1>7, <1>u, <2>4
      <3> QED
        BY <1>tie, <2>2, <3>1 DEF HandoverInv, RangeIsQueued
    <2> QED
      BY <2>3, <2>4
  <1>14. HandedOver'
    <2> SUFFICES ASSUME NEW u \in Users, NEW p \in Plays, NEW k \in Jobs, store'[u][p] = k
                 PROVE  \/ TimeOf[p] \in row'[k].pending
                        \/ \A c \in Consumers : <<u, p>> \in queued[c]
                        \/ Tied(k, p)'
      BY <1>1 DEF HandedOver, Tied
    <2>1. both \subseteq Hull(both)
      <3>1. both \subseteq Times
        BY <1>1, <1>t DEF Row, Fresh
      <3>2. \A t \in Times : t <= t
        BY <1>t
      <3> HIDE DEF both
      <3> QED
        BY <3>1, <3>2 DEF Hull
    <2>2. CASE u = UserOf[j] /\ p \in fresh
      BY <1>1, <1>3, <1>4, <1>6, <2>1, <2>2
    <2>3. CASE ~(u = UserOf[j] /\ p \in fresh)
      <3>1. store[u][p] = k
        BY <1>6, <2>3
      <3>2. row[k].pending \subseteq row'[k].pending
        BY <1>3, <1>4, <2>1
      <3> QED
        BY <1>tie, <3>1, <3>2 DEF HandoverInv, HandedOver
    <2> QED
      BY <2>2, <2>3
  <1> QED
    BY <1>10, <1>11, <1>12, <1>13, <1>14 DEF HandoverInv

(* The first step of a checkpoint.                                         *)
LEMMA ReadHandover ==
  ASSUME TypeOK, JobInHand, HandoverInv, NEW w \in Workers, ReadPending(w)
  PROVE  HandoverInv'
  <1> DEFINE j == wk[w].job
             l == wk[w]
             m == [l EXCEPT !.pc = "classify", !.range = row[j].pending]
  <1>1. /\ l \in Local /\ j \in Jobs /\ row[j] \in Row
        /\ UNCHANGED <<row, store, queued>> /\ PendingKept
    BY DEF ReadPending, TypeOK, JobInHand, Sound, PendingKept
  <1>2. CASE row[j].pending = {}
    BY <1>1, <1>2, AfterCheckpointQuiet, QuietHandover DEF ReadPending
  <1>3. CASE row[j].pending # {}
    <2>1. m.range = row[j].pending /\ m.job = j /\ m.pc = "classify"
      BY <1>1 DEF Local
    <2>2. wk' = [wk EXCEPT ![w] = m]
      BY <1>3 DEF ReadPending
    <2> HIDE DEF m
    <2>3. \A v \in Workers : wk'[v] = IF v = w THEN m ELSE wk[v]
      BY <2>2 DEF TypeOK
    <2>4. OwnStore' /\ MissingIsOlder' /\ HandedOver'
      BY <1>1 DEF HandoverInv, OwnStore, MissingIsOlder, HandedOver, Older, Tied
    <2>5. MissingIsOlderThanRead'
      BY <1>1, <2>1, <2>3
      DEF HandoverInv, MissingIsOlder, MissingIsOlderThanRead, Older, Tied
    <2>6. RangeIsQueued'
      BY <1>1, <2>1, <2>3 DEF HandoverInv, RangeIsQueued, Tied
    <2> QED
      BY <2>4, <2>5, <2>6 DEF HandoverInv
  <1> QED
    BY <1>2, <1>3

(* The second and the third.                                               *)
LEMMA QueueHandover ==
  ASSUME TypeOK, JobInHand, HandoverInv, NEW w \in Workers,
         QueueClassification(w) \/ QueueEnrichment(w)
  PROVE  HandoverInv'
  <1> DEFINE j == wk[w].job
             l == wk[w]
             u == UserOf[j]
  <1>1. l \in Local /\ j \in Jobs /\ u \in Users /\ UNCHANGED <<row, store>>
    BY ActorsAssumption DEF QueueClassification, QueueEnrichment, TypeOK, JobInHand, Sound
  <1>2. PICK pc \in {"enrich", "clear"} :
           /\ wk' = [wk EXCEPT ![w].pc = pc]
           /\ pc = "enrich" => QueueClassification(w)
           /\ pc = "clear" => QueueEnrichment(w)
    BY DEF QueueClassification, QueueEnrichment
  <1> DEFINE m == [l EXCEPT !.pc = pc]
  <1>3. m.range = l.range /\ m.job = j /\ m.pc = pc
    BY <1>1 DEF Local
  <1>4. \A v \in Workers : wk'[v] = IF v = w THEN m ELSE wk[v]
    BY <1>2 DEF TypeOK
  <1> HIDE DEF m
  <1>5. \A c \in Consumers : queued[c] \subseteq queued'[c]
    BY DEF QueueClassification, QueueEnrichment, TypeOK
  <1>6. OwnStore' /\ MissingIsOlder'
    BY <1>1 DEF HandoverInv, OwnStore, MissingIsOlder, Older, Tied
  <1>7. MissingIsOlderThanRead'
    BY <1>1, <1>3, <1>4 DEF HandoverInv, MissingIsOlderThanRead, Older, Tied
  <1>8. HandedOver'
    BY <1>1, <1>5 DEF HandoverInv, HandedOver, Tied
  <1>9. RangeIsQueued'
    <2> SUFFICES ASSUME NEW v \in Workers, NEW k \in Jobs, NEW p \in Plays,
                        wk'[v].job = k, wk'[v].pc \in {"enrich", "clear"},
                        store[UserOf[k]][p] = k, TimeOf[p] \in wk'[v].range, ~Tied(k, p)
                 PROVE  /\ <<UserOf[k], p>> \in queued'["classifier"]
                        /\ wk'[v].pc = "clear" => <<UserOf[k], p>> \in queued'["enrichment"]
      BY <1>1 DEF RangeIsQueued, Tied
    <2>c. "classifier" \in Consumers /\ "enrichment" \in Consumers
      BY DEF Consumers
    <2>1. CASE v # w
      BY <1>4, <1>5, <2>c, <2>1 DEF HandoverInv, RangeIsQueued
    <2>2. CASE v = w
      <3>1. k = j /\ TimeOf[p] \in l.range /\ store[u][p] # Absent
        BY <1>3, <1>4, <2>2, ActorsAssumption
      <3>2. p \in InRange(w)
        BY <3>1 DEF InRange
      <3>3. CASE pc = "enrich"
        <4>1. queued'["classifier"] = queued["classifier"] \cup ({u} \X InRange(w))
          BY <1>2, <2>c, <3>3 DEF QueueClassification, TypeOK
        <4> QED
          BY <1>3, <1>4, <2>2, <3>1, <3>2, <3>3, <4>1
      <3>4. CASE pc = "clear"
        <4>1. queued'["enrichment"] = queued["enrichment"] \cup
                 ({u} \X {q \in InRange(w) : store[u][q] = j})
          BY <1>2, <2>c, <3>4 DEF QueueEnrichment, TypeOK
        <4>2. l.pc = "enrich"
          BY <1>2, <3>4 DEF QueueEnrichment
        <4>3. <<u, p>> \in queued["classifier"]
          BY <1>1, <3>1, <4>2 DEF HandoverInv, RangeIsQueued
        <4> QED
          BY <1>5, <2>c, <3>1, <3>2, <4>1, <4>3
      <3> QED
        BY <3>3, <3>4
    <2> QED
      BY <2>1, <2>2
  <1> QED
    BY <1>6, <1>7, <1>8, <1>9 DEF HandoverInv

(* The last: what the range named is queued by now.                        *)
LEMMA ClearHandover ==
  ASSUME TypeOK, JobInHand, HandoverInv, NEW w \in Workers, ClearPending(w)
  PROVE  HandoverInv'
  <1> DEFINE j == wk[w].job
             l == wk[w]
             m == AfterCheckpoint(l)
             r == [row[j] EXCEPT !.pending = {}]
  <1>1. /\ l \in Local /\ j \in Jobs /\ row[j] \in Row /\ l.pc = "clear"
        /\ UNCHANGED <<store, queued>> /\ wk' = [wk EXCEPT ![w] = m]
    BY DEF ClearPending, TypeOK, JobInHand, Sound
  <1>2. ReadsNoMore(m, l)
    BY <1>1, AfterCheckpointQuiet
  <1> HIDE DEF m
  <1>3. CASE row' = row
    BY <1>1, <1>2, <1>3, QuietHandover DEF PendingKept
  <1>4. CASE row[j].pending = l.range /\ row' = [row EXCEPT ![j] = r]
    <2>1. r.pending = {}
      BY <1>1 DEF Row
    <2>2. \A k \in Jobs : row'[k] = IF k = j THEN r ELSE row[k]
      BY <1>4 DEF TypeOK
    <2> HIDE DEF r
    <2>3. \A v \in Workers : wk'[v] = IF v = w THEN m ELSE wk[v]
      BY <1>1 DEF TypeOK
    <2>4. OwnStore' /\ MissingIsOlder'
      BY <1>1, <2>1, <2>2 DEF HandoverInv, OwnStore, MissingIsOlder, Older, Tied
    <2>5. MissingIsOlderThanRead' /\ RangeIsQueued'
      BY <1>1, <1>2, <2>3
      DEF HandoverInv, MissingIsOlderThanRead, RangeIsQueued, ReadsNoMore, Older, Tied
    <2>6. HandedOver'
      <3> SUFFICES ASSUME NEW u \in Users, NEW p \in Plays, store[u][p] \in Jobs,
                          ~Tied(store[u][p], p)
                   PROVE  \/ TimeOf[p] \in row'[store[u][p]].pending
                          \/ \A c \in Consumers : <<u, p>> \in queued[c]
        BY <1>1 DEF HandedOver, Tied
      <3>1. CASE store[u][p] = j /\ TimeOf[p] \in row[j].pending
        <4>1. u = UserOf[j]
          BY <3>1 DEF HandoverInv, OwnStore
        <4>2. <<u, p>> \in queued["classifier"] /\ <<u, p>> \in queued["enrichment"]
          BY <1>1, <1>4, <3>1, <4>1 DEF HandoverInv, RangeIsQueued
        <4> QED
          BY <4>2 DEF Consumers
      <3>2. CASE ~(store[u][p] = j /\ TimeOf[p] \in row[j].pending)
        BY <2>2, <3>2 DEF HandoverInv, HandedOver
      <3> QED
        BY <3>1, <3>2
    <2> QED
      BY <2>4, <2>5, <2>6 DEF HandoverInv
  <1> QED
    BY <1>3, <1>4 DEF ClearPending

(* Every step of a process that has a job in hand.                         *)
LEMMA WorkHandover ==
  ASSUME TypeOK, JobInHand, HistoryInv, HandoverInv,
         NEW w \in Workers, Work(w)
  PROVE  HandoverInv'
  <1> DEFINE j == wk[w].job
             l == wk[w]
  <1>l. l \in Local /\ (l.pc \notin {"idle", "leftovers"} => j \in Jobs /\ row[j] \in Row)
    BY DEF TypeOK, JobInHand, Sound
  <1>i. Intents = {"cap_reached", "lastfm_error", "lastfm_unavailable",
                   "walk", "done", "defer", "release", "lost", "leftovers"}
    BY DEF Intents, Failures
  <1>k. row' = row => PendingKept
    BY DEF PendingKept
  <1>1. CASE LovesRecorded(w)
    <2>1. j \in Jobs /\ row[j] \in Row
      BY <1>1, <1>l DEF LovesRecorded, InLoves
    <2>2. PICK capped \in BOOLEAN :
            LET over == l.lovedPage >= LovedPages \/ capped
                next == l.lovedPage + 1
            IN  /\ row' = [row EXCEPT ![j] =
                              [@ EXCEPT !.lovedPage = next, !.lovedDone = over,
                                        !.attempts = 0, !.leased = TRUE]]
                /\ wk' = [wk EXCEPT ![w] =
                              [wk[w] EXCEPT !.lovedPage = next, !.lovedDone = over,
                                            !.pages = @ + 1]]
      BY <1>1 DEF LovesRecorded
    <2> DEFINE over == l.lovedPage >= LovedPages \/ capped
               next == l.lovedPage + 1
               more == l.pages + 1
               r == [row[j] EXCEPT !.lovedPage = next, !.lovedDone = over,
                                   !.attempts = 0, !.leased = TRUE]
               m == [l EXCEPT !.lovedPage = next, !.lovedDone = over, !.pages = more]
    <2>3. row' = [row EXCEPT ![j] = r] /\ wk' = [wk EXCEPT ![w] = m]
      <3>1. row' = [row EXCEPT ![j] = [row[j] EXCEPT !.lovedPage = next, !.lovedDone = over,
                                                     !.attempts = 0, !.leased = TRUE]]
        BY <2>2 DEF TypeOK
      <3>2. wk' = [wk EXCEPT ![w] = [wk[w] EXCEPT !.lovedPage = next, !.lovedDone = over,
                                                  !.pages = wk[w].pages + 1]]
        BY <2>2 DEF TypeOK
      <3> QED
        BY <3>1, <3>2
    <2> HIDE DEF over, next, more
    <2>4. r.pending = row[j].pending
      BY <2>1 DEF Row
    <2>5. m.range = l.range /\ m.job = l.job /\ m.pc = l.pc
      BY <1>l DEF Local
    <2> HIDE DEF r, m
    <2>6. ReadsNoMore(m, l) /\ UNCHANGED <<store, queued>>
      BY <1>1, <2>5 DEF LovesRecorded, InLoves, ReadsNoMore
    <2>7. PendingKept
      BY <2>1, <2>3, <2>4, OneRowKept
    <2> QED
      BY <2>3, <2>6, <2>7, QuietHandover
  <1>2. CASE LovesLost(w)
    BY <1>2, <1>k, IdleQuiet, QuietHandover DEF LovesLost
  <1>3. CASE LovesSkipped(w)
    <2>1. j \in Jobs /\ row[j] \in Row
      BY <1>3, <1>l DEF LovesSkipped, InLoves
    <2> DEFINE m == [l EXCEPT !.lovedDone = TRUE]
               r == [row[j] EXCEPT !.lovedDone = TRUE]
    <2>2. m.range = l.range /\ m.job = l.job /\ m.pc = l.pc /\ r.pending = row[j].pending
      BY <1>l, <2>1 DEF Local, Row
    <2>3. /\ wk' = [wk EXCEPT ![w] = m] /\ UNCHANGED <<store, queued>>
          /\ row' = [row EXCEPT ![j] = r] \/ UNCHANGED row
      BY <1>3 DEF LovesSkipped
    <2> HIDE DEF m, r
    <2>4. ReadsNoMore(m, l)
      BY <1>3, <2>2 DEF LovesSkipped, InLoves, ReadsNoMore
    <2>5. PendingKept
      BY <1>k, <2>1, <2>2, <2>3, OneRowKept
    <2> QED
      BY <2>3, <2>4, <2>5, QuietHandover
  <1>4. CASE SliceOver(w)
    BY <1>4, <1>l, <1>i, <1>k, CheckpointQuiet, QuietHandover DEF SliceOver
  <1>5. CASE CapReached(w)
    BY <1>5, <1>l, <1>i, <1>k, CheckpointQuiet, QuietHandover DEF CapReached
  <1>6. CASE PageRecorded(w)
    BY <1>6, PageHandover
  <1>7. CASE PageLost(w)
    BY <1>7, <1>l, <1>i, <1>k, CheckpointQuiet, QuietHandover DEF PageLost
  <1>8. CASE Refused(w)
    BY <1>8, <1>l, <1>i, <1>k, CheckpointQuiet, QuietHandover DEF Refused
  <1>9. CASE RateLimited(w) \/ Transient(w)
    <2>1. PICK n \in Nat : DeferOrGiveUp(w, n)
      BY <1>9, <1>l DEF RateLimited, Transient, Local
    <2> DEFINE m == [l EXCEPT !.attempts = n]
               c == Checkpoint(m, IF n >= MaxAttempts THEN "lastfm_unavailable" ELSE "defer")
    <2>2. wk' = [wk EXCEPT ![w] = c] /\ UNCHANGED <<row, store, queued>>
      BY <1>9, <2>1 DEF DeferOrGiveUp, RateLimited, Transient
    <2>3. c.range = {}
      BY DEF Checkpoint, Idle
    <2> HIDE DEF c
    <2>4. ReadsNoMore(c, l)
      BY <2>3 DEF ReadsNoMore
    <2> QED
      BY <1>k, <2>2, <2>4, QuietHandover
  <1>10. CASE ReadPending(w)
    BY <1>10, ReadHandover
  <1>11. CASE QueueClassification(w) \/ QueueEnrichment(w)
    BY <1>11, QueueHandover
  <1>12. CASE ClearPending(w)
    BY <1>12, ClearHandover
  <1>13. CASE Finish(w) \/ Fail(w) \/ Defer(w) \/ Release(w)
    <2>1. l.pc = "settle" /\ wk' = [wk EXCEPT ![w] = Idle] /\ UNCHANGED <<store, queued>>
      BY <1>13 DEF Finish, Fail, Defer, Release, Settle
    <2>2. j \in Jobs /\ row[j] \in Row
      BY <1>l, <2>1
    <2>3. PendingKept
      <3>1. \A r \in Row : Unlease(r).pending = r.pending
        BY DEF Unlease, Row
      <3>2. CASE row' = row
        BY <1>k, <3>2
      <3>3. CASE Finish(w)
        <4> DEFINE s == [row[j] EXCEPT !.status = "done", !.code = "none"]
        <4>1. s \in Row /\ s.pending = row[j].pending
          BY <2>2 DEF Row, Ended
        <4>2. row' = row \/ row' = [row EXCEPT ![j] = Unlease(s)]
          BY <3>3 DEF Finish, Settle
        <4> HIDE DEF s
        <4> QED
          BY <1>k, <2>2, <3>1, <4>1, <4>2, OneRowKept
      <3>4. CASE Fail(w)
        <4> DEFINE s == [row[j] EXCEPT !.status = "failed", !.code = l.then]
        <4>1. s \in Row /\ s.pending = row[j].pending
          BY <2>2, <3>4 DEF Row, Ended, Fail
        <4>2. row' = row \/ row' = [row EXCEPT ![j] = Unlease(s)]
          BY <3>4 DEF Fail, Settle
        <4> HIDE DEF s
        <4> QED
          BY <1>k, <2>2, <3>1, <4>1, <4>2, OneRowKept
      <3>5. CASE Defer(w)
        <4> DEFINE s == [row[j] EXCEPT !.attempts = l.attempts, !.due = FALSE]
        <4>1. s \in Row /\ s.pending = row[j].pending
          BY <1>l, <2>2 DEF Row, Local
        <4>2. row' = row \/ row' = [row EXCEPT ![j] = Unlease(s)]
          BY <3>5 DEF Defer, Settle
        <4> HIDE DEF s
        <4> QED
          BY <1>k, <2>2, <3>1, <4>1, <4>2, OneRowKept
      <3>6. CASE Release(w)
        <4>1. row' = row \/ row' = [row EXCEPT ![j] = Unlease(row[j])]
          BY <3>6 DEF Release, Settle
        <4> QED
          BY <1>k, <2>2, <3>1, <4>1, OneRowKept
      <3> QED
        BY <1>13, <3>3, <3>4, <3>5, <3>6
    <2> QED
      BY <2>1, <2>3, IdleQuiet, QuietHandover
  <1> QED
    BY <1>1, <1>2, <1>3, <1>4, <1>5, <1>6, <1>7, <1>8, <1>9, <1>10, <1>11, <1>12, <1>13
    DEF Work

LEMMA StepHandover ==
  ASSUME TypeOK, JobInHand, HistoryInv, HandoverInv, [Next]_vars
  PROVE  HandoverInv'
  <1>k. row' = row => PendingKept
    BY DEF PendingKept
  <1>r. \A j \in Jobs : row[j] \in Row
    BY DEF TypeOK
  <1>1. ASSUME NEW j \in Jobs, Create(j) \/ BecomesDue(j) \/ LeaseExpires(j) \/ LeaseOutrun(j)
        PROVE  HandoverInv'
    <2> DEFINE c == [row[j] EXCEPT !.status = "pending"]
               d == [row[j] EXCEPT !.due = TRUE]
               e == [row[j] EXCEPT !.leased = FALSE]
    <2>1. c.pending = row[j].pending /\ d.pending = row[j].pending /\ e.pending = row[j].pending
      BY <1>r DEF Row
    <2>2. /\ UNCHANGED <<store, queued, wk>>
          /\ \/ row' = [row EXCEPT ![j] = c]
             \/ row' = [row EXCEPT ![j] = d]
             \/ row' = [row EXCEPT ![j] = e]
      BY <1>1 DEF Create, BecomesDue, LeaseExpires, LeaseOutrun
    <2> HIDE DEF c, d, e
    <2> QED
      BY <2>1, <2>2, OneRowKept, RowHandover
  <1>2. ASSUME NEW j \in Jobs, Cancel(j) PROVE HandoverInv'
    <2> DEFINE u == Unlease(row[j])
               r == [u EXCEPT !.status = "cancelled"]
    <2>1. u \in Row /\ u.pending = row[j].pending
      BY <1>r, UnleaseType DEF Unlease, Row
    <2>2. row' = [row EXCEPT ![j] = r] /\ UNCHANGED <<store, queued, wk>>
      BY <1>2 DEF Cancel
    <2> HIDE DEF u
    <2>3. r.pending = row[j].pending
      BY <2>1 DEF Row
    <2> HIDE DEF r
    <2> QED
      BY <2>2, <2>3, OneRowKept, RowHandover
  <1>3. ASSUME NEW w \in Workers, ClaimNext(w) \/ Claim(w) PROVE HandoverInv'
    <2>1. PICK j \in Jobs : Lease(w, j)
      BY <1>3 DEF ClaimNext, Claim
    <2> DEFINE r == [row[j] EXCEPT !.status = "running", !.token = w, !.leased = TRUE]
               m == [Idle EXCEPT !.pc = "fetch",
                                 !.job = j,
                                 !.page = row[j].page,
                                 !.imported = row[j].imported,
                                 !.before = ImportedBefore(j),
                                 !.attempts = row[j].attempts,
                                 !.lovedPage = row[j].lovedPage,
                                 !.lovedDone = row[j].lovedDone]
    <2>2. r.pending = row[j].pending /\ m.range = {}
      BY <1>r DEF Row, Idle
    <2>3. row' = [row EXCEPT ![j] = r] /\ UNCHANGED <<store, queued>>
      BY <2>1 DEF Lease
    <2>4. wk' = [wk EXCEPT ![w] = m]
      BY <2>1 DEF Lease
    <2> HIDE DEF r, m
    <2> QED
      BY <2>2, <2>3, <2>4, OneRowKept, QuietHandover DEF ReadsNoMore
  <1>4. ASSUME NEW w \in Clis, Interrupt(w) PROVE HandoverInv'
    <2>1. /\ w \in Workers /\ wk' = [wk EXCEPT ![w] = Idle] /\ UNCHANGED <<store, queued>>
          /\ wk[w].job \in Jobs \cup {NoJob}
      BY <1>4 DEF Interrupt, Workers, TypeOK, Local
    <2>2. row' = row \/ row' = [row EXCEPT ![wk[w].job] = Unlease(row[wk[w].job])]
      BY <1>4 DEF Interrupt
    <2>3. PendingKept
      <3>1. \A r \in Row : Unlease(r).pending = r.pending
        BY DEF Unlease, Row
      <3>2. CASE wk[w].job \in Jobs
        BY <1>k, <1>r, <2>2, <3>1, <3>2, OneRowKept
      <3>3. CASE wk[w].job \notin Jobs
        BY <1>k, <2>2, <3>3 DEF TypeOK, PendingKept
      <3> QED
        BY <3>2, <3>3
    <2> QED
      BY <2>1, <2>3, IdleQuiet, QuietHandover
  <1>5. ASSUME NEW w \in Workers, ReadLeftovers(w) \/ NextLeftover(w) \/ Crash(w)
        PROVE  HandoverInv'
    <2>1. PICK m : m.range = {} /\ wk' = [wk EXCEPT ![w] = m] /\ UNCHANGED <<row, store, queued>>
      BY <1>5 DEF ReadLeftovers, NextLeftover, Crash, Checkpoint, Idle
    <2> QED
      BY <1>k, <2>1, QuietHandover DEF ReadsNoMore
  <1>6. ASSUME NEW w \in Workers, CheckpointError(w) PROVE HandoverInv'
    BY <1>k, <1>6, AfterCheckpointQuiet, QuietHandover DEF CheckpointError, TypeOK
  <1>7. CASE UNCHANGED vars
    BY <1>k, <1>7, RowHandover DEF vars
  <1> QED
    BY <1>1, <1>2, <1>3, <1>4, <1>5, <1>6, <1>7, WorkHandover DEF Next, DaemonStep, Workers

LEMMA InitHandover == Init => HandoverInv
  <1> SUFFICES ASSUME Init PROVE HandoverInv
    OBVIOUS
  <1>1. \A u \in Users, p \in Plays : store[u][p] \notin Jobs
    BY ActorsAssumption DEF Init
  <1>2. \A j \in Jobs : row[j].pending = {}
    BY DEF Init, NewRow
  <1>3. \A w \in Workers : wk[w].range = {}
    BY DEF Init, Idle
  <1> QED
    BY <1>1, <1>2, <1>3
    DEF HandoverInv, OwnStore, MissingIsOlder, MissingIsOlderThanRead, RangeIsQueued, HandedOver

(* Every imported play has been queued for the classifier and for          *)
(* enrichment, or a later checkpoint will queue it, whoever crashed or was *)
(* overtaken in the middle of a checkpoint, with the one exception that    *)
(* HandedOver names: a newer page of the job ended in the play's second.   *)
THEOREM PlaysAreHandedOver == Spec => []HandedOver
  <1>1. Init => HandoverInv
    BY InitHandover
  <1>2. TypeOK /\ JobInHand /\ HistoryInv /\ HandoverInv /\ [Next]_vars => HandoverInv'
    BY StepHandover
  <1>3. HandoverInv => HandedOver
    BY DEF HandoverInv
  <1> QED
    BY <1>1, <1>2, <1>3, TypeInvariant, HistoryInvariant, PTL DEF Spec

-----------------------------------------------------------------------------
(***************************************************************************)
(* CapHolds is not inductive: the cap is compared with what the process    *)
(* remembers, the counts of the user's other imports as they were when the *)
(* job was leased.  It needs that nobody else imports for the user while   *)
(* the lease is held, so that this memory is still exact when a page is    *)
(* recorded, and that the counters add up to the plays stored.             *)
(***************************************************************************)
StoredByOwnImport ==
    \A u \in Users, p \in Plays : store[u][p] \in Jobs => UserOf[store[u][p]] = u

OneActiveImport ==
    \A j, k \in Jobs : IsActive(j) /\ IsActive(k) /\ UserOf[j] = UserOf[k] => j = k

BeforeIsExact ==
    \A w \in Workers, j \in Jobs :
        wk[w].job = j /\ row[j].token = w /\ Walks(w) => wk[w].before = ImportedBefore(j)

CountInv == /\ StoredByOwnImport
            /\ Counted
            /\ OneActiveImport
            /\ BeforeIsExact
            /\ CapHolds

-----------------------------------------------------------------------------
(* The counts of a user's other imports are a count of plays: matching the *)
(* n-th count of an import with the n-th play it stored is a bijection.    *)
StoredBy(u, k) == {p \in Plays : store[u][p] = k}
StoredByOthers(j) == {p \in Plays : store[UserOf[j]][p] \in Jobs \ {j}}
OtherCounts(j) == {on \in Jobs \X (1..Cardinality(Plays)) :
                      /\ on[1] # j
                      /\ UserOf[on[1]] = UserOf[j]
                      /\ on[2] <= row[on[1]].imported}

LEMMA StoredByFinite ==
  \A u, k : /\ IsFiniteSet(StoredBy(u, k))
            /\ Cardinality(StoredBy(u, k)) \in 0..Cardinality(Plays)
            /\ ExistsBijection(1..Cardinality(StoredBy(u, k)), StoredBy(u, k))
  <1> TAKE u, k
  <1>1. StoredBy(u, k) \in SUBSET Plays
    BY DEF StoredBy
  <1>2. IsFiniteSet(StoredBy(u, k)) /\ Cardinality(StoredBy(u, k)) <= Cardinality(Plays)
    BY <1>1, HistoryAssumption, FS_Subset
  <1>3. Cardinality(StoredBy(u, k)) \in Nat /\ Cardinality(Plays) \in Nat
    BY <1>2, HistoryAssumption, FS_CardinalityType
  <1> QED
    BY <1>2, <1>3, FS_CardinalityType

LEMMA CountsArePlays ==
  ASSUME TypeOK, StoredByOwnImport, Counted, NEW j \in Jobs
  PROVE  ImportedBefore(j) = Cardinality(StoredByOthers(j))
  <1> DEFINE u == UserOf[j]
             S == OtherCounts(j)
             T == StoredByOthers(j)
             n(k) == Cardinality(StoredBy(u, k))
             f == [k \in Jobs |-> CHOOSE b : b \in Bijection(1..n(k), StoredBy(u, k))]
             g == [on \in S |-> f[on[1]][on[2]]]
  <1>1. u \in Users /\ Cardinality(Plays) \in Nat
    BY ActorsAssumption, HistoryAssumption, FS_CardinalityType
  <1>2. \A k \in Jobs : n(k) \in 0..Cardinality(Plays)
    BY StoredByFinite
  <1>3. \A k \in Jobs : UserOf[k] = u => row[k].imported = n(k)
    BY DEF Counted, StoredBy
  <1>4. \A k \in Jobs : f[k] \in Bijection(1..n(k), StoredBy(u, k))
    <2> TAKE k \in Jobs
    <2>1. \E b : b \in Bijection(1..n(k), StoredBy(u, k))
      BY StoredByFinite DEF ExistsBijection
    <2> QED
      BY <2>1
  <1> HIDE DEF f
  <1>5. \A k \in Jobs : /\ f[k] \in [1..n(k) -> StoredBy(u, k)]
                        /\ \A a, b \in 1..n(k) : f[k][a] = f[k][b] => a = b
                        /\ \A p \in StoredBy(u, k) : \E a \in 1..n(k) : f[k][a] = p
    BY <1>4 DEF Bijection, Injection, Surjection, IsInjective
  <1>6. \A on \in S : /\ on[1] \in Jobs \ {j} /\ on[2] \in 1..n(on[1])
                      /\ on = <<on[1], on[2]>>
    BY <1>1, <1>2, <1>3 DEF OtherCounts
  <1>7. \A k \in Jobs \ {j} : \A a \in 1..n(k) : UserOf[k] = u => <<k, a>> \in S
    BY <1>1, <1>2, <1>3 DEF OtherCounts
  <1> HIDE DEF n
  <1>8. \A on \in S : g[on] \in T /\ store[u][g[on]] = on[1]
    <2> TAKE on \in S
    <2>1. f[on[1]][on[2]] \in StoredBy(u, on[1])
      <3>1. f[on[1]] \in [1..n(on[1]) -> StoredBy(u, on[1])]
        BY <1>5, <1>6
      <3> QED
        BY <1>6, <3>1
    <2> QED
      BY <1>6, <2>1 DEF StoredBy, StoredByOthers
  <1>9. g \in Injection(S, T)
    <2>1. \A a, b \in S : g[a] = g[b] => a = b
      <3> SUFFICES ASSUME NEW a \in S, NEW b \in S, g[a] = g[b]
                   PROVE  a = b
        OBVIOUS
      <3>1. a[1] = b[1]
        BY <1>8
      <3>2. a[2] = b[2]
        BY <1>5, <1>6, <3>1
      <3> QED
        BY <1>6, <3>1, <3>2
    <2> QED
      BY <1>8, <2>1 DEF Injection, IsInjective
  <1>10. g \in Surjection(S, T)
    <2>1. \A p \in T : \E on \in S : g[on] = p
      <3> TAKE p \in T
      <3> DEFINE k == store[u][p]
      <3>1. k \in Jobs \ {j} /\ UserOf[k] = u /\ p \in StoredBy(u, k)
        BY <1>1 DEF StoredByOthers, StoredBy, StoredByOwnImport
      <3>2. PICK a \in 1..n(k) : f[k][a] = p
        BY <1>5, <3>1
      <3>3. <<k, a>> \in S
        BY <1>7, <3>1
      <3> QED
        BY <3>2, <3>3
    <2> QED
      BY <1>8, <2>1 DEF Surjection
  <1>11. IsFiniteSet(T)
    <2>1. T \in SUBSET Plays
      BY DEF StoredByOthers
    <2> QED
      BY <2>1, HistoryAssumption, FS_Subset
  <1>12. Cardinality(S) = Cardinality(T)
    BY <1>9, <1>10, <1>11, FS_Injection
  <1> QED
    BY <1>12 DEF ImportedBefore, OtherCounts

(* Own counts and the others' together are the user's imported plays.      *)
LEMMA CountsAddUp ==
  ASSUME TypeOK, StoredByOwnImport, Counted, NEW j \in Jobs
  PROVE  Cardinality(ImportedPlays(UserOf[j])) = ImportedBefore(j) + row[j].imported
  <1> DEFINE u == UserOf[j]
             own == StoredBy(u, j)
             others == StoredByOthers(j)
  <1>1. ImportedPlays(u) = others \cup own /\ others \cap own = {}
    BY DEF ImportedPlays, StoredByOthers, StoredBy
  <1>2. others \in SUBSET Plays /\ own \in SUBSET Plays
    BY DEF StoredByOthers, StoredBy
  <1>3. IsFiniteSet(others) /\ IsFiniteSet(own)
    BY <1>2, HistoryAssumption, FS_Subset
  <1>4. Cardinality(others) \in Nat /\ Cardinality(own) \in Nat
    BY <1>3, FS_CardinalityType
  <1>5. Cardinality(others \cup own) = Cardinality(others) + Cardinality(own) - Cardinality({})
    BY <1>1, <1>3, FS_Union
  <1>6. Cardinality(own) = row[j].imported
    BY DEF Counted, StoredBy
  <1> HIDE DEF own, others
  <1>7. Cardinality({}) = 0
    BY FS_EmptySet
  <1>8. ImportedBefore(j) = Cardinality(others)
    BY CountsArePlays DEF others
  <1> QED
    BY <1>1, <1>4, <1>5, <1>6, <1>7, <1>8
-----------------------------------------------------------------------------
(* Steps that count nothing, start no import and lease none.               *)
KeepsCounts(m, l) ==
    m.pc = "fetch" \/ m.then = "walk" =>
        /\ l.pc = "fetch" \/ l.then = "walk"
        /\ m.job = l.job
        /\ m.before = l.before

Quiet ==
    /\ UNCHANGED store
    /\ \A j \in Jobs : /\ row'[j].imported = row[j].imported
                       /\ row'[j].status \in Active => row[j].status \in Active
                       /\ row'[j].token \in Workers => row'[j].token = row[j].token
    /\ \A w \in Workers : KeepsCounts(wk'[w], wk[w])

LEMMA SameCounts ==
  ASSUME \A j \in Jobs : row'[j].imported = row[j].imported
  PROVE  \A j \in Jobs : ImportedBefore(j)' = ImportedBefore(j)
  <1> TAKE j \in Jobs
  <1>1. {on \in Jobs \X (1..Cardinality(Plays)) :
            /\ on[1] # j
            /\ UserOf[on[1]] = UserOf[j]
            /\ on[2] <= row'[on[1]].imported} = OtherCounts(j)
    BY DEF OtherCounts
  <1> QED
    BY <1>1 DEF ImportedBefore, OtherCounts

(* What only depends on the stored plays and the counters.                 *)
LEMMA SameStore ==
  ASSUME CountInv, UNCHANGED store, \A j \in Jobs : row'[j].imported = row[j].imported
  PROVE  StoredByOwnImport' /\ Counted' /\ CapHolds'
  BY DEF CountInv, StoredByOwnImport, Counted, CapHolds, ImportedPlays

LEMMA QuietStep ==
  ASSUME CountInv, Quiet
  PROVE  CountInv'
  <1>1. StoredByOwnImport' /\ Counted' /\ CapHolds'
    BY SameStore DEF Quiet
  <1>2. OneActiveImport'
    BY DEF Quiet, CountInv, OneActiveImport, IsActive
  <1>3. \A j \in Jobs : ImportedBefore(j)' = ImportedBefore(j)
    BY SameCounts DEF Quiet
  <1>4. BeforeIsExact'
    BY <1>3 DEF Quiet, KeepsCounts, CountInv, BeforeIsExact, Walks
  <1> QED
    BY <1>1, <1>2, <1>4 DEF CountInv

LEMMA CreateStep ==
  ASSUME TypeOK, CountInv, NEW j \in Jobs, Create(j)
  PROVE  CountInv'
  <1>1. row[j] \in Row
    BY DEF TypeOK
  <1> DEFINE r == [row[j] EXCEPT !.status = "pending"]
  <1>2. r.imported = row[j].imported /\ r.token = row[j].token
    BY <1>1 DEF Row
  <1>3. \A k \in Jobs : row'[k] = IF k = j THEN r ELSE row[k]
    BY DEF Create, TypeOK
  <1> HIDE DEF r
  <1>4. StoredByOwnImport' /\ Counted' /\ CapHolds'
    BY <1>2, <1>3, SameStore DEF Create
  <1>5. OneActiveImport'
    BY <1>3 DEF Create, CountInv, OneActiveImport, IsActive
  <1>6. \A k \in Jobs : ImportedBefore(k)' = ImportedBefore(k)
    BY <1>2, <1>3, SameCounts
  <1>7. BeforeIsExact'
    BY <1>2, <1>3, <1>6 DEF Create, CountInv, BeforeIsExact, Walks
  <1> QED
    BY <1>4, <1>5, <1>7 DEF CountInv

(* A lease copies the counts of the moment.                                *)
LEMMA LeaseCounts ==
  ASSUME TypeOK, CountInv, NEW w \in Workers, NEW j \in Jobs, IsActive(j), Lease(w, j)
  PROVE  CountInv'
  <1>1. row[j] \in Row
    BY DEF TypeOK
  <1> DEFINE r == [row[j] EXCEPT !.status = "running", !.token = w, !.leased = TRUE]
             m == [Idle EXCEPT !.pc = "fetch",
                     !.job = j,
                     !.page = row[j].page,
                     !.imported = row[j].imported,
                     !.before = ImportedBefore(j),
                     !.attempts = row[j].attempts,
                     !.lovedPage = row[j].lovedPage,
                     !.lovedDone = row[j].lovedDone]
  <1>2. r.imported = row[j].imported /\ r.token = w
    BY <1>1 DEF Row
  <1>3. \A k \in Jobs : row'[k] = IF k = j THEN r ELSE row[k]
    BY DEF Lease, TypeOK
  <1>4. m.job = j /\ m.before = ImportedBefore(j)
    BY DEF Idle
  <1>5. \A v \in Workers : wk'[v] = IF v = w THEN m ELSE wk[v]
    BY DEF Lease, TypeOK
  <1> HIDE DEF r, m
  <1>6. StoredByOwnImport' /\ Counted' /\ CapHolds'
    BY <1>2, <1>3, SameStore DEF Lease
  <1>7. OneActiveImport'
    BY <1>3 DEF CountInv, OneActiveImport, IsActive
  <1>8. \A k \in Jobs : ImportedBefore(k)' = ImportedBefore(k)
    BY <1>2, <1>3, SameCounts
  <1>9. BeforeIsExact'
    BY <1>2, <1>3, <1>4, <1>5, <1>8 DEF CountInv, BeforeIsExact, Walks
  <1> QED
    BY <1>6, <1>7, <1>9 DEF CountInv

LEMMA AfterPageKeepsBefore ==
  ASSUME NEW l \in Local, NEW n \in Nat
  PROVE  LET m == AfterPage(l, n)
         IN  m.pc = "fetch" \/ m.then = "walk" => m.job = l.job /\ m.before = l.before
  <1> DEFINE counted == [l EXCEPT !.imported = @ + n, !.pages = @ + 1]
             moved == [counted EXCEPT !.page = @ + 1]
  <1>1. counted.job = l.job /\ counted.before = l.before /\ DOMAIN counted = DOMAIN l
    BY DEF Local
  <1>2. moved.job = l.job /\ moved.before = l.before /\ DOMAIN moved = DOMAIN l
    BY DEF Local
  <1>3. {"job", "before", "pc", "then"} \subseteq DOMAIN l
    BY DEF Local
  <1>4. AfterPage(l, n) = IF l.page = Pages THEN Checkpoint(counted, "done")
                          ELSE IF l.page % SegmentPages = 0 THEN Checkpoint(moved, "walk")
                          ELSE moved
    BY DEF AfterPage
  <1> HIDE DEF counted, moved
  <1>5. Checkpoint(counted, "done").pc = "read" /\ Checkpoint(counted, "done").then = "done"
    BY DEF Checkpoint, Idle
  <1>6. Checkpoint(moved, "walk").job = l.job /\ Checkpoint(moved, "walk").before = l.before
    BY <1>2, <1>3 DEF Checkpoint
  <1> QED
    BY <1>2, <1>4, <1>5, <1>6

(* A recorded page.  The process holds the lease, so no other import of    *)
(* the user is active and the sum it remembers is still the sum.           *)
LEMMA PageCounts ==
  ASSUME TypeOK, JobInHand, HistoryInv, CountInv, NEW w \in Workers, PageRecorded(w)
  PROVE  CountInv'
  <1> DEFINE j == wk[w].job
             l == wk[w]
             u == UserOf[j]
             fresh == Fresh(w)
             n == Cardinality(fresh)
             m == AfterPage(l, n)
             r == [row[j] EXCEPT !.page = NextPage(l.page),
                              !.imported = row[j].imported + n,
                              !.pending = Hull(row[j].pending \cup {TimeOf[p] : p \in fresh}),
                              !.attempts = 0, !.leased = TRUE]
  <1>1. l \in Local /\ j \in Jobs /\ row[j] \in Row /\ l.pc = "fetch" /\ n \in Nat
    BY FreshType DEF PageRecorded, Walking, TypeOK, JobInHand, Sound
  <1>2. row[j].token = w /\ row[j].status = "running" /\ ~Full(w) /\ RecordPage(w)
    BY DEF PageRecorded, Holds
  <1>3. row[j].imported = l.imported
    BY <1>1, <1>2 DEF HistoryInv, HolderInStep, Walks
  <1>4. r.imported = row[j].imported + n /\ r.token = w /\ r.status = "running"
    BY <1>1, <1>2 DEF Row
  <1>5. \A k \in Jobs : row'[k] = IF k = j THEN r ELSE row[k]
    BY <1>1, <1>2 DEF TypeOK, RecordPage
  <1>6. \A v \in Workers : wk'[v] = IF v = w THEN m ELSE wk[v]
    BY <1>2 DEF TypeOK, RecordPage
  <1>7. m.pc = "fetch" \/ m.then = "walk" => m.job = j /\ m.before = l.before
    BY <1>1, AfterPageKeepsBefore
  <1>8. u \in Users /\ UserOf \in [Jobs -> Users]
    BY <1>1, ActorsAssumption
  <1>9. \A v \in Users, p \in Plays :
          store'[v][p] = IF v = u /\ p \in fresh THEN j ELSE store[v][p]
    BY <1>1, <1>2, <1>8 DEF TypeOK, RecordPage
  <1>10. /\ fresh \in SUBSET Plays /\ IsFiniteSet(fresh)
         /\ \A p \in fresh : store[u][p] = Absent /\ PageOf[p] = l.page
    <2>1. fresh \in SUBSET Plays /\ \A p \in fresh : store[u][p] = Absent /\ PageOf[p] = l.page
      BY DEF Fresh
    <2> QED
      BY <2>1, HistoryAssumption, FS_Subset
  <1>11. Absent \notin Jobs
    BY ActorsAssumption
  <1> HIDE DEF fresh, m, r
  <1>12. StoredByOwnImport'
    BY <1>1, <1>9 DEF CountInv, StoredByOwnImport
  <1>13. Counted'
    <2> SUFFICES ASSUME NEW k \in Jobs
                 PROVE  row'[k].imported = Cardinality({p \in Plays : store'[UserOf[k]][p] = k})
      BY DEF Counted
    <2>1. row[k].imported = Cardinality(StoredBy(UserOf[k], k))
      BY DEF CountInv, Counted, StoredBy
    <2>2. CASE k # j
      <3>1. {p \in Plays : store'[UserOf[k]][p] = k} = StoredBy(UserOf[k], k)
        BY <1>8, <1>9, <1>10, <1>11, <2>2 DEF StoredBy
      <3> QED
        BY <1>5, <2>1, <2>2, <3>1
    <2>3. CASE k = j
      <3> DEFINE old == StoredBy(u, j)
      <3>1. {p \in Plays : store'[u][p] = j} = old \cup fresh /\ old \cap fresh = {}
        BY <1>1, <1>8, <1>9, <1>10, <1>11 DEF StoredBy
      <3>2. IsFiniteSet(old) /\ Cardinality(old) \in Nat
        BY StoredByFinite, FS_CardinalityType
      <3>3. Cardinality(old \cup fresh) = Cardinality(old) + n - Cardinality(old \cap fresh)
        BY <1>10, <3>2, FS_Union
      <3>4. Cardinality(old \cap fresh) = 0
        BY <3>1, FS_EmptySet
      <3> HIDE DEF old
      <3>5. Cardinality(old \cup fresh) = Cardinality(old) + n
        BY <1>1, <3>2, <3>3, <3>4
      <3> QED
        BY <1>4, <1>5, <2>1, <2>3, <3>1, <3>5 DEF old
    <2> QED
      BY <2>2, <2>3
  <1>14. OneActiveImport'
    BY <1>2, <1>5 DEF CountInv, OneActiveImport, IsActive, Active
  <1>15. \A k \in Jobs : k = j \/ UserOf[k] # u => ImportedBefore(k)' = ImportedBefore(k)
    <2> SUFFICES ASSUME NEW k \in Jobs, k = j \/ UserOf[k] # u
                 PROVE  ImportedBefore(k)' = ImportedBefore(k)
      OBVIOUS
    <2>1. {on \in Jobs \X (1..Cardinality(Plays)) :
              /\ on[1] # k
              /\ UserOf[on[1]] = UserOf[k]
              /\ on[2] <= row'[on[1]].imported} = OtherCounts(k)
      BY <1>5 DEF OtherCounts
    <2> QED
      BY <2>1 DEF ImportedBefore, OtherCounts
  <1>16. BeforeIsExact'
    <2> SUFFICES ASSUME NEW v \in Workers, NEW k \in Jobs,
                        wk'[v].job = k, row'[k].token = v, Walks(v)'
                 PROVE  wk'[v].before = ImportedBefore(k)'
      BY DEF BeforeIsExact
    <2>1. CASE v = w
      <3>1. k = j /\ wk'[v].before = l.before
        BY <1>6, <1>7, <2>1 DEF Walks
      <3>2. l.before = ImportedBefore(j)
        BY <1>1, <1>2 DEF CountInv, BeforeIsExact, Walks
      <3> QED
        BY <1>15, <3>1, <3>2
    <2>2. CASE v # w
      <3>1. k # j /\ wk'[v] = wk[v] /\ row'[k] = row[k]
        BY <1>4, <1>5, <1>6, <2>2
      <3>2. row[k].status = "running" /\ wk[v].before = ImportedBefore(k)
        BY <3>1 DEF HistoryInv, HolderInStep, CountInv, BeforeIsExact, Walks
      <3>3. UserOf[k] # u
        BY <1>1, <1>2, <3>1, <3>2 DEF CountInv, OneActiveImport, IsActive, Active
      <3> QED
        BY <1>15, <3>1, <3>2, <3>3
    <2> QED
      BY <2>1, <2>2
  <1>17. CapHolds'
    <2> SUFFICES ASSUME NEW v \in Users, ImportedPlays(v)' # {}
                 PROVE  \E k \in 1..Pages :
                          Cardinality(ImportedPlays(v)') < MaxScrobbles + PageSize(k)
      BY DEF CapHolds, PageSize
    <2>1. CASE v # u
      <3>1. ImportedPlays(v)' = ImportedPlays(v)
        BY <1>9, <2>1 DEF ImportedPlays
      <3> QED
        BY <3>1 DEF CountInv, CapHolds
    <2>2. CASE v = u
      <3> DEFINE old == ImportedPlays(u)
                 page == {p \in Plays : PageOf[p] = l.page}
      <3>1. ImportedPlays(v)' = old \cup fresh
        BY <1>1, <1>8, <1>9, <1>10, <2>2 DEF ImportedPlays
      <3>2. old \in SUBSET Plays /\ page \in SUBSET Plays /\ fresh \in SUBSET page
        BY <1>10 DEF ImportedPlays
      <3>3. IsFiniteSet(old) /\ IsFiniteSet(page)
        BY <3>2, HistoryAssumption, FS_Subset
      <3>4. n <= Cardinality(page)
        BY <3>2, <3>3, FS_Subset
      <3>5. /\ Cardinality(old) \in Nat /\ Cardinality(page) \in Nat
            /\ Cardinality(old \cap fresh) \in Nat
        <4>1. IsFiniteSet(old \cap fresh)
          BY <3>3, FS_Subset
        <4> QED
          BY <3>3, <4>1, FS_CardinalityType
      <3>6. Cardinality(old \cup fresh) = Cardinality(old) + n - Cardinality(old \cap fresh)
        BY <1>10, <3>3, FS_Union
      <3>7. Cardinality(old) = ImportedBefore(j) + row[j].imported
        BY <1>1, CountsAddUp DEF CountInv
      <3>8. l.before = ImportedBefore(j)
        BY <1>1, <1>2 DEF CountInv, BeforeIsExact, Walks
      <3>9. l.before + l.imported < MaxScrobbles /\ MaxScrobbles \in Nat
        BY <1>1, <1>2, ConstantsAssumption DEF Full, Local
      <3>10. Cardinality(old) < MaxScrobbles
        BY <1>3, <3>7, <3>8, <3>9
      <3>11. PageSize(l.page) = Cardinality(page) /\ l.page \in 1..Pages
        BY <1>1 DEF PageSize, Local
      <3> HIDE DEF old, page, n
      <3>12. Cardinality(old \cup fresh) < MaxScrobbles + Cardinality(page)
        BY <1>1, <3>4, <3>5, <3>6, <3>9, <3>10
      <3>13. Cardinality(ImportedPlays(v)') < MaxScrobbles + PageSize(l.page)
        BY <3>1, <3>11, <3>12
      <3> QED
        BY <3>11, <3>13
    <2> QED
      BY <2>1, <2>2
  <1> QED
    BY <1>12, <1>13, <1>14, <1>16, <1>17 DEF CountInv
-----------------------------------------------------------------------------
(* Every other step is quiet: it writes one row without counting and moves *)
(* one process without teaching it anything.                               *)
QuietRow(r, old) == /\ r.imported = old.imported
                    /\ r.status \in Active => old.status \in Active
                    /\ r.token \in Workers => r.token = old.token

LEMMA QuietWriter ==
  ASSUME TypeOK, NEW w \in Workers, NEW m, KeepsCounts(m, wk[w]), wk' = [wk EXCEPT ![w] = m],
         UNCHANGED store,
         \/ UNCHANGED row
         \/ \E j \in Jobs : \E r : QuietRow(r, row[j]) /\ row' = [row EXCEPT ![j] = r]
  PROVE  Quiet
  <1>1. \A v \in Workers : wk'[v] = IF v = w THEN m ELSE wk[v]
    BY DEF TypeOK
  <1>2. \A v \in Workers : KeepsCounts(wk'[v], wk[v])
    BY <1>1 DEF KeepsCounts
  <1>3. \A j \in Jobs : QuietRow(row'[j], row[j])
    <2>1. CASE UNCHANGED row
      BY <2>1 DEF QuietRow
    <2>2. ASSUME NEW j \in Jobs, NEW r, QuietRow(r, row[j]), row' = [row EXCEPT ![j] = r]
          PROVE  \A k \in Jobs : QuietRow(row'[k], row[k])
      <3>1. \A k \in Jobs : row'[k] = IF k = j THEN r ELSE row[k]
        BY <2>2 DEF TypeOK
      <3> QED
        BY <2>2, <3>1 DEF QuietRow
    <2> QED
      BY <2>1, <2>2
  <1> QED
    BY <1>2, <1>3 DEF Quiet, QuietRow

LEMMA QuietReader ==
  ASSUME TypeOK, NEW j \in Jobs, NEW r, QuietRow(r, row[j]), row' = [row EXCEPT ![j] = r],
         UNCHANGED <<wk, store>>
  PROVE  Quiet
  <1>1. \A k \in Jobs : row'[k] = IF k = j THEN r ELSE row[k]
    BY DEF TypeOK
  <1> QED
    BY <1>1 DEF Quiet, QuietRow, KeepsCounts

LEMMA CheckpointKeepsCounts ==
  ASSUME NEW l, NEW a, NEW i, i # "walk"
  PROVE  KeepsCounts(Checkpoint(a, i), l)
  BY DEF KeepsCounts, Checkpoint, Idle

LEMMA AfterCheckpointKeepsCounts ==
  ASSUME NEW l \in Local, l.pc # "fetch"
  PROVE  KeepsCounts(AfterCheckpoint(l), l)
  BY DEF KeepsCounts, AfterCheckpoint, Idle, Local

LEMMA UnleaseQuiet ==
  ASSUME NEW r \in Row, NEW old, r.imported = old.imported,
         r.status \in Active => old.status \in Active
  PROVE  QuietRow(Unlease(r), old)
  BY ActorsAssumption DEF QuietRow, Unlease, Row

LEMMA WorkQuiet ==
  ASSUME TypeOK, JobInHand, NEW w \in Workers, Work(w), ~PageRecorded(w)
  PROVE  Quiet
  <1> DEFINE j == wk[w].job
             l == wk[w]
  <1>l. l \in Local /\ Sound(l)
    BY DEF TypeOK, JobInHand
  <1>busy. l.pc \notin {"idle", "leftovers"} => j \in Jobs /\ row[j] \in Row
    BY <1>l DEF Sound, TypeOK
  <1>idle. KeepsCounts(Idle, l)
    BY DEF KeepsCounts, Idle
  <1>ac. l.pc # "fetch" => KeepsCounts(AfterCheckpoint(l), l)
    BY <1>l, AfterCheckpointKeepsCounts
  <1>1. CASE LovesRecorded(w)
    <2>1. j \in Jobs /\ row[j] \in Row /\ l.pc = "fetch" /\ UNCHANGED store
      BY <1>1, <1>busy DEF LovesRecorded, InLoves
    <2>2. PICK over \in BOOLEAN :
            /\ row' = [row EXCEPT ![j] = [row[j] EXCEPT !.lovedPage = l.lovedPage + 1,
                                             !.lovedDone = over, !.attempts = 0, !.leased = TRUE]]
            /\ wk' = [wk EXCEPT ![w] = [l EXCEPT !.lovedPage = l.lovedPage + 1,
                                             !.lovedDone = over, !.pages = l.pages + 1]]
      BY <1>1 DEF LovesRecorded
    <2> DEFINE next == l.lovedPage + 1
               more == l.pages + 1
               r == [row[j] EXCEPT !.lovedPage = next,
                                   !.lovedDone = over, !.attempts = 0, !.leased = TRUE]
               m == [l EXCEPT !.lovedPage = next, !.lovedDone = over, !.pages = more]
    <2>3. row' = [row EXCEPT ![j] = r] /\ wk' = [wk EXCEPT ![w] = m]
      BY <2>2
    <2> HIDE DEF next, more
    <2>4. QuietRow(r, row[j])
      BY <2>1 DEF QuietRow, Row
    <2>5. KeepsCounts(m, l)
      BY <1>l, <2>1 DEF KeepsCounts, Local
    <2> HIDE DEF r, m
    <2> QED
      BY <2>1, <2>3, <2>4, <2>5, QuietWriter
  <1>2. CASE LovesSkipped(w)
    <2>1. j \in Jobs /\ row[j] \in Row /\ l.pc = "fetch" /\ UNCHANGED store
      BY <1>2, <1>busy DEF LovesSkipped, InLoves
    <2> DEFINE m == [l EXCEPT !.lovedDone = TRUE]
               r == [row[j] EXCEPT !.lovedDone = TRUE]
    <2>2. QuietRow(r, row[j])
      BY <2>1 DEF QuietRow, Row
    <2>3. KeepsCounts(m, l)
      BY <1>l, <2>1 DEF KeepsCounts, Local
    <2>4. wk' = [wk EXCEPT ![w] = m] /\ (row' = [row EXCEPT ![j] = r] \/ UNCHANGED row)
      BY <1>2 DEF LovesSkipped
    <2> HIDE DEF m, r
    <2> QED
      BY <2>1, <2>2, <2>3, <2>4, QuietWriter
  <1>3. CASE LovesLost(w)
    BY <1>3, <1>idle, QuietWriter DEF LovesLost
  <1>4. CASE \/ SliceOver(w) \/ CapReached(w) \/ PageLost(w) \/ Refused(w)
             \/ RateLimited(w) \/ Transient(w)
    <2>1. \E a, i : i # "walk" /\ wk' = [wk EXCEPT ![w] = Checkpoint(a, i)]
      BY <1>4 DEF SliceOver, CapReached, PageLost, Refused, RateLimited, Transient, DeferOrGiveUp
    <2>2. UNCHANGED <<row, store>>
      BY <1>4 DEF SliceOver, CapReached, PageLost, Refused, RateLimited, Transient
    <2> QED
      BY <2>1, <2>2, CheckpointKeepsCounts, QuietWriter
  <1>5. CASE ReadPending(w)
    <2>1. l.pc = "read" /\ UNCHANGED <<row, store>>
      BY <1>5 DEF ReadPending
    <2> DEFINE m == [l EXCEPT !.pc = "classify", !.range = row[j].pending]
    <2>2. KeepsCounts(m, l)
      BY <1>l DEF KeepsCounts, Local
    <2>3. wk' = [wk EXCEPT ![w] = AfterCheckpoint(l)] \/ wk' = [wk EXCEPT ![w] = m]
      BY <1>5 DEF ReadPending
    <2> HIDE DEF m
    <2> QED
      BY <2>1, <2>2, <2>3, <1>ac, QuietWriter
  <1>6. CASE QueueClassification(w) \/ QueueEnrichment(w)
    <2>1. PICK pc \in {"enrich", "clear"} : wk' = [wk EXCEPT ![w].pc = pc]
      BY <1>6 DEF QueueClassification, QueueEnrichment
    <2> DEFINE m == [l EXCEPT !.pc = pc]
    <2>2. KeepsCounts(m, l)
      BY <1>l DEF KeepsCounts, Local
    <2>3. wk' = [wk EXCEPT ![w] = m] /\ UNCHANGED <<row, store>>
      BY <1>6, <2>1 DEF QueueClassification, QueueEnrichment
    <2> HIDE DEF m
    <2> QED
      BY <2>2, <2>3, QuietWriter
  <1>7. CASE ClearPending(w)
    <2>1. j \in Jobs /\ row[j] \in Row /\ l.pc = "clear" /\ UNCHANGED store
      BY <1>7, <1>busy DEF ClearPending
    <2> DEFINE r == [row[j] EXCEPT !.pending = {}]
    <2>2. QuietRow(r, row[j])
      BY <2>1 DEF QuietRow, Row
    <2>3. /\ wk' = [wk EXCEPT ![w] = AfterCheckpoint(l)]
          /\ row' = [row EXCEPT ![j] = r] \/ UNCHANGED row
      BY <1>7 DEF ClearPending
    <2> HIDE DEF r
    <2> QED
      BY <2>1, <2>2, <2>3, <1>ac, QuietWriter
  <1>8. CASE Finish(w) \/ Fail(w) \/ Defer(w) \/ Release(w)
    <2>1. /\ j \in Jobs /\ row[j] \in Row
          /\ wk' = [wk EXCEPT ![w] = Idle] /\ UNCHANGED store
      BY <1>8, <1>busy DEF Finish, Fail, Defer, Release, Settle
    <2>2. \/ UNCHANGED row
          \/ \E r \in Row : /\ r.imported = row[j].imported
                            /\ r.status \in Active => row[j].status \in Active
                            /\ row' = [row EXCEPT ![j] = Unlease(r)]
      <3>1. CASE Finish(w)
        <4> DEFINE r == [row[j] EXCEPT !.status = "done", !.code = "none"]
        <4>1. r \in Row /\ r.imported = row[j].imported /\ r.status \notin Active
          BY <2>1 DEF Row, Ended, Active
        <4>2. row' = [row EXCEPT ![j] = Unlease(r)] \/ UNCHANGED row
          BY <3>1 DEF Finish, Settle
        <4> QED
          BY <4>1, <4>2
      <3>2. CASE Fail(w)
        <4> DEFINE r == [row[j] EXCEPT !.status = "failed", !.code = l.then]
        <4>1. r \in Row /\ r.imported = row[j].imported /\ r.status \notin Active
          BY <2>1, <3>2 DEF Row, Ended, Active, Fail
        <4>2. row' = [row EXCEPT ![j] = Unlease(r)] \/ UNCHANGED row
          BY <3>2 DEF Fail, Settle
        <4> QED
          BY <4>1, <4>2
      <3>3. CASE Defer(w)
        <4> DEFINE r == [row[j] EXCEPT !.attempts = l.attempts, !.due = FALSE]
        <4>1. r \in Row /\ r.imported = row[j].imported /\ r.status = row[j].status
          BY <1>l, <2>1 DEF Row, Local
        <4>2. row' = [row EXCEPT ![j] = Unlease(r)] \/ UNCHANGED row
          BY <3>3 DEF Defer, Settle
        <4> QED
          BY <4>1, <4>2
      <3>4. CASE Release(w)
        BY <2>1, <3>4 DEF Release, Settle
      <3> QED
        BY <1>8, <3>1, <3>2, <3>3, <3>4
    <2> QED
      BY <2>1, <2>2, <1>idle, UnleaseQuiet, QuietWriter
  <1> QED
    BY <1>1, <1>2, <1>3, <1>4, <1>5, <1>6, <1>7, <1>8 DEF Work

LEMMA CountStep ==
  ASSUME TypeOK, JobInHand, HistoryInv, CountInv, [Next]_vars
  PROVE  CountInv'
  <1>r. \A j \in Jobs : row[j] \in Row
    BY DEF TypeOK
  <1>idle. \A l : KeepsCounts(Idle, l)
    BY DEF KeepsCounts, Idle
  <1>1. ASSUME NEW j \in Jobs, Create(j) PROVE CountInv'
    BY <1>1, CreateStep
  <1>2. ASSUME NEW j \in Jobs, Cancel(j) PROVE CountInv'
    <2> DEFINE u == Unlease(row[j])
               r == [u EXCEPT !.status = "cancelled"]
    <2>1. u \in Row /\ u.imported = row[j].imported /\ u.token = NoWorker
      BY <1>r DEF Row, Unlease
    <2>2. row' = [row EXCEPT ![j] = r] /\ UNCHANGED <<wk, store>>
      BY <1>2 DEF Cancel
    <2> HIDE DEF u
    <2>3. QuietRow(r, row[j])
      BY <2>1, ActorsAssumption DEF QuietRow, Row, Active
    <2> HIDE DEF r
    <2> QED
      BY <2>2, <2>3, QuietReader, QuietStep
  <1>3. ASSUME NEW j \in Jobs, BecomesDue(j) \/ LeaseExpires(j) \/ LeaseOutrun(j)
        PROVE  CountInv'
    <2>1. PICK r \in {[row[j] EXCEPT !.due = TRUE], [row[j] EXCEPT !.leased = FALSE]} :
             row' = [row EXCEPT ![j] = r]
      BY <1>3 DEF BecomesDue, LeaseExpires, LeaseOutrun
    <2>2. QuietRow(r, row[j])
      BY <1>r DEF QuietRow, Row
    <2>3. UNCHANGED <<wk, store>>
      BY <1>3 DEF BecomesDue, LeaseExpires, LeaseOutrun
    <2> QED
      BY <2>1, <2>2, <2>3, QuietReader, QuietStep
  <1>4. ASSUME NEW w \in Workers, ClaimNext(w) \/ Claim(w) PROVE CountInv'
    BY <1>4, LeaseCounts DEF ClaimNext, Claim, Claimable
  <1>5. ASSUME NEW w \in Workers, ReadLeftovers(w) PROVE CountInv'
    <2> DEFINE m == [Idle EXCEPT !.pc = "leftovers", !.todo = Leftover]
    <2>1. KeepsCounts(m, wk[w])
      BY DEF KeepsCounts, Idle
    <2>2. wk' = [wk EXCEPT ![w] = Idle] \/ wk' = [wk EXCEPT ![w] = m]
      BY <1>5 DEF ReadLeftovers
    <2> HIDE DEF m
    <2> QED
      BY <1>5, <1>idle, <2>1, <2>2, QuietWriter, QuietStep DEF ReadLeftovers
  <1>6. ASSUME NEW w \in Workers, NextLeftover(w) PROVE CountInv'
    <2>1. \/ wk' = [wk EXCEPT ![w] = Idle]
          \/ \E a : wk' = [wk EXCEPT ![w] = Checkpoint(a, "leftovers")]
      BY <1>6 DEF NextLeftover
    <2>2. UNCHANGED <<row, store>>
      BY <1>6 DEF NextLeftover
    <2>3. \A a : KeepsCounts(Checkpoint(a, "leftovers"), wk[w])
      BY CheckpointKeepsCounts
    <2>4. Quiet
      BY <1>idle, <2>1, <2>2, <2>3, QuietWriter
    <2> QED
      BY <2>4, QuietStep
  <1>7. ASSUME NEW w \in Workers, Crash(w) PROVE CountInv'
    BY <1>7, <1>idle, QuietWriter, QuietStep DEF Crash
  <1>8. ASSUME NEW w \in Workers, CheckpointError(w) PROVE CountInv'
    <2>1. wk[w] \in Local /\ wk[w].pc # "fetch"
      BY <1>8 DEF TypeOK, CheckpointError
    <2> QED
      BY <1>8, <2>1, AfterCheckpointKeepsCounts, QuietWriter, QuietStep DEF CheckpointError
  <1>9. ASSUME NEW w \in Clis, Interrupt(w) PROVE CountInv'
    <2>1. w \in Workers /\ wk' = [wk EXCEPT ![w] = Idle] /\ UNCHANGED store
      BY <1>9 DEF Interrupt, Workers
    <2>2. \/ UNCHANGED row
          \/ wk[w].job \in Jobs /\ row' = [row EXCEPT ![wk[w].job] = Unlease(row[wk[w].job])]
      BY <1>9 DEF Interrupt, TypeOK
    <2>3. KeepsCounts(Idle, wk[w])
      BY <1>idle
    <2>4. \A j \in Jobs : QuietRow(Unlease(row[j]), row[j])
      BY <1>r, UnleaseQuiet
    <2>5. Quiet
      BY <2>1, <2>2, <2>3, <2>4, QuietWriter
    <2> QED
      BY <2>5, QuietStep
  <1>10. ASSUME NEW w \in Workers, Work(w) PROVE CountInv'
    BY <1>10, PageCounts, WorkQuiet, QuietStep
  <1>11. CASE UNCHANGED vars
    <2>1. Quiet
      BY <1>11 DEF vars, Quiet, KeepsCounts
    <2> QED
      BY <2>1, QuietStep
  <1> QED
    BY <1>1, <1>2, <1>3, <1>4, <1>5, <1>6, <1>7, <1>8, <1>9, <1>10, <1>11
    DEF Next, DaemonStep, Workers

LEMMA InitCounts == Init => CountInv
  <1> SUFFICES ASSUME Init PROVE CountInv
    OBVIOUS
  <1>1. \A j \in Jobs : row[j] = NewRow
    BY DEF Init
  <1>2. \A w \in Workers : wk[w] = Idle
    BY DEF Init
  <1>3. \A u \in Users, p \in Plays : store[u][p] \notin Jobs
    BY ActorsAssumption DEF Init
  <1>4. OneActiveImport /\ BeforeIsExact
    BY <1>1, <1>2, ActorsAssumption
    DEF OneActiveImport, IsActive, Active, BeforeIsExact, Walks, Idle, NewRow
  <1>5. StoredByOwnImport /\ CapHolds
    BY <1>3 DEF StoredByOwnImport, CapHolds, ImportedPlays
  <1>6. Counted
    <2> SUFFICES ASSUME NEW j \in Jobs
                 PROVE  row[j].imported = Cardinality({p \in Plays : store[UserOf[j]][p] = j})
      BY DEF Counted
    <2>1. {p \in Plays : store[UserOf[j]][p] = j} = {}
      BY <1>3, ActorsAssumption
    <2> QED
      BY <1>1, <2>1, FS_EmptySet DEF NewRow
  <1> QED
    BY <1>4, <1>5, <1>6 DEF CountInv

LEMMA CountInvariant == Spec => []CountInv
  <1>1. CountInv /\ HistoryInv /\ TypeOK /\ JobInHand /\ [Next]_vars => CountInv'
    BY CountStep
  <1> QED
    BY <1>1, InitCounts, TypeInvariant, HistoryInvariant, PTL DEF Spec

(* The counter of an import is the number of plays it stored, whoever      *)
(* recorded its pages and however often they were fetched.                 *)
THEOREM ImportsAreCounted == Spec => []Counted
  <1>1. CountInv => Counted
    BY DEF CountInv
  <1> QED
    BY <1>1, CountInvariant, PTL

(* All imports of an account together pass the cap by less than one page,  *)
(* although each compares it with a sum read when its lease began.         *)
THEOREM CapIsKept == Spec => []CapHolds
  <1>1. CountInv => CapHolds
    BY DEF CountInv
  <1> QED
    BY <1>1, CountInvariant, PTL
=============================================================================
