------------------------------ MODULE DayLabels ------------------------------
(***************************************************************************)
(* The labels and ranking weights of one user's days: ingest and imports   *)
(* store scrobbles and queue their day, the classifier labels queued days, *)
(* the weigher turns labels into weights, and two sweeps queue what the    *)
(* queues missed (db/src/queries/classification.rs, rankings.rs and        *)
(* scrobbles.rs; worker/src/classification and worker/src/rankings).       *)
(*                                                                         *)
(* One action is one statement or one short transaction; classify_user_day *)
(* and weigh_user_day are transactions of several statements, which read   *)
(* what is committed when each of them starts.  What the labels are is     *)
(* left out: a day's labels are the scrobbles they were computed from.     *)
(***************************************************************************)
EXTENDS Integers, FiniteSets

CONSTANTS
    Plays,         \* scrobbles that may ever be stored
    DayOf,         \* their UTC day
    Tail,          \* those within the classifier's window of their day's end
    Imported,      \* those an import stores; the others are ingested live
    Lengthless,    \* those whose track has no length until it is enriched
    LastDay,
    FirstRetained, \* retained_from: weights of earlier days are not kept
    RecentDays,    \* days mark_track_durations_changed reaches (30 of them)
    Rulesets,      \* 1..Rulesets: thresholds the worker may be deployed with
    Operators,     \* who may run `worker classification reclassify`
    MaxCommands,   \* bound: how often they do
    MaxFaults      \* bound: restarts, errors, marks that are lost

Days == 1..LastDay
Worker == "worker"                  \* its classification loop, one day at a time
Classifiers == Operators \cup {Worker}

ASSUME LabelsAssumption ==
    /\ IsFiniteSet(Plays) /\ LastDay \in Nat /\ Rulesets \in Nat \ {0}
    /\ MaxCommands \in Nat /\ MaxFaults \in Nat /\ FirstRetained \in Nat
    /\ DayOf \in [Plays -> Days] /\ Tail \subseteq Plays
    /\ Imported \subseteq Plays /\ Lengthless \subseteq Plays /\ RecentDays \subseteq Days
    /\ Worker \notin Operators

VARIABLES
    serial,    \* the last id the sequence of scrobbles gave
    ids,       \* play -> scrobbles.id, 0 before its insert
    stage,     \* play -> how far its ingest got
    measured,  \* play of Lengthless -> its track's length: none, set, told
    activity,  \* day -> plays user_activity_daily counts
    queue,     \* classification_queue
    labels,    \* day -> scrobble_classification_days and its flags
    rankQueue, \* ranking_queue
    weights,   \* day -> ranking_days
    cl,        \* classifier -> its claimed days and the transaction it is in
    wg,        \* the weigher's, alike
    ruleset,   \* the deployed thresholds
    commands,  \* bound: commands so far
    faults     \* bound

scrobbleVars == <<serial, ids, stage, measured, activity>>
labelVars == <<queue, labels, cl>>
weightVars == <<rankQueue, weights, wg>>
deployVars == <<ruleset, commands, faults>>
vars == <<scrobbleVars, labelVars, weightVars, deployVars>>

(* `seen` and `lookback` are the scrobbles of the day and of the previous  *)
(* day's tail it was made from, `noData` those without a length by then.   *)
NoLabels == [ruleset |-> 0, seen |-> {}, lookback |-> {}, noData |-> {}]
(* `fresh`: classified_at is that of the stored labels.                    *)
NoWeights == [ruleset |-> 0, labelled |-> {}, fresh |-> FALSE]
AtRest == [pc |-> "idle", todo |-> {}, day |-> 0, rows |-> {}, noData |-> {},
           wasQueued |-> FALSE, queuesNext |-> FALSE]
WeigherAtRest == [pc |-> "idle", todo |-> {}, day |-> 0, labels |-> NoLabels, fresh |-> FALSE]

Init ==
    /\ serial = 0
    /\ ids = [p \in Plays |-> 0]
    /\ stage = [p \in Plays |-> "new"]
    /\ measured = [p \in Lengthless |-> "none"]
    /\ activity = [d \in Days |-> {}]
    /\ queue = {} /\ rankQueue = {}
    /\ labels = [d \in Days |-> NoLabels]
    /\ weights = [d \in Days |-> NoWeights]
    /\ cl = [c \in Classifiers |-> AtRest]
    /\ wg = WeigherAtRest
    /\ ruleset = 1
    /\ commands = 0 /\ faults = 0

-----------------------------------------------------------------------------
Stored == {p \in Plays : stage[p] \in {"stored", "told"}}
On(d, S) == {p \in S : DayOf[p] = d}
TailOf(d, S) == On(d, S) \cap Tail
Labelled(d) == labels[d].ruleset # 0
Weighed(d) == weights[d].ruleset # 0
(* p's id is not above max_scrobble_id, the highest of the scrobbles seen. *)
UpToMaxId(p, seen) == \E q \in seen : ids[p] <= ids[q]
Lengths == {p \in Plays : p \notin Lengthless \/ measured[p] # "none"}

Fault == faults < MaxFaults /\ faults' = faults + 1

-----------------------------------------------------------------------------
(* Ingest.                                                                 *)
TakeId(p) ==
    /\ stage[p] = "new"
    /\ serial' = serial + 1
    /\ ids' = [ids EXCEPT ![p] = serial + 1]
    /\ stage' = [stage EXCEPT ![p] = "open"]
    /\ UNCHANGED <<measured, activity, labelVars, weightVars, deployVars>>

(* Variant: ingest without the user's advisory lock.                       *)
IngestUnlocked(p) == p \notin Imported /\ TakeId(p)

(* ingest_scrobble: one transaction per user at a time.                    *)
Ingest(p) ==
    /\ p \notin Imported
    /\ \A q \in Plays \ Imported : stage[q] # "open"
    /\ TakeId(p)

(* record_page inserts without that lock.                                  *)
Import(p) == p \in Imported /\ TakeId(p)

Commit(p) ==
    /\ stage[p] = "open"
    /\ stage' = [stage EXCEPT ![p] = "stored"]
    /\ UNCHANGED <<serial, ids, measured, activity, labelVars, weightVars, deployVars>>

(* mark_scrobble_dirty, or the import's enqueue_scrobble_classification.   *)
MarkDirty(p) ==
    /\ stage[p] = "stored"
    /\ stage' = [stage EXCEPT ![p] = "told"]
    /\ queue' = queue \cup {DayOf[p]}
    /\ UNCHANGED <<serial, ids, measured, activity, labels, cl, weightVars, deployVars>>

(* The mark is best-effort; an import repeats its own.                     *)
MarkLost(p) ==
    /\ stage[p] = "stored" /\ p \notin Imported
    /\ Fault
    /\ stage' = [stage EXCEPT ![p] = "told"]
    /\ UNCHANGED <<serial, ids, measured, activity, labelVars, weightVars, ruleset, commands>>

(* Enrichment, queued by the ingest, sets a track's length ...             *)
LengthSet(p) ==
    /\ p \in Lengthless /\ measured[p] = "none" /\ stage[p] # "new"
    /\ measured' = [measured EXCEPT ![p] = "set"]
    /\ UNCHANGED <<serial, ids, stage, activity, labelVars, weightVars, deployVars>>

(* ... and then queues its recent days, or fails to.                       *)
LengthTold(p) ==
    /\ p \in Lengthless /\ measured[p] = "set"
    /\ measured' = [measured EXCEPT ![p] = "told"]
    /\ \/ queue' = queue \cup ({DayOf[p]} \cap {d \in RecentDays : p \in Stored})
       \/ UNCHANGED queue
    /\ UNCHANGED <<serial, ids, stage, activity, labels, cl, weightVars, deployVars>>

(* The aggregate's refresh policy, or the import's own refresh.            *)
RefreshActivity(d) ==
    /\ activity[d] # On(d, Stored)
    /\ activity' = [activity EXCEPT ![d] = On(d, Stored)]
    /\ UNCHANGED <<serial, ids, stage, measured, labelVars, weightVars, deployVars>>

-----------------------------------------------------------------------------
(* classify_user_day and weigh_user_day hold the day's advisory lock.      *)
Locked(d) ==
    \/ \E c \in Classifiers : cl[c].pc # "idle" /\ cl[c].day = d
    \/ wg.pc # "idle" /\ wg.day = d

(* claim_due: the removal commits before anything is classified.           *)
ClaimDays ==
    /\ cl[Worker].pc = "idle" /\ cl[Worker].todo = {}
    /\ \E due \in SUBSET queue \ {{}} :
        /\ queue' = queue \ due
        /\ cl' = [cl EXCEPT ![Worker].todo = due]
    /\ UNCHANGED <<scrobbleVars, labels, weightVars, deployVars>>

(* The operator's command: the days in its range that have scrobbles or    *)
(* labels (list_days), not by way of the queue.                            *)
Reclassify(c) ==
    /\ cl[c].pc = "idle" /\ cl[c].todo = {}
    /\ commands < MaxCommands /\ commands' = commands + 1
    /\ \E range \in SUBSET {d \in Days : activity[d] # {} \/ Labelled(d)} \ {{}} :
        cl' = [cl EXCEPT ![c].todo = range]
    /\ UNCHANGED <<scrobbleVars, queue, labels, weightVars, ruleset, faults>>

(* Lock the day, read its scrobbles and the previous day's tail.           *)
ReadDay(c) ==
    /\ cl[c].pc = "idle"
    /\ \E d \in cl[c].todo :
        /\ ~Locked(d)
        /\ cl' = [cl EXCEPT ![c].pc = "read",
                            ![c].todo = @ \ {d},
                            ![c].day = d,
                            ![c].rows = On(d, Stored) \cup TailOf(d - 1, Stored),
                            ![c].noData = On(d, Stored) \ Lengths]
    /\ UNCHANGED <<scrobbleVars, queue, labels, weightVars, deployVars>>

(* Variant: the day's own lookback is compared.                            *)
TailComparedWithOwn(d, rows) ==
    Labelled(d) /\ Cardinality(labels[d].lookback) # Cardinality(TailOf(d - 1, rows))

(* Whether the next day was made from another tail than this one has now.  *)
TailMoved(d, rows) ==
    /\ d + 1 \in Days
    /\ labels[d + 1].ruleset = ruleset
    /\ Cardinality(labels[d + 1].lookback) # Cardinality(TailOf(d, rows))

(* enqueue_day and, if the next day's lookback is another, its queue entry *)
(* (ON CONFLICT DO NOTHING, each: other transactions see the insert once   *)
(* this one commits, and none is made for a day that is queued now, though *)
(* that entry may be claimed before the commit); and write_day.            *)
WriteDay(c) ==
    /\ cl[c].pc = "read"
    /\ cl' = [cl EXCEPT ![c].pc = "written",
                        ![c].wasQueued = cl[c].day \in rankQueue,
                        ![c].queuesNext = /\ TailMoved(cl[c].day, cl[c].rows)
                                          /\ cl[c].day + 1 \notin queue]
    /\ UNCHANGED <<scrobbleVars, queue, labels, weightVars, deployVars>>

(* Variant: the rows read from the day before are labelled with the day.   *)
DayRowWithTail(c) == [ruleset |-> ruleset, seen |-> cl[c].rows, lookback |-> {},
                      noData |-> cl[c].noData]

DayRow(c) ==
    LET own == On(cl[c].day, cl[c].rows)
    IN  IF own = {} THEN NoLabels
        ELSE [ruleset |-> ruleset, seen |-> own, lookback |-> cl[c].rows \ own,
              noData |-> cl[c].noData]

(* Variant: the day leaves the queue when it is classified.                *)
QueueAndRemove(c) == IF cl[c].queuesNext THEN queue \cup {cl[c].day + 1} ELSE queue \ {cl[c].day}

QueueNext(c) == IF cl[c].queuesNext THEN queue \cup {cl[c].day + 1} ELSE queue

(* The day's row and flags, both queue entries, and the lock go at once.   *)
CommitDay(c) ==
    LET d == cl[c].day
    IN  /\ cl[c].pc = "written"
        /\ labels' = [labels EXCEPT ![d] = DayRow(c)]
        /\ weights' = [weights EXCEPT ![d].fresh = FALSE]
        /\ wg' = IF wg.day = d THEN [wg EXCEPT !.fresh = FALSE] ELSE wg
        /\ rankQueue' = IF cl[c].wasQueued THEN rankQueue ELSE rankQueue \cup {d}
        /\ queue' = QueueNext(c)
        /\ cl' = [cl EXCEPT ![c] = [AtRest EXCEPT !.todo = cl[c].todo]]
        /\ UNCHANGED <<scrobbleVars, deployVars>>

(* A failed day is rolled back and queued again by the worker; the command *)
(* stops at the first failure.                                             *)
ClassifyFails(c) ==
    /\ cl[c].pc # "idle"
    /\ Fault
    /\ \/ /\ c = Worker
          /\ queue' = queue \cup {cl[c].day}
          /\ cl' = [cl EXCEPT ![c] = [AtRest EXCEPT !.todo = cl[c].todo]]
       \/ /\ c # Worker
          /\ cl' = [cl EXCEPT ![c] = AtRest]
          /\ UNCHANGED queue
    /\ UNCHANGED <<scrobbleVars, labels, weightVars, ruleset, commands>>

(* Variant: a sweep that takes every day with labels for up to date.       *)
StaleIfUnlabelled == {d \in Days : activity[d] # {} /\ ~Labelled(d)}

(* enqueue_stale: missing, of other thresholds, of another number of       *)
(* scrobbles, of no scrobbles any more, or waiting for a length that came. *)
Stale ==
    {d \in Days :
        \/ (activity[d] # {}) # Labelled(d)
        \/ Labelled(d) /\ labels[d].ruleset # ruleset
        \/ Labelled(d) /\ Cardinality(labels[d].seen) # Cardinality(activity[d])
        \/ labels[d].noData \cap Lengths # {}}

Sweep ==
    /\ ~(Stale \subseteq queue)
    /\ queue' = queue \cup Stale
    /\ UNCHANGED <<scrobbleVars, labels, cl, weightVars, deployVars>>

-----------------------------------------------------------------------------
(* rankings.rs: claim_due.                                                 *)
ClaimWeighing ==
    /\ wg.pc = "idle" /\ wg.todo = {}
    /\ \E due \in SUBSET rankQueue \ {{}} :
        /\ rankQueue' = rankQueue \ due
        /\ wg' = [wg EXCEPT !.todo = due]
    /\ UNCHANGED <<scrobbleVars, labelVars, weights, deployVars>>

(* Variant: weighing without classification's lock.                        *)
ReadLabelsUnlocked ==
    /\ wg.pc = "idle"
    /\ \E d \in wg.todo :
        wg' = [pc |-> "weighing", todo |-> wg.todo \ {d}, day |-> d,
               labels |-> labels[d], fresh |-> TRUE]
    /\ UNCHANGED <<scrobbleVars, labelVars, rankQueue, weights, deployVars>>

(* weigh_user_day: lock the day, read what its classification says ...     *)
ReadLabels ==
    /\ wg.pc = "idle"
    /\ \E d \in wg.todo :
        /\ ~Locked(d)
        /\ wg' = [pc |-> "weighing", todo |-> wg.todo \ {d}, day |-> d,
                  labels |-> labels[d], fresh |-> TRUE]
    /\ UNCHANGED <<scrobbleVars, labelVars, rankQueue, weights, deployVars>>

(* Variant: the weights are stamped with their own time.                   *)
WeightsStampedNow(d, l, fresh) ==
    [ruleset |-> ruleset, fresh |-> FALSE,
     labelled |-> {p \in On(d, Stored) : UpToMaxId(p, l.seen)}]

WeightsRow(d, l, fresh) ==
    IF l.ruleset = 0 \/ d < FirstRetained THEN NoWeights
    ELSE [ruleset |-> ruleset, fresh |-> fresh,
          labelled |-> {p \in On(d, Stored) : UpToMaxId(p, l.seen)}]

(* ... then read the scrobbles, each labelled if its id isn't higher than  *)
(* the highest classified, and replace the day's weights.                  *)
WriteWeights ==
    /\ wg.pc = "weighing"
    /\ weights' = [weights EXCEPT ![wg.day] = WeightsRow(wg.day, wg.labels, wg.fresh)]
    /\ wg' = [WeigherAtRest EXCEPT !.todo = wg.todo]
    /\ UNCHANGED <<scrobbleVars, labelVars, rankQueue, deployVars>>

(* A day that could not be weighed waits for the sweep.                    *)
WeighingFails ==
    /\ wg.pc = "weighing"
    /\ Fault
    /\ wg' = [WeigherAtRest EXCEPT !.todo = wg.todo]
    /\ UNCHANGED <<scrobbleVars, labelVars, rankQueue, weights, ruleset, commands>>

(* rankings.rs: enqueue_stale, of the days whose weights are kept.         *)
Unweighed ==
    {d \in Days \cap (FirstRetained..LastDay) :
        \/ Labelled(d) # Weighed(d)
        \/ Weighed(d) /\ (weights[d].ruleset # ruleset \/ ~weights[d].fresh)}

SweepWeights ==
    /\ ~(Unweighed \subseteq rankQueue)
    /\ rankQueue' = rankQueue \cup Unweighed
    /\ UNCHANGED <<scrobbleVars, labelVars, weights, wg, deployVars>>

-----------------------------------------------------------------------------
(* The worker stops in the middle of anything and starts again, perhaps    *)
(* with other thresholds.                                                  *)
Restart ==
    /\ Fault
    /\ ruleset' \in {ruleset, ruleset + 1} \cap (1..Rulesets)
    /\ cl' = [cl EXCEPT ![Worker] = AtRest]
    /\ wg' = WeigherAtRest
    /\ UNCHANGED <<scrobbleVars, queue, labels, rankQueue, weights, commands>>

Storing(p) == Ingest(p) \/ Import(p) \/ Commit(p) \/ MarkDirty(p) \/ MarkLost(p)
Measuring(p) == LengthSet(p) \/ LengthTold(p)
Classifying(c) == ReadDay(c) \/ WriteDay(c) \/ CommitDay(c)
Weighing == ClaimWeighing \/ ReadLabels \/ WriteWeights

Next ==
    \/ \E p \in Plays : Storing(p) \/ Measuring(p)
    \/ \E d \in Days : RefreshActivity(d)
    \/ \E c \in Classifiers : Classifying(c) \/ ClassifyFails(c)
    \/ \E c \in Operators : Reclassify(c)
    \/ ClaimDays \/ Sweep \/ Weighing \/ WeighingFails \/ SweepWeights \/ Restart

Spec == Init /\ [][Next]_vars

(* Loops, sweeps and the refresh policy run; begun ingests end.            *)
Fairness ==
    /\ \A p \in Plays : WF_vars(Commit(p) \/ MarkDirty(p)) /\ WF_vars(LengthTold(p))
    /\ \A d \in Days : WF_vars(RefreshActivity(d))
    /\ \A c \in Classifiers : WF_vars(Classifying(c))
    /\ WF_vars(ClaimDays) /\ WF_vars(Sweep) /\ WF_vars(Weighing) /\ WF_vars(SweepWeights)

FairSpec == Spec /\ Fairness

-----------------------------------------------------------------------------
(***************************************************************************)
(* Properties                                                              *)
(***************************************************************************)
Labels == [ruleset : 0..Rulesets, seen : SUBSET Plays, lookback : SUBSET Plays,
           noData : SUBSET Plays]
Weights == [ruleset : 0..Rulesets, labelled : SUBSET Plays, fresh : BOOLEAN]
Classifications == [pc : {"idle", "read", "written"}, todo : SUBSET Days, day : 0..LastDay,
                    rows : SUBSET Plays, noData : SUBSET Plays,
                    wasQueued : BOOLEAN, queuesNext : BOOLEAN]
Weighings == [pc : {"idle", "weighing"}, todo : SUBSET Days, day : 0..LastDay,
              labels : Labels, fresh : BOOLEAN]

TypeOK ==
    /\ serial \in Nat /\ ids \in [Plays -> Nat]
    /\ stage \in [Plays -> {"new", "open", "stored", "told"}]
    /\ measured \in [Lengthless -> {"none", "set", "told"}]
    /\ activity \in [Days -> SUBSET Plays]
    /\ queue \subseteq Days /\ rankQueue \subseteq Days
    /\ labels \in [Days -> Labels]
    /\ \A d \in Days : labels[d].seen \subseteq On(d, Stored)
    /\ weights \in [Days -> Weights]
    /\ cl \in [Classifiers -> Classifications]
    /\ wg \in Weighings
    /\ ruleset \in 1..Rulesets /\ commands \in 0..MaxCommands /\ faults \in 0..MaxFaults

(* The status of scrobble_labels, or "none" (NULL): an id not above the    *)
(* day's highest classified one counts as classified.                      *)
HasLabel(p) == p \in Stored /\ Labelled(DayOf[p]) /\ UpToMaxId(p, labels[DayOf[p]].seen)

(* A day no import adds to: the ids of its scrobbles commit in order.      *)
LiveOnly(d) == On(d, Imported) = {}

(* A scrobble has a label only once its day was classified with it         *)
(* included.                                                               *)
LabelsAreReal ==
    \A p \in Plays : HasLabel(p) /\ LiveOnly(DayOf[p]) => p \in labels[DayOf[p]].seen

Waiting(d) == d \in queue \/ \E c \in Classifiers : d \in cl[c].todo
InWork(d) == \E c \in Classifiers : cl[c].pc # "idle" /\ cl[c].day = d
ReadFor(d, p) == \E c \in Classifiers : cl[c].pc # "idle" /\ cl[c].day = d /\ p \in cl[c].rows

(* While nothing fails, a queued ingest is never forgotten: the scrobble   *)
(* is labelled, or its day still waits, or it is being classified with it. *)
ToldIsLabelled ==
    faults = 0 =>
        \A p \in Plays : stage[p] = "told" =>
            p \in labels[DayOf[p]].seen \/ Waiting(DayOf[p]) \/ ReadFor(DayOf[p], p)

(* While nothing fails, a scrobble in a day's tail reaches the labels of   *)
(* the next day, if it has any, or one of both is still to be classified.  *)
(* The worker alone guarantees it: a command beside it does not look back. *)
TailReachesNextDay ==
    faults = 0 /\ commands = 0 =>
        \A p \in Tail : LET d == DayOf[p] IN
            stage[p] = "told" /\ d + 1 \in Days /\ Labelled(d + 1) =>
                \/ p \in labels[d + 1].lookback \/ ReadFor(d + 1, p)
                \/ Waiting(d) \/ InWork(d) \/ Waiting(d + 1)

(* While nothing fails, a labelled day's weights, if they are kept, are    *)
(* made from its present labels, all of them and no other, or the day      *)
(* waits for the weigher.                                                  *)
WeightsFollowLabels ==
    faults = 0 =>
        \A d \in Days : d >= FirstRetained /\ Labelled(d) /\ LiveOnly(d) =>
            \/ weights[d].fresh /\ weights[d].labelled = labels[d].seen
            \/ d \in rankQueue \/ d \in wg.todo
            \/ wg.pc # "idle" /\ wg.day = d /\ wg.fresh

OperatorsStop == <>[][\A c \in Operators : ~Reclassify(c)]_vars

Settled ==
    \A d \in Days :
        /\ labels[d].seen = On(d, Stored)
        /\ Labelled(d) => labels[d].ruleset = ruleset /\ labels[d].noData \cap Lengths = {}
        /\ d >= FirstRetained /\ Labelled(d) => weights[d].fresh /\ weights[d].ruleset = ruleset

(* Whatever was lost on the way, in the end every scrobble is labelled     *)
(* with the deployed thresholds and every kept day weighed from its labels.*)
LabelsSettle == OperatorsStop => <>[]Settled

(* Once nothing new arrives, the sweeps find nothing more to queue.        *)
QueuesDrain == OperatorsStop => <>[](queue = {} /\ rankQueue = {})

(* In the end a day's labels know the tail of the day before.              *)
LookbackSettles ==
    <>[](\A d \in Days : Labelled(d) => labels[d].lookback = TailOf(d - 1, Stored))
=============================================================================
