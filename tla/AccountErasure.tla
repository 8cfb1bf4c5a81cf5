--------------------------- MODULE AccountErasure ---------------------------
(***************************************************************************)
(* The erase of one account beside the jobs that read and write its data:  *)
(* the refresh of the aggregates, the weigher and the ranking snapshots    *)
(* (db/src/queries/accounts.rs and rankings.rs, worker/src/accounts.rs).   *)
(*                                                                         *)
(* One action is one statement of a transaction, or one row of an UPDATE.  *)
(* A statement sees what was committed when it began; an UPDATE waits for  *)
(* a row another transaction holds, and passes over it when that one       *)
(* deletes it: a row inserted in its place is not seen.                    *)
(***************************************************************************)
EXTENDS Integers, FiniteSets

CONSTANTS
    Days,        \* the account's days with scrobbles
    Periods,     \* rankings: week, month, year
    Covers,      \* the days each of them sums
    Kinds,       \* artist, track
    Erasers,     \* processes that erase: the worker, `worker accounts erase`
    Operators,   \* those of them that are the command
    Batch,       \* user-days one DELETE takes (100)
    MaxFaults    \* bound: crashes, failed refreshes

ASSUME ErasureAssumption ==
    /\ IsFiniteSet(Days) /\ Covers \in [Periods -> SUBSET Days] /\ Operators \subseteq Erasers
    /\ Batch \in Nat \ {0} /\ MaxFaults \in Nat

VARIABLES
    account,     \* here, scheduled (delete_after), erasing (erase_started_at), gone
    lease,       \* erase_started_at is younger than ERASE_LEASE
    history,     \* days that have scrobbles
    activity,    \* days the aggregates hold for the account
    labels,      \* scrobble_classification_days
    weights,     \* day -> none, empty (no ranking_daily) or plays: ranking_days
    snapshot,    \* period -> its committed ranking
    er,          \* eraser -> where it is
    refresh,     \* period -> the refresh_snapshots transaction in flight
    policy,      \* the aggregates' refresh in flight
    weigher,     \* the weigh_user_day transaction in flight
    overtaken,   \* history: the weigher wrote after an erase's first mark
    faults       \* bound

vars == <<account, lease, history, activity, labels, weights, snapshot, er, refresh, policy,
          weigher, overtaken, faults>>

(* `marks`: rows the UPDATE of ranking_snapshots has yet to visit;         *)
(* `weighed`: this erase deleted weights.                                  *)
AtRest == [pc |-> "idle", marks |-> {}, weighed |-> FALSE]
NoRefresh == [pc |-> "idle", left |-> {}, counted |-> FALSE]
NoPolicy == [pc |-> "idle", read |-> {}]
NoWeighing == [pc |-> "idle", day |-> 0, plays |-> FALSE]

Weighed == {d \in Days : weights[d] # "none"}

Counts(p) == \E d \in Covers[p] : weights[d] = "plays"

Init ==
    /\ account = "here" /\ lease = FALSE
    /\ history = Days /\ activity = Days /\ labels = Days
    /\ weights \in [Days -> {"none", "plays"}]
    /\ snapshot = [p \in Periods |-> [counted |-> Counts(p), invalidated |-> FALSE, passed |-> FALSE]]
    /\ er = [e \in Erasers |-> AtRest]
    /\ refresh = [p \in Periods |-> NoRefresh]
    /\ policy = NoPolicy /\ weigher = NoWeighing
    /\ overtaken = FALSE /\ faults = 0

Fault == faults < MaxFaults /\ faults' = faults + 1

-----------------------------------------------------------------------------
(* The request, its restore by a login, and the claims.                    *)
Schedule ==
    /\ account = "here"
    /\ account' = "scheduled"
    /\ UNCHANGED <<lease, history, activity, labels, weights, snapshot, er, refresh, policy,
                   weigher, overtaken, faults>>

(* Variant: a login restores whatever was scheduled.                       *)
RestoreAlways ==
    /\ account \in {"scheduled", "erasing"}
    /\ account' = "here"
    /\ UNCHANGED <<lease, history, activity, labels, weights, snapshot, er, refresh, policy,
                   weigher, overtaken, faults>>

Restore ==
    /\ account = "scheduled"
    /\ account' = "here"
    /\ UNCHANGED <<lease, history, activity, labels, weights, snapshot, er, refresh, policy,
                   weigher, overtaken, faults>>

Begin(e) ==
    /\ er[e].pc = "idle"
    /\ account' = "erasing" /\ lease' = TRUE
    /\ er' = [er EXCEPT ![e].pc = "lock"]
    /\ UNCHANGED <<history, activity, labels, weights, snapshot, refresh, policy, weigher,
                   overtaken, faults>>

(* Variant: an erase that failed is not claimed again.                     *)
ClaimDueOnce(e) == e \notin Operators /\ account = "scheduled" /\ Begin(e)

(* delete_after has passed, and no claim, or an old one.                   *)
ClaimDue(e) ==
    /\ e \notin Operators
    /\ account = "scheduled" \/ (account = "erasing" /\ ~lease)
    /\ Begin(e)

(* The command's mark_erasing, whatever happened since its own schedule.   *)
MarkErasing(e) == e \in Operators /\ account # "gone" /\ Begin(e)

LeaseExpires ==
    /\ account = "erasing" /\ lease
    /\ lease' = FALSE
    /\ UNCHANGED <<account, history, activity, labels, weights, snapshot, er, refresh, policy,
                   weigher, overtaken, faults>>

-----------------------------------------------------------------------------
(* erase: the scrobbles and the aggregates' rows, under the guard, which   *)
(* waits for a refresh at work and lets no other one begin.                *)
Guarded == \E e \in Erasers : er[e].pc = "chunks"
AwaitsGuard == \E e \in Erasers : er[e].pc = "lock"

(* Variant: the scrobbles are deleted without the guard.                   *)
LockNothing(e) ==
    /\ er[e].pc = "lock"
    /\ er' = [er EXCEPT ![e].pc = "chunks"]
    /\ UNCHANGED <<account, lease, history, activity, labels, weights, snapshot, refresh, policy,
                   weigher, overtaken, faults>>

LockAggregates(e) ==
    /\ er[e].pc = "lock"
    /\ ~Guarded /\ policy.pc = "idle"
    /\ er' = [er EXCEPT ![e].pc = "chunks"]
    /\ UNCHANGED <<account, lease, history, activity, labels, weights, snapshot, refresh, policy,
                   weigher, overtaken, faults>>

\* One day of history with its deltas: a chunk is one transaction, repeated when
\* it deadlocks. Listens reported to a claimed account are not modelled.
EraseChunk(e) ==
    /\ er[e].pc = "chunks"
    /\ \E d \in history : history' = history \ {d}
    /\ UNCHANGED <<account, lease, activity, labels, weights, snapshot, er, refresh, policy,
                   weigher, overtaken, faults>>

(* The account's materialized rows go, and the guard.                      *)
CleanAggregates(e) ==
    /\ er[e].pc = "chunks" /\ history = {}
    /\ activity' = {}
    /\ er' = [er EXCEPT ![e].pc = "mark"]
    /\ UNCHANGED <<account, lease, history, labels, weights, snapshot, refresh, policy, weigher,
                   overtaken, faults>>

-----------------------------------------------------------------------------
(* UPDATE ranking_snapshots SET invalidated = TRUE, if there are weights.  *)
Mark(e) ==
    /\ er[e].pc = "mark"
    /\ \/ Weighed # {} /\ er' = [er EXCEPT ![e].pc = "marking", ![e].marks = Periods]
       \/ Weighed = {} /\ er' = [er EXCEPT ![e].pc = "labels"]
    /\ UNCHANGED <<account, lease, history, activity, labels, weights, snapshot, refresh, policy,
                   weigher, overtaken, faults>>

(* Rows are held by the first mark, and by the last of an erase with       *)
(* weights.                                                                *)
Marking(e) == er[e].pc = "marking" \/ (er[e].pc = "gone" /\ er[e].weighed)

(* A row a refresh has deleted is waited for.                              *)
MarkRow(e, p) ==
    /\ Marking(e) /\ p \in er[e].marks
    /\ refresh[p].pc = "idle"
    /\ snapshot' = [snapshot EXCEPT ![p].invalidated = TRUE]
    /\ er' = [er EXCEPT ![e].marks = @ \ {p}]
    /\ UNCHANGED <<account, lease, history, activity, labels, weights, refresh, policy, weigher,
                   overtaken, faults>>

(* Variant: the UPDATE doesn't wait for the rows others hold.              *)
MarkedWithoutWaiting(e) ==
    /\ er[e].pc = "marking"
    /\ er' = [er EXCEPT ![e].pc = "labels"]
    /\ UNCHANGED <<account, lease, history, activity, labels, weights, snapshot, refresh, policy,
                   weigher, overtaken, faults>>

Marked(e) ==
    /\ er[e].pc = "marking" /\ er[e].marks = {}
    /\ er' = [er EXCEPT ![e].pc = "labels"]
    /\ UNCHANGED <<account, lease, history, activity, labels, weights, snapshot, refresh, policy,
                   weigher, overtaken, faults>>

(* DELETE ... LIMIT 100: as many as there are, or a batch of them.         *)
Batches(S) == {T \in SUBSET S : Cardinality(T) = IF Cardinality(S) < Batch THEN Cardinality(S) ELSE Batch}

(* A batch of labels; the one that deletes none is the last.               *)
DeleteLabels(e) ==
    /\ er[e].pc = "labels"
    /\ \E T \in Batches(labels) : labels' = labels \ T
    /\ er' = IF labels = {} THEN [er EXCEPT ![e].pc = "weights"] ELSE er
    /\ UNCHANGED <<account, lease, history, activity, weights, snapshot, refresh, policy, weigher,
                   overtaken, faults>>

DeleteWeights(e) ==
    /\ er[e].pc = "weights"
    /\ \E T \in Batches(Weighed) :
        weights' = [d \in Days |-> IF d \in T THEN "none" ELSE weights[d]]
    /\ \/ Weighed # {} /\ er' = [er EXCEPT ![e].weighed = TRUE]
       \/ Weighed = {} /\ er' = [er EXCEPT ![e].pc = "row"]
    /\ UNCHANGED <<account, lease, history, activity, labels, snapshot, refresh, policy, weigher,
                   overtaken, faults>>

(* Every row of its batch was deleted by a statement it waited for: it     *)
(* deletes none, and the loop ends with rows left.                         *)
DeleteNone(e) ==
    /\ \/ /\ er[e].pc = "labels" /\ labels # Days
          /\ \E f \in Erasers \ {e} : er[f].pc = "labels"
          /\ er' = [er EXCEPT ![e].pc = "weights"]
       \/ /\ er[e].pc = "weights"
          /\ overtaken \/ \E f \in Erasers \ {e} : er[f].pc = "weights" /\ er[f].weighed
          /\ er' = [er EXCEPT ![e].pc = "row"]
    /\ UNCHANGED <<account, lease, history, activity, labels, weights, snapshot, refresh, policy,
                   weigher, overtaken, faults>>

(* Variant: the snapshots are marked before the weights go only.           *)
DeleteRowUnmarked(e) ==
    /\ er[e].pc = "row" /\ \A f \in Erasers : er[f].pc # "gone"
    /\ er' = [er EXCEPT ![e].pc = "gone"]
    /\ UNCHANGED <<account, lease, history, activity, labels, weights, snapshot, refresh, policy,
                   weigher, overtaken, faults>>

(* delete_user_row: the account's row, held until the commit, then again   *)
(* the mark.                                                               *)
DeleteRow(e) ==
    /\ er[e].pc = "row" /\ \A f \in Erasers : er[f].pc # "gone"
    /\ er' = [er EXCEPT ![e].pc = "gone",
                        ![e].marks = IF er[e].weighed THEN Periods ELSE {}]
    /\ UNCHANGED <<account, lease, history, activity, labels, weights, snapshot, refresh, policy,
                   weigher, overtaken, faults>>

(* The row takes along what refers to it.                                  *)
CommitErase(e) ==
    /\ er[e].pc = "gone" /\ er[e].marks = {}
    /\ account' = "gone" /\ lease' = FALSE
    /\ history' = {} /\ labels' = {}
    /\ weights' = [d \in Days |-> "none"]
    /\ er' = [er EXCEPT ![e] = AtRest]
    /\ UNCHANGED <<activity, snapshot, refresh, policy, weigher, overtaken, faults>>

(* The process dies or a statement fails: its transaction is rolled back,  *)
(* the lease stays.                                                        *)
EraseFails(e) ==
    /\ er[e].pc # "idle"
    /\ Fault
    /\ er' = [er EXCEPT ![e] = AtRest]
    /\ UNCHANGED <<account, lease, history, activity, labels, weights, snapshot, refresh, policy,
                   weigher, overtaken>>

-----------------------------------------------------------------------------
(* refresh_snapshots, one per period at a time: the DELETE waits for rows  *)
(* an UPDATE holds; then artists and tracks are ranked, each from the      *)
(* weights of that moment.                                                 *)
HeldByUpdate(p) == \E e \in Erasers : Marking(e) /\ p \notin er[e].marks

DeleteSnapshots(p) ==
    /\ refresh[p].pc = "idle" /\ ~HeldByUpdate(p)
    /\ refresh' = [refresh EXCEPT ![p] = [pc |-> "ranking", left |-> Kinds, counted |-> FALSE]]
    /\ UNCHANGED <<account, lease, history, activity, labels, weights, snapshot, er, policy,
                   weigher, overtaken, faults>>

Rank(p, k) ==
    /\ refresh[p].pc = "ranking" /\ k \in refresh[p].left
    /\ refresh' = [refresh EXCEPT ![p] = [pc |-> "ranking", left |-> refresh[p].left \ {k},
                                          counted |-> refresh[p].counted \/ Counts(p)]]
    /\ UNCHANGED <<account, lease, history, activity, labels, weights, snapshot, er, policy,
                   weigher, overtaken, faults>>

(* The new rows are not marked; an UPDATE that waited passes over the old. *)
(* `passed`: the UPDATE of delete_user_row did.                            *)
CommitSnapshots(p) ==
    /\ refresh[p].pc = "ranking" /\ refresh[p].left = {}
    /\ snapshot' = [snapshot EXCEPT ![p] =
            [counted |-> refresh[p].counted, invalidated |-> FALSE,
             passed |-> \E e \in Erasers : er[e].pc = "gone" /\ p \in er[e].marks]]
    /\ er' = [e \in Erasers |-> [er[e] EXCEPT !.marks = @ \ {p}]]
    /\ refresh' = [refresh EXCEPT ![p] = NoRefresh]
    /\ UNCHANGED <<account, lease, history, activity, labels, weights, policy, weigher,
                   overtaken, faults>>

RefreshFails(p) ==
    /\ refresh[p].pc = "ranking"
    /\ Fault
    /\ refresh' = [refresh EXCEPT ![p] = NoRefresh]
    /\ UNCHANGED <<account, lease, history, activity, labels, weights, snapshot, er, policy,
                   weigher, overtaken>>

-----------------------------------------------------------------------------
(* The aggregates' refresh: lock, read the scrobbles, write.               *)
PolicyReads ==
    /\ policy.pc = "idle" /\ ~Guarded /\ ~AwaitsGuard
    /\ policy' = [pc |-> "writing", read |-> history]
    /\ UNCHANGED <<account, lease, history, activity, labels, weights, snapshot, er, refresh,
                   weigher, overtaken, faults>>

PolicyWrites ==
    /\ policy.pc = "writing"
    /\ activity' = policy.read
    /\ policy' = NoPolicy
    /\ UNCHANGED <<account, lease, history, labels, weights, snapshot, er, refresh, weigher,
                   overtaken, faults>>

(* weigh_user_day of a day it claimed before: without labels the day's     *)
(* weights go, otherwise they are made from the scrobbles it reads.        *)
PastMark == \E e \in Erasers : er[e].pc \in {"marking", "labels", "weights", "row"}

WeighUnlabelled(d) ==
    /\ weigher.pc = "idle" /\ d \notin labels
    /\ weights[d] # "none"
    /\ weights' = [weights EXCEPT ![d] = "none"]
    /\ overtaken' = (overtaken \/ PastMark)
    /\ UNCHANGED <<account, lease, history, activity, labels, snapshot, er, refresh, policy,
                   weigher, faults>>

ReadPlays(d) ==
    /\ weigher.pc = "idle" /\ d \in labels
    /\ weigher' = [pc |-> "weighing", day |-> d, plays |-> d \in history]
    /\ UNCHANGED <<account, lease, history, activity, labels, weights, snapshot, er, refresh,
                   policy, overtaken, faults>>

(* Variant: weights whose account is not looked for.                       *)
WriteWeightsAnyway ==
    /\ weigher.pc = "weighing"
    /\ weights' = [weights EXCEPT ![weigher.day] = IF weigher.plays THEN "plays" ELSE "empty"]
    /\ overtaken' = (overtaken \/ PastMark)
    /\ weigher' = NoWeighing
    /\ UNCHANGED <<account, lease, history, activity, labels, snapshot, er, refresh, policy, faults>>

(* ranking_days refers to users: the insert waits for a row being deleted. *)
WriteWeights ==
    /\ weigher.pc = "weighing"
    /\ account # "gone" /\ \A e \in Erasers : er[e].pc # "gone"
    /\ weights' = [weights EXCEPT ![weigher.day] = IF weigher.plays THEN "plays" ELSE "empty"]
    /\ overtaken' = (overtaken \/ PastMark)
    /\ weigher' = NoWeighing
    /\ UNCHANGED <<account, lease, history, activity, labels, snapshot, er, refresh, policy, faults>>

WeighingRejected ==
    /\ weigher.pc = "weighing" /\ account = "gone"
    /\ weigher' = NoWeighing
    /\ UNCHANGED <<account, lease, history, activity, labels, weights, snapshot, er, refresh,
                   policy, overtaken, faults>>

-----------------------------------------------------------------------------
Erase(e) ==
    \/ LockAggregates(e) \/ EraseChunk(e) \/ CleanAggregates(e) \/ Mark(e) \/ Marked(e)
    \/ (\E p \in Periods : MarkRow(e, p))
    \/ DeleteLabels(e) \/ DeleteWeights(e) \/ DeleteNone(e) \/ DeleteRow(e) \/ CommitErase(e)

Refresh(p) == DeleteSnapshots(p) \/ (\E k \in Kinds : Rank(p, k)) \/ CommitSnapshots(p)

Weigh == WriteWeights \/ WeighingRejected

Next ==
    \/ Schedule \/ Restore \/ LeaseExpires
    \/ \E e \in Erasers : ClaimDue(e) \/ MarkErasing(e) \/ Erase(e) \/ EraseFails(e)
    \/ \E p \in Periods : Refresh(p) \/ RefreshFails(p)
    \/ PolicyReads \/ PolicyWrites
    \/ \E d \in Days : WeighUnlabelled(d) \/ ReadPlays(d)
    \/ Weigh

Spec == Init /\ [][Next]_vars

(* The worker polls for due accounts, begun work goes on, and every        *)
(* snapshot is refreshed again when it is old enough.                      *)
Fairness ==
    /\ WF_vars(LeaseExpires)
    /\ \A e \in Erasers : WF_vars(ClaimDue(e)) /\ WF_vars(Erase(e))
    /\ \A p \in Periods : WF_vars(Refresh(p))
    /\ WF_vars(PolicyWrites) /\ WF_vars(Weigh)

FairSpec == Spec /\ Fairness

-----------------------------------------------------------------------------
(***************************************************************************)
(* Properties                                                              *)
(***************************************************************************)
Stages == {"idle", "lock", "chunks", "mark", "marking", "labels", "weights", "row", "gone"}

TypeOK ==
    /\ account \in {"here", "scheduled", "erasing", "gone"} /\ lease \in BOOLEAN
    /\ history \subseteq Days /\ activity \subseteq Days /\ labels \subseteq Days
    /\ weights \in [Days -> {"none", "empty", "plays"}]
    /\ snapshot \in [Periods -> [counted : BOOLEAN, invalidated : BOOLEAN, passed : BOOLEAN]]
    /\ er \in [Erasers -> [pc : Stages, marks : SUBSET Periods, weighed : BOOLEAN]]
    /\ \A e \in Erasers : er[e].pc \notin {"marking", "gone"} => er[e].marks = {}
    /\ refresh \in [Periods -> [pc : {"idle", "ranking"}, left : SUBSET Kinds, counted : BOOLEAN]]
    /\ policy \in [pc : {"idle", "writing"}, read : SUBSET Days]
    /\ weigher \in [pc : {"idle", "weighing"}, day : Days \cup {0}, plays : BOOLEAN]
    /\ weigher.pc = "weighing" => weigher.day \in Days
    /\ overtaken \in BOOLEAN /\ faults \in 0..MaxFaults

(* An account a login can still restore, or has restored, lost nothing.    *)
RestorableIsWhole ==
    account \in {"here", "scheduled"} => history = Days /\ labels = Days

(* Of an erased account nothing is left and nothing comes back, whatever   *)
(* was in flight.                                                          *)
NothingComesBack ==
    account = "gone" => /\ history = {} /\ labels = {} /\ Weighed = {}
                        /\ activity = {}

Unmarked(p) == snapshot[p].counted /\ ~snapshot[p].invalidated

(* A snapshot that counts an erased account is marked for a refresh.       *)
ErasedIsMarked ==
    account = "gone" /\ faults = 0 /\ ~overtaken => \A p \in Periods : ~Unmarked(p)

(* A snapshot that counts an erased account is marked for a refresh, but   *)
(* for one whose refresh the last mark waited for, while no erase failed   *)
(* and no weigher came between; a second eraser may still have to mark.    *)
MarkedUnlessPassed ==
    account = "gone" /\ faults = 0 /\ ~overtaken =>
        \A p \in Periods : Unmarked(p) =>
            snapshot[p].passed \/ \E e \in Erasers : er[e].weighed

(* A claimed erase ends, whatever fails on the way.                        *)
EraseEnds == account = "erasing" ~> account = "gone"

(* In the end no ranking counts an erased account.                         *)
RankingsForget == account = "gone" ~> [](\A p \in Periods : ~snapshot[p].counted)
=============================================================================
