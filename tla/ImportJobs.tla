----------------------------- MODULE ImportJobs -----------------------------
(***************************************************************************)
(* The Last.fm import: the job rows of `scrobble_imports` and the          *)
(* processes that work on them (db/src/queries/imports.rs,                 *)
(* worker/src/lastfm_import).                                              *)
(*                                                                         *)
(* A job walks one account's history, newest page first.  A process leases *)
(* the job, copies the row, and commits each page together with the        *)
(* cursor.  Imported plays wait in the job's pending range until a         *)
(* checkpoint hands them to the classifier and to enrichment.  Leases      *)
(* expire, processes die or lose the database, users cancel, and an        *)
(* operator's command line competes with the worker.                       *)
(*                                                                         *)
(* One action is one database statement or transaction; the steps of a     *)
(* checkpoint interleave with everything else.  A page is a set of plays   *)
(* (HistoryWalk models the cursor that fetches them) and a stored play is  *)
(* one cell (ImportDedup models the matching of plays and stored rows).    *)
(***************************************************************************)
EXTENDS Integers, FiniteSets

CONSTANTS
    Jobs,           \* import jobs that may ever be created
    Users,
    UserOf,         \* whose import a job is
    Daemons,        \* `worker` processes: loop over claim_next
    Clis,           \* `worker import` commands: claim one given job
    Plays,          \* the plays of a user's Last.fm history
    TimeOf,         \* their timestamps
    PageOf,         \* the page of the walk a play is on
    Pages,          \* pages in the walk
    SegmentPages,   \* PAGES_PER_SEGMENT
    LovedPages,     \* pages of loved tracks
    SlicePages,     \* SLICE_PAGES
    MaxAttempts,    \* MAX_ATTEMPTS
    MaxScrobbles,   \* LASTFM_IMPORT_MAX_SCROBBLES
    LivePlays,      \* bound: which plays were already scrobbled live
    MaxFaults,      \* bound: crashes, database errors, early lease expiries,
                    \*        operator interrupts
    NoJob, NoWorker, Absent, Live

Workers == Daemons \cup Clis
Times == {TimeOf[p] : p \in Plays}

(* What the constants must satisfy: deeper pages hold plays no newer.      *)
ASSUME ConstantsAssumption ==
    /\ Pages \in Nat \ {0}
    /\ SegmentPages \in Nat \ {0}
    /\ LovedPages \in Nat \ {0}
    /\ SlicePages \in Nat \ {0}
    /\ MaxAttempts \in Nat \ {0}
    /\ MaxScrobbles \in Nat
    /\ MaxFaults \in Nat

ASSUME HistoryAssumption ==
    /\ IsFiniteSet(Plays)
    /\ TimeOf \in [Plays -> Nat]
    /\ PageOf \in [Plays -> 1..Pages]
    /\ LivePlays \subseteq SUBSET Plays
    /\ \A p, q \in Plays : PageOf[p] < PageOf[q] => TimeOf[p] >= TimeOf[q]

ASSUME ActorsAssumption ==
    /\ IsFiniteSet(Jobs)
    /\ UserOf \in [Jobs -> Users]
    /\ NoJob \notin Jobs
    /\ NoWorker \notin Workers
    /\ Daemons \cap Clis = {}
    /\ Absent \notin Jobs \cup {Live}
    /\ Live \notin Jobs

VARIABLES
    row,      \* job -> its row in scrobble_imports
    older,    \* <<j, k>>: j's updated_at is before k's
    store,    \* user -> play -> Absent, Live, or the job that inserted it
    queued,   \* consumer -> <<user, play>> handed to it since it was inserted
    wk,       \* process -> what it holds in memory
    faults    \* bound: faults so far

vars == <<row, older, store, queued, wk, faults>>

Ended == {"done", "failed", "cancelled"}
Active == {"pending", "running"}
(* scrobble_imports.error_code: why a job failed.                          *)
Failures == {"cap_reached", "lastfm_error", "lastfm_unavailable"}
(* What a process does once its checkpoint is over.                        *)
Intents == Failures \cup {"walk", "done", "defer", "release", "lost", "leftovers"}
Consumers == {"classifier", "enrichment"}

Row == [status : Ended \cup Active \cup {"none"},
        token : Workers \cup {NoWorker},   \* lease_token
        leased : BOOLEAN,                  \* leased_until has not passed
        due : BOOLEAN,                     \* next_attempt_at has passed
        attempts : Nat,
        page : 1..Pages,                   \* the cursor: next page to fetch
        imported : Nat,
        pending : SUBSET Times,            \* [pending_from, pending_to]; {}: NULL
        lovedPage : Nat,
        lovedDone : BOOLEAN,
        code : Failures \cup {"none"}]

NewRow == [status |-> "none", token |-> NoWorker, leased |-> FALSE, due |-> TRUE,
           attempts |-> 0, page |-> 1, imported |-> 0, pending |-> {},
           lovedPage |-> 1, lovedDone |-> FALSE, code |-> "none"]

PCs == {"idle", "fetch", "read", "classify", "enrich", "clear", "settle", "leftovers"}

(* A process between two awaits: the ClaimedImport it was given, the pages *)
(* of this slice, the range of the checkpoint it runs and what follows it. *)
Local == [pc : PCs,
          job : Jobs \cup {NoJob},
          page : 1..Pages,
          imported : Nat,
          before : Nat,                    \* imported_before
          attempts : Nat,
          lovedPage : Nat,
          lovedDone : BOOLEAN,
          pages : Nat,
          range : SUBSET Times,
          then : Intents,
          todo : SUBSET Jobs]              \* leftover checkpoints to run

Idle == [pc |-> "idle", job |-> NoJob, page |-> 1, imported |-> 0, before |-> 0,
         attempts |-> 0, lovedPage |-> 1, lovedDone |-> FALSE, pages |-> 0,
         range |-> {}, then |-> "lost", todo |-> {}]

(* A user's history may already have been scrobbled live, in part.         *)
Init ==
    /\ row = [j \in Jobs |-> NewRow]
    /\ older = {}
    /\ \E live \in [Users -> LivePlays] :
          store = [u \in Users |-> [p \in Plays |-> IF p \in live[u] THEN Live ELSE Absent]]
    /\ queued = [c \in Consumers |-> {}]
    /\ wk = [w \in Workers |-> Idle]
    /\ faults = 0

-----------------------------------------------------------------------------
IsActive(j) == row[j].status \in Active
Claimable(j) == IsActive(j) /\ row[j].due /\ ~row[j].leased
(* Every write of a leased job matches on its token.                       *)
Holds(w) == row[wk[w].job].token = w

(* The trigger set_updated_at: a written row goes to the back of the line. *)
(* Rows that can't be claimed any more are left out of the order.          *)
Touch(j) ==
    LET active == {k \in Jobs : row'[k].status \in Active}
    IN  older' = ((older \ ({j} \X Jobs)) \cup ((Jobs \ {j}) \X {j})) \cap (active \X active)

(* LEAST and GREATEST over the range kept so far and the new timestamps.   *)
Hull(S) == {t \in Times : \E a, b \in S : a <= t /\ t <= b}

(* The sum of `imported` over the user's other imports, counted as pairs.  *)
ImportedBefore(j) ==
    Cardinality({on \in Jobs \X (1..Cardinality(Plays)) :
                    /\ on[1] # j
                    /\ UserOf[on[1]] = UserOf[j]
                    /\ on[2] <= row[on[1]].imported})

Unlease(r) == [r EXCEPT !.token = NoWorker, !.leased = FALSE]

-----------------------------------------------------------------------------
(* create: one pending or running import per user (a unique index).        *)
Create(j) ==
    /\ row[j].status = "none"
    /\ \A k \in Jobs : UserOf[k] = UserOf[j] => ~IsActive(k)
    /\ row' = [row EXCEPT ![j].status = "pending"]
    /\ Touch(j)
    /\ UNCHANGED <<store, queued, wk, faults>>

(* Variant: a cancellation that leaves the lease in the row.               *)
CancelKeepsLease(j) ==
    /\ IsActive(j)
    /\ row' = [row EXCEPT ![j].status = "cancelled"]
    /\ Touch(j)
    /\ UNCHANGED <<store, queued, wk, faults>>

(* cancel: takes the lease away, so the page in flight is not recorded.    *)
Cancel(j) ==
    /\ IsActive(j)
    /\ row' = [row EXCEPT ![j] = [Unlease(@) EXCEPT !.status = "cancelled"]]
    /\ Touch(j)
    /\ UNCHANGED <<store, queued, wk, faults>>

(* The UPDATE ... RETURNING of both claims, and the first steps of a slice *)
(* with the copied row.                                                    *)
Lease(w, j) ==
    /\ row' = [row EXCEPT ![j] = [@ EXCEPT !.status = "running", !.token = w, !.leased = TRUE]]
    /\ wk' = [wk EXCEPT ![w] =
                [Idle EXCEPT !.pc = "fetch",
                             !.job = j,
                             !.page = row[j].page,
                             !.imported = row[j].imported,
                             !.before = ImportedBefore(j),
                             !.attempts = row[j].attempts,
                             !.lovedPage = row[j].lovedPage,
                             !.lovedDone = row[j].lovedDone]]
    /\ Touch(j)
    /\ UNCHANGED <<store, queued, faults>>

(* Variant: claim_next takes always the same job first.                    *)
ClaimNextById(w) ==
    /\ wk[w].pc = "idle"
    /\ \E j \in Jobs :
        /\ Claimable(j)
        /\ j = CHOOSE k \in Jobs : Claimable(k)
        /\ Lease(w, j)

(* claim_next: the due, unleased job touched least recently.               *)
ClaimNext(w) ==
    /\ wk[w].pc = "idle"
    /\ \E j \in Jobs :
        /\ Claimable(j)
        /\ \A k \in Jobs : Claimable(k) => <<k, j>> \notin older
        /\ Lease(w, j)

(* claim: the operator's command takes its job however long its retry is.  *)
Claim(w) ==
    /\ wk[w].pc = "idle"
    /\ \E j \in Jobs : IsActive(j) /\ ~row[j].leased /\ Lease(w, j)

-----------------------------------------------------------------------------
(* Loved tracks, read before the history.  Every outcome of one request.   *)
InLoves(w) == wk[w].pc = "fetch" /\ wk[w].pages < SlicePages /\ ~wk[w].lovedDone

(* record_loves under the lease: the cursor moves and attempts restart.    *)
(* `capped`: the account is full of loved tracks (that cap is LovedTracks).*)
LovesRecorded(w) ==
    LET j == wk[w].job
    IN  /\ InLoves(w)
        /\ Holds(w) /\ row[j].status = "running"
        /\ \E capped \in BOOLEAN :
            LET over == wk[w].lovedPage >= LovedPages \/ capped
                next == wk[w].lovedPage + 1
            IN  /\ row' = [row EXCEPT ![j] =
                              [@ EXCEPT !.lovedPage = next, !.lovedDone = over,
                                        !.attempts = 0, !.leased = TRUE]]
                /\ wk' = [wk EXCEPT ![w] =
                              [wk[w] EXCEPT !.lovedPage = next, !.lovedDone = over,
                                            !.pages = @ + 1]]
        /\ Touch(j)
        /\ UNCHANGED <<store, queued, faults>>

(* record_loves without the lease: the slice ends, with no checkpoint.     *)
LovesLost(w) ==
    /\ InLoves(w)
    /\ ~(Holds(w) /\ row[wk[w].job].status = "running")
    /\ wk' = [wk EXCEPT ![w] = Idle]
    /\ UNCHANGED <<row, older, store, queued, faults>>

(* skip_loves: the provider refuses the loves; the process goes on whether *)
(* or not its UPDATE matched.                                              *)
LovesSkipped(w) ==
    LET j == wk[w].job
    IN  /\ InLoves(w)
        /\ \/ Holds(w) /\ row' = [row EXCEPT ![j].lovedDone = TRUE] /\ Touch(j)
           \/ ~Holds(w) /\ UNCHANGED <<row, older>>
        /\ wk' = [wk EXCEPT ![w].lovedDone = TRUE]
        /\ UNCHANGED <<store, queued, faults>>

-----------------------------------------------------------------------------
(* The history walk.                                                       *)
Walking(w) == wk[w].pc = "fetch" /\ wk[w].pages < SlicePages /\ wk[w].lovedDone

(* Variant: the cap counts this job only.                                  *)
FullOfThisJob(w) == wk[w].imported >= MaxScrobbles

(* The cap is per user and checked before a page is fetched.               *)
Full(w) == wk[w].before + wk[w].imported >= MaxScrobbles

(* Begins a checkpoint of the job in hand, to go on with `intent`.  Only a *)
(* walk that goes on still reads its copy of the row.                      *)
Checkpoint(l, intent) ==
    IF intent = "walk" THEN [l EXCEPT !.pc = "read", !.then = intent]
    ELSE [Idle EXCEPT !.pc = "read", !.job = l.job, !.then = intent,
                      !.attempts = IF intent = "defer" THEN l.attempts ELSE 0,
                      !.todo = l.todo]

SliceOver(w) ==
    /\ wk[w].pc = "fetch" /\ wk[w].pages >= SlicePages
    /\ wk' = [wk EXCEPT ![w] = Checkpoint(@, "release")]
    /\ UNCHANGED <<row, older, store, queued, faults>>

CapReached(w) ==
    /\ Walking(w) /\ Full(w)
    /\ wk' = [wk EXCEPT ![w] = Checkpoint(@, "cap_reached")]
    /\ UNCHANGED <<row, older, store, queued, faults>>

(* The plays of the page not stored yet, by either service.                *)
Fresh(w) == {p \in Plays : /\ PageOf[p] = wk[w].page
                           /\ store[UserOf[wk[w].job]][p] = Absent}

(* Variant: a cursor past the end of the walk.                             *)
NextPagePastEnd(page) == page + 1

(* The cursor stored with a page: the next page, or still the last one     *)
(* (`next.unwrap_or(job.cursor)`).                                         *)
NextPage(page) == IF page = Pages THEN Pages ELSE page + 1

(* Variant: the walk is taken to be over one page early.                   *)
AfterPageStopsEarly(l, n) ==
    LET counted == [l EXCEPT !.imported = @ + n, !.pages = @ + 1]
    IN  IF l.page >= Pages - 1 THEN Checkpoint(counted, "done")
        ELSE [counted EXCEPT !.page = @ + 1]

(* The process after its page was recorded: the history is exhausted, a    *)
(* segment ends, or the walk just goes on.                                 *)
AfterPage(l, n) ==
    LET counted == [l EXCEPT !.imported = @ + n, !.pages = @ + 1]
        moved   == [counted EXCEPT !.page = @ + 1]
    IN  IF l.page = Pages THEN Checkpoint(counted, "done")
        ELSE IF l.page % SegmentPages = 0 THEN Checkpoint(moved, "walk")
        ELSE moved

(* Variant: plays already stored are counted as imported.                  *)
RecordPageCountsAll(w) ==
    LET j == wk[w].job
        fresh == Fresh(w)
        all == {p \in Plays : PageOf[p] = wk[w].page}
    IN  /\ store' = [store EXCEPT ![UserOf[j]] =
                        [p \in Plays |-> IF p \in fresh THEN j ELSE @[p]]]
        /\ row' = [row EXCEPT ![j] =
                      [row[j] EXCEPT
                                !.page = NextPage(wk[w].page),
                                !.imported = @ + Cardinality(all),
                                !.pending = Hull(@ \cup {TimeOf[p] : p \in fresh}),
                                !.attempts = 0, !.leased = TRUE]]
        /\ wk' = [wk EXCEPT ![w] = AfterPage(@, Cardinality(all))]
        /\ Touch(j)
        /\ UNCHANGED <<queued, faults>>

(* recent_tracks answered and record_page commits: the fresh plays, the    *)
(* cursor, the counters, the pending range and a longer lease, at once.    *)
RecordPage(w) ==
    LET j == wk[w].job
        fresh == Fresh(w)
    IN  /\ store' = [store EXCEPT ![UserOf[j]] =
                        [p \in Plays |-> IF p \in fresh THEN j ELSE @[p]]]
        /\ row' = [row EXCEPT ![j] =
                      [row[j] EXCEPT
                                !.page = NextPage(wk[w].page),
                                !.imported = @ + Cardinality(fresh),
                                !.pending = Hull(@ \cup {TimeOf[p] : p \in fresh}),
                                !.attempts = 0, !.leased = TRUE]]
        /\ wk' = [wk EXCEPT ![w] = AfterPage(@, Cardinality(fresh))]
        /\ Touch(j)
        /\ UNCHANGED <<queued, faults>>

(* Variant: record_page without its lease check.                           *)
PageRecordedByStatus(w) ==
    /\ Walking(w) /\ ~Full(w)
    /\ row[wk[w].job].status = "running"
    /\ RecordPage(w)

PageRecorded(w) ==
    /\ Walking(w) /\ ~Full(w)
    /\ Holds(w) /\ row[wk[w].job].status = "running"
    /\ RecordPage(w)

(* record_page without the lease: nothing is written; what this process    *)
(* recorded earlier is still checkpointed.                                 *)
PageLost(w) ==
    /\ Walking(w) /\ ~Full(w)
    /\ ~(Holds(w) /\ row[wk[w].job].status = "running")
    /\ wk' = [wk EXCEPT ![w] = Checkpoint(@, "lost")]
    /\ UNCHANGED <<row, older, store, queued, faults>>

-----------------------------------------------------------------------------
(* handle_error: decides from the copied row, checkpoints, then settles.   *)
Requesting(w) == InLoves(w) \/ (Walking(w) /\ ~Full(w))

(* The user does not exist, hides the history, or the request is refused.  *)
(* In the loves loop such an answer skips the loves instead.               *)
Refused(w) ==
    /\ Walking(w) /\ ~Full(w)
    /\ wk' = [wk EXCEPT ![w] = Checkpoint(@, "lastfm_error")]
    /\ UNCHANGED <<row, older, store, queued, faults>>

(* `attempts` is what defer will write.                                    *)
DeferOrGiveUp(w, attempts) ==
    wk' = [wk EXCEPT ![w] =
              Checkpoint([@ EXCEPT !.attempts = attempts],
                         IF attempts >= MaxAttempts THEN "lastfm_unavailable" ELSE "defer")]

RateLimited(w) ==
    /\ Requesting(w)
    /\ DeferOrGiveUp(w, wk[w].attempts)
    /\ UNCHANGED <<row, older, store, queued, faults>>

Transient(w) ==
    /\ Requesting(w)
    /\ DeferOrGiveUp(w, wk[w].attempts + 1)
    /\ UNCHANGED <<row, older, store, queued, faults>>

-----------------------------------------------------------------------------
(* checkpoint: read the pending range, queue it twice, clear it.           *)
AfterCheckpoint(l) ==
    CASE l.then = "lost"      -> Idle
      [] l.then = "walk"      -> [l EXCEPT !.pc = "fetch", !.range = {}, !.then = "lost"]
      [] l.then = "leftovers" -> [l EXCEPT !.pc = "leftovers", !.range = {}]
      [] OTHER                -> [l EXCEPT !.pc = "settle", !.range = {}]

ReadPending(w) ==
    LET range == row[wk[w].job].pending
    IN  /\ wk[w].pc = "read"
        /\ wk' = [wk EXCEPT ![w] = IF range = {} THEN AfterCheckpoint(@)
                                   ELSE [@ EXCEPT !.pc = "classify", !.range = range]]
        /\ UNCHANGED <<row, older, store, queued, faults>>

(* Stored plays of the job's user in the range read.                       *)
InRange(w) == LET u == UserOf[wk[w].job]
              IN  {p \in Plays : store[u][p] # Absent /\ TimeOf[p] \in wk[w].range}

(* enqueue_scrobble_classification: the user's days in the range.          *)
QueueClassification(w) ==
    LET u == UserOf[wk[w].job]
    IN  /\ wk[w].pc = "classify"
        /\ queued' = [queued EXCEPT !["classifier"] = @ \cup ({u} \X InRange(w))]
        /\ wk' = [wk EXCEPT ![w].pc = "enrich"]
        /\ UNCHANGED <<row, older, store, faults>>

(* enqueue_enrichment: what this import inserted in the range.             *)
QueueEnrichment(w) ==
    LET u == UserOf[wk[w].job]
    IN  /\ wk[w].pc = "enrich"
        /\ queued' = [queued EXCEPT !["enrichment"] =
                         @ \cup ({u} \X {p \in InRange(w) : store[u][p] = wk[w].job})]
        /\ wk' = [wk EXCEPT ![w].pc = "clear"]
        /\ UNCHANGED <<row, older, store, faults>>

(* Variant: clear_pending without comparing the range.                     *)
ClearAnyPending(w) ==
    LET j == wk[w].job
    IN  /\ wk[w].pc = "clear"
        /\ row' = [row EXCEPT ![j].pending = {}]
        /\ Touch(j)
        /\ wk' = [wk EXCEPT ![w] = AfterCheckpoint(@)]
        /\ UNCHANGED <<store, queued, faults>>

(* clear_pending: only if the range is still the one that was read.        *)
ClearPending(w) ==
    LET j == wk[w].job
    IN  /\ wk[w].pc = "clear"
        /\ \/ row[j].pending = wk[w].range
              /\ row' = [row EXCEPT ![j].pending = {}] /\ Touch(j)
           \/ row[j].pending # wk[w].range /\ UNCHANGED <<row, older>>
        /\ wk' = [wk EXCEPT ![w] = AfterCheckpoint(@)]
        /\ UNCHANGED <<store, queued, faults>>

(* A database error inside a checkpoint is logged and the caller goes on.  *)
CheckpointError(w) ==
    /\ wk[w].pc \in {"read", "classify", "enrich", "clear"}
    /\ faults < MaxFaults /\ faults' = faults + 1
    /\ wk' = [wk EXCEPT ![w] = AfterCheckpoint(@)]
    /\ UNCHANGED <<row, older, store, queued>>

-----------------------------------------------------------------------------
(* The statement after the checkpoint: all give the lease back and match   *)
(* on its token alone.                                                     *)
Settle(w, settled) ==
    /\ wk[w].pc = "settle"
    /\ \/ Holds(w) /\ row' = [row EXCEPT ![wk[w].job] = Unlease(settled)] /\ Touch(wk[w].job)
       \/ ~Holds(w) /\ UNCHANGED <<row, older>>
    /\ wk' = [wk EXCEPT ![w] = Idle]
    /\ UNCHANGED <<store, queued, faults>>

Finish(w) ==
    /\ wk[w].then = "done"
    /\ Settle(w, [row[wk[w].job] EXCEPT !.status = "done", !.code = "none"])

Fail(w) ==
    /\ wk[w].then \in Failures
    /\ Settle(w, [row[wk[w].job] EXCEPT !.status = "failed", !.code = wk[w].then])

Defer(w) ==
    /\ wk[w].then = "defer"
    /\ Settle(w, [row[wk[w].job] EXCEPT !.attempts = wk[w].attempts, !.due = FALSE])

Release(w) ==
    /\ wk[w].then = "release"
    /\ Settle(w, row[wk[w].job])

-----------------------------------------------------------------------------
(* Variant: leftovers of cancelled jobs are forgotten.                     *)
LeftoverOfFinished == {j \in Jobs : row[j].status \in {"done", "failed"} /\ row[j].pending # {}}

(* The daemon found nothing to claim: it runs the checkpoints of ended     *)
(* jobs that never completed (unfinished_checkpoints), then sleeps.        *)
Leftover == {j \in Jobs : row[j].status \in Ended /\ row[j].pending # {}}

ReadLeftovers(w) ==
    /\ wk[w].pc = "idle"
    /\ \A j \in Jobs : ~Claimable(j)
    /\ wk' = [wk EXCEPT ![w] = IF Leftover = {} THEN Idle
                               ELSE [Idle EXCEPT !.pc = "leftovers", !.todo = Leftover]]
    /\ UNCHANGED <<row, older, store, queued, faults>>

NextLeftover(w) ==
    /\ wk[w].pc = "leftovers"
    /\ \/ /\ wk[w].todo = {}
          /\ wk' = [wk EXCEPT ![w] = Idle]
       \/ \E j \in wk[w].todo :
            wk' = [wk EXCEPT ![w] =
                      Checkpoint([wk[w] EXCEPT !.job = j, !.todo = @ \ {j}], "leftovers")]
    /\ UNCHANGED <<row, older, store, queued, faults>>

-----------------------------------------------------------------------------
(* Time, failures and the operator.                                        *)
Busy(w) == wk[w].pc # "idle"

BecomesDue(j) ==
    /\ ~row[j].due
    /\ row' = [row EXCEPT ![j].due = TRUE]
    /\ UNCHANGED <<older, store, queued, wk, faults>>

Attended(j) == \E w \in Workers : row[j].token = w /\ wk[w].job = j

(* Variant: the lease of a dead process never runs out.                    *)
LeaseStays(j) ==
    /\ row[j].leased /\ ~Attended(j) /\ row[j].status = "pending"
    /\ row' = [row EXCEPT ![j].leased = FALSE]
    /\ UNCHANGED <<older, store, queued, wk, faults>>

(* A lease outlives a dead process by LEASE_SECS.                          *)
LeaseExpires(j) ==
    /\ row[j].leased /\ ~Attended(j)
    /\ row' = [row EXCEPT ![j].leased = FALSE]
    /\ UNCHANGED <<older, store, queued, wk, faults>>

(* A lease runs out on a process that is still at work, only slow.         *)
LeaseOutrun(j) ==
    /\ row[j].leased /\ Attended(j)
    /\ faults < MaxFaults /\ faults' = faults + 1
    /\ row' = [row EXCEPT ![j].leased = FALSE]
    /\ UNCHANGED <<older, store, queued, wk>>

(* The process dies, or a statement fails and the slice is given up: its   *)
(* memory is gone and its lease stays.                                     *)
Crash(w) ==
    /\ Busy(w)
    /\ faults < MaxFaults /\ faults' = faults + 1
    /\ wk' = [wk EXCEPT ![w] = Idle]
    /\ UNCHANGED <<row, older, store, queued>>

(* Ctrl-C on the command line: drops the slice and gives the lease back.   *)
Interrupt(w) ==
    LET j == wk[w].job
    IN  /\ Busy(w)
        /\ faults < MaxFaults /\ faults' = faults + 1
        /\ \/ Holds(w) /\ row' = [row EXCEPT ![j] = Unlease(@)] /\ Touch(j)
           \/ ~Holds(w) /\ UNCHANGED <<row, older>>
        /\ wk' = [wk EXCEPT ![w] = Idle]
        /\ UNCHANGED <<store, queued>>

-----------------------------------------------------------------------------
(* What a process does by itself once it has a job.                        *)
Work(w) ==
    \/ LovesRecorded(w) \/ LovesLost(w) \/ LovesSkipped(w)
    \/ SliceOver(w) \/ CapReached(w) \/ PageRecorded(w) \/ PageLost(w)
    \/ Refused(w) \/ RateLimited(w) \/ Transient(w)
    \/ ReadPending(w) \/ QueueClassification(w) \/ QueueEnrichment(w) \/ ClearPending(w)
    \/ Finish(w) \/ Fail(w) \/ Defer(w) \/ Release(w)

DaemonStep(w) == Work(w) \/ ClaimNext(w) \/ ReadLeftovers(w) \/ NextLeftover(w)

Next ==
    \/ \E j \in Jobs : \/ Create(j) \/ Cancel(j)
                       \/ BecomesDue(j) \/ LeaseExpires(j) \/ LeaseOutrun(j)
    \/ \E w \in Daemons : DaemonStep(w)
    \/ \E w \in Clis : Work(w) \/ Claim(w) \/ Interrupt(w)
    \/ \E w \in Workers : CheckpointError(w) \/ Crash(w)

Spec == Init /\ [][Next]_vars

(* Processes are scheduled and the clock runs; nobody has to create,       *)
(* cancel, interrupt or fail.                                              *)
Fairness ==
    /\ \A w \in Daemons : WF_vars(DaemonStep(w))
    /\ \A w \in Clis : WF_vars(Work(w))
    /\ \A j \in Jobs : WF_vars(BecomesDue(j)) /\ WF_vars(LeaseExpires(j))

FairSpec == Spec /\ Fairness

-----------------------------------------------------------------------------
(***************************************************************************)
(* Properties                                                              *)
(***************************************************************************)
TypeOK ==
    /\ row \in [Jobs -> Row]
    /\ older \in SUBSET (Jobs \X Jobs)
    /\ store \in [Users -> [Plays -> {Absent, Live} \cup Jobs]]
    /\ queued \in [Consumers -> SUBSET (Users \X Plays)]
    /\ wk \in [Workers -> Local]
    /\ faults \in Nat

(* Still reads the copied row.                                             *)
Walks(w) == wk[w].pc = "fetch" \/ wk[w].then = "walk"

(* A process that still holds the lease has an exact copy of the job's     *)
(* cursors and counter, whatever other processes did in between, and the   *)
(* job is running: only then may the unguarded statements of a slice       *)
(* (finish, fail, defer, release match on the token alone) be applied.     *)
HolderInStep ==
    \A w \in Workers : \A j \in Jobs :
        wk[w].job = j /\ row[j].token = w =>
            /\ row[j].status = "running"
            /\ Walks(w) => /\ row[j].page = wk[w].page
                           /\ row[j].imported = wk[w].imported
                           /\ row[j].lovedPage = wk[w].lovedPage
                           /\ row[j].lovedDone = wk[w].lovedDone

(* An import reported as done has stored the whole history, across         *)
(* crashes, takeovers, deferrals and slices.                               *)
CompleteWhenDone ==
    \A j \in Jobs : row[j].status = "done" =>
        \A p \in Plays : store[UserOf[j]][p] # Absent

(* A newer page, which this job imported too, ends in the same second.     *)
Tied(j, p) ==
    \E q \in Plays :
        /\ store[UserOf[j]][q] = j
        /\ PageOf[q] < PageOf[p] /\ TimeOf[q] = TimeOf[p]

(* An imported play was queued for the classifier and for enrichment after *)
(* it was stored, or it is in its job's pending range, so a later          *)
(* checkpoint will queue it, however many processes run checkpoints of the *)
(* job beside each other.  One exception: clear_pending takes the range    *)
(* for unchanged by its two ends, so a play stored during the checkpoint   *)
(* of a process that was overtaken is forgotten if it leaves them as they  *)
(* were.  It is then of the second in which a newer page of the job ended. *)
HandedOver ==
    \A u \in Users, p \in Plays : store[u][p] \in Jobs =>
        \/ TimeOf[p] \in row[store[u][p]].pending
        \/ \A c \in Consumers : <<u, p>> \in queued[c]
        \/ Tied(store[u][p], p)

(* The progress shown for a job, and summed for the cap, is the number of  *)
(* plays it stored.                                                        *)
Counted ==
    \A j \in Jobs :
        row[j].imported = Cardinality({p \in Plays : store[UserOf[j]][p] = j})

PageSize(n) == Cardinality({p \in Plays : PageOf[p] = n})
ImportedPlays(u) == {p \in Plays : store[u][p] \in Jobs}

(* All of a user's imports together pass the cap by less than one page.    *)
CapHolds ==
    \A u \in Users : ImportedPlays(u) # {} =>
        \E n \in 1..Pages : Cardinality(ImportedPlays(u)) < MaxScrobbles + PageSize(n)

(* The stored cursor never moves back, even when a process that lost its   *)
(* lease answers late.                                                     *)
CursorForward ==
    [][\A j \in Jobs : row'[j].page >= row[j].page /\ row'[j].lovedPage >= row[j].lovedPage]_vars

(* A done, failed or cancelled import stays so, and stores nothing more.   *)
EndedStays ==
    [][\A j \in Jobs : row[j].status \in Ended =>
         /\ row'[j].status = row[j].status
         /\ \A p \in Plays : store'[UserOf[j]][p] = j => store[UserOf[j]][p] = j]_vars

(* Once Last.fm stops rate limiting, every import ends.                    *)
ImportsEnd ==
    <>[][\A w \in Workers : ~RateLimited(w)]_vars =>
        \A j \in Jobs : row[j].status = "pending" ~> row[j].status \in Ended

(* ... and what an ended import left pending is handed over.               *)
LeftoversHanded ==
    <>[][\A w \in Workers : ~RateLimited(w)]_vars =>
        \A j \in Jobs : row[j].status \in Ended ~> row[j].pending = {}

(* A requested import gets its turn, however long another one is being     *)
(* rate limited, retried or interrupted.                                   *)
EveryImportGetsItsTurn ==
    \A j \in Jobs : row[j].status = "pending" ~> row[j].status # "pending"

(* Workers, leases, slices, retries and checkpoints implement the promise  *)
(* of the API: jobs end once, store only what is missing and only while    *)
(* they run, and are done only when the whole history is stored.           *)
Contract == INSTANCE ImportContract WITH status <- [j \in Jobs |-> row[j].status]

(* Every behaviour of ImportJobs is one ImportContract allows.             *)
KeepsContract == Contract!Spec
=============================================================================
