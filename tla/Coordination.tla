---------------------------- MODULE Coordination ----------------------------
(* The detection's runs: when the worker runs one, what a run stores, and    *)
(* who else stores or removes factors meanwhile (the operator's `rank        *)
(* detect`, a worker restarted with other settings, an erased account).      *)
(* What a detection finds is any verdict on the accounts that weighed      *)
(* something; Detection says which.                                          *)
EXTENDS Integers, FiniteSets, FiniteSetsExt

CONSTANTS
    Suspects,         \* accounts
    WindowDays,       \* days of a run's window
    MaxDay, MaxDetections, MaxSetups   \* bounds: days, runs stored, settings changed

ASSUME CoordinationConstants == WindowDays \in Nat /\ MaxDay \in Nat \ {0}

FULL_FACTOR == 2      \* an unflagged account's factor
NoRow == [factor |-> FULL_FACTOR, run |-> 0]
Operator == "operator"
Detectors == {"worker", Operator}

VARIABLES
    today,
    weighedDays, \* weighedDays[u]: the days of ranking_days
    days,        \* days[u][d]: the row of coordination_days, or NoRow
    runs,        \* coordination_runs: records [id, mode, to, old]
    nextRun,
    setup,       \* the worker's RANKING_COORDINATION: off, report or apply
    running,     \* running[p]: what p has loaded and detected, or NotDetecting
    erased,
    told,        \* accounts whose voted tracks are queued
    setups       \* settings changed so far

coordinationVars == <<today, weighedDays, days, runs, nextRun, setup, running, erased, told,
                      setups>>

NotDetecting == [at |-> "idle", mode |-> "off", to |-> 0, verdict |-> <<>>, old |-> FALSE]
AllDays == 1 .. MaxDay
WindowTo(to) == {d \in AllDays : d \in to - WindowDays + 1 .. to}

CoordinationInit ==
    /\ today = 1
    /\ weighedDays = [u \in Suspects |-> {}]
    /\ days = [u \in Suspects |-> [d \in AllDays |-> NoRow]]
    /\ runs = {} /\ nextRun = 1
    /\ setup \in {"off", "report", "apply"}
    /\ running = [p \in Detectors |-> NotDetecting]
    /\ erased = {} /\ told = {} /\ setups = 0

LatestRun == IF runs = {} THEN 0 ELSE Max({r.id : r \in runs})
RunOf(id) == CHOOSE r \in runs : r.id = id

\* An account's lowest factor over a set of days.
Lowest(u, when) == Min({FULL_FACTOR} \cup {days[u][d].factor : d \in when})

-----------------------------------------------------------------------------
\* Rankings weigh a day of an account that has plays in it.
WeighDay(u) ==
    /\ u \notin erased /\ today \notin weighedDays[u]
    /\ weighedDays' = [weighedDays EXCEPT ![u] = @ \cup {today}]
    /\ UNCHANGED <<today, days, runs, nextRun, setup, running, erased, told, setups>>

NextDayComes ==
    /\ today < MaxDay
    /\ today' = today + 1
    /\ UNCHANGED <<weighedDays, days, runs, nextRun, setup, running, erased, told, setups>>

\* INTERVAL has passed since every run so far started, and since every
\* running one did.
IntervalPasses ==
    /\ \/ \E r \in runs : ~r.old
       \/ \E p \in Detectors : running[p].at # "idle" /\ ~running[p].old
    /\ runs' = {[r EXCEPT !.old = TRUE] : r \in runs}
    /\ running' = [p \in Detectors |->
                      IF running[p].at = "idle" THEN running[p]
                      ELSE [running[p] EXCEPT !.old = TRUE]]
    /\ UNCHANGED <<today, weighedDays, days, nextRun, setup, erased, told, setups>>

\* due(..): none yet, other params, another UTC day, or INTERVAL ago.
RunDue == ~\E r \in runs : r.id = LatestRun /\ r.mode = setup /\ r.to = today /\ ~r.old

\* load and detect: the accounts active in the window, and a verdict on them.
LoadAndDetect(p, mode) ==
    /\ running[p].at = "idle"
    /\ nextRun + Cardinality({q \in Detectors : running[q].at # "idle"}) <= MaxDetections
    /\ \E verdict \in [{u \in Suspects : weighedDays[u] \cap WindowTo(today) # {}}
                          -> 0 .. FULL_FACTOR] :
          running' = [running EXCEPT ![p] = [at |-> "detected", mode |-> mode, to |-> today,
                                             verdict |-> verdict, old |-> FALSE]]
    /\ UNCHANGED <<today, weighedDays, days, runs, nextRun, setup, erased, told, setups>>

\* run_if_due, at a tick of the worker's loop, unless coordination is off.
WorkerRunsIfDue == setup # "off" /\ RunDue /\ LoadAndDetect("worker", setup)

\* `worker rank detect`, under the settings of the operator's shell.
OperatorRuns == \E mode \in {"report", "apply"} : LoadAndDetect(Operator, mode)

VerdictFlags(verdict) == {u \in DOMAIN verdict : verdict[u] < FULL_FACTOR}

\* Variant: only the accounts this run flags are compared and told.
ChangedOfFlagged(run) ==
    {u \in VerdictFlags(run.verdict) : Lowest(u, WindowTo(run.to)) # run.verdict[u]}

\* The accounts whose factor the run changes: in apply mode over the window's
\* days, in report mode over all of them.
ChangedBy(run) ==
    LET applied == run.mode = "apply"
        compared == IF applied THEN WindowTo(run.to) ELSE AllDays
        previous(u) == Lowest(u, compared)
        current(u) == IF applied /\ u \in VerdictFlags(run.verdict) THEN run.verdict[u]
                      ELSE FULL_FACTOR
    IN {u \in Suspects : previous(u) # current(u)}

\* The rows after the run: those of the window's days replaced by the flagged
\* accounts' weighed days; in report mode, none.
DaysAfter(run) ==
    [u \in Suspects |-> [d \in AllDays |->
        IF run.mode # "apply" THEN NoRow
        ELSE IF d \notin WindowTo(run.to) THEN days[u][d]
        ELSE IF u \in VerdictFlags(run.verdict) /\ d \in weighedDays[u]
             THEN [factor |-> run.verdict[u], run |-> nextRun] ELSE NoRow]]

\* store(..): one transaction under the advisory lock.
StoreRun(p) ==
    LET run == running[p] IN
    /\ run.at = "detected"
    /\ VerdictFlags(run.verdict) \cap erased = {}
    /\ runs' = runs \cup {[id |-> nextRun, mode |-> run.mode, to |-> run.to, old |-> run.old]}
    /\ nextRun' = nextRun + 1
    /\ told' = told \cup ChangedBy(run)
    /\ days' = DaysAfter(run)
    /\ running' = [running EXCEPT ![p] = NotDetecting]
    /\ UNCHANGED <<today, weighedDays, setup, erased, setups>>

\* A flagged account is gone: its row refers to nobody, and the run fails.
StoreFails(p) ==
    /\ running[p].at = "detected"
    /\ VerdictFlags(running[p].verdict) \cap erased # {}
    /\ running' = [running EXCEPT ![p] = NotDetecting]
    /\ UNCHANGED <<today, weighedDays, days, runs, nextRun, setup, erased, told, setups>>

\* The worker restarts with other settings: what it was doing is lost; off, it
\* removes every factor.
RestartWith(mode) ==
    /\ mode # setup /\ setups < MaxSetups
    /\ setups' = setups + 1
    /\ setup' = mode
    /\ running' = [running EXCEPT !["worker"] = NotDetecting]
    /\ IF mode = "off"
       THEN /\ told' = told \cup {u \in Suspects : Lowest(u, AllDays) < FULL_FACTOR}
            /\ days' = [u \in Suspects |-> [d \in AllDays |-> NoRow]]
       ELSE UNCHANGED <<told, days>>
    /\ UNCHANGED <<today, weighedDays, runs, nextRun, erased>>

\* purge_runs: old enough (a day ago here), except the latest.
PurgeRuns ==
    /\ \E r \in runs : r.to < today /\ r.id # LatestRun
    /\ runs' = {r \in runs : r.to >= today \/ r.id = LatestRun}
    /\ UNCHANGED <<today, weighedDays, days, nextRun, setup, running, erased, told, setups>>

\* An account is erased: its weighed days, its factors, itself; its voted
\* tracks are queued with it.
EraseSuspect(u) ==
    /\ u \notin erased
    /\ erased' = erased \cup {u}
    /\ weighedDays' = [weighedDays EXCEPT ![u] = {}]
    /\ days' = [days EXCEPT ![u] = [d \in AllDays |-> NoRow]]
    /\ told' = told \cup {u}
    /\ UNCHANGED <<today, runs, nextRun, setup, running, setups>>

\* The album worker decides what is queued.
AlbumsDecided ==
    /\ told # {} /\ told' = {}
    /\ UNCHANGED <<today, weighedDays, days, runs, nextRun, setup, running, erased, setups>>

CoordinationNext ==
    \/ \E u \in Suspects : WeighDay(u) \/ EraseSuspect(u)
    \/ NextDayComes \/ IntervalPasses
    \/ WorkerRunsIfDue \/ OperatorRuns
    \/ \E p \in Detectors : StoreRun(p) \/ StoreFails(p)
    \/ \E mode \in {"off", "report", "apply"} : RestartWith(mode)
    \/ PurgeRuns \/ AlbumsDecided

CoordinationSpec == CoordinationInit /\ [][CoordinationNext]_coordinationVars

-----------------------------------------------------------------------------
CoordinationTypeOK ==
    /\ today \in AllDays
    /\ weighedDays \in [Suspects -> SUBSET AllDays]
    /\ \A u \in Suspects, d \in AllDays :
          days[u][d].factor \in 0 .. FULL_FACTOR /\ days[u][d].run \in 0 .. nextRun - 1
    /\ \A r \in runs : r.id \in 1 .. nextRun - 1

\* The days album votes weigh an account's factor over: one more than a run's
\* window.
VotingDays == {d \in AllDays : d >= today - WindowDays}

\* A run that is stored later than the day after it loaded.
Overdue(p) == running[p].at = "detected" /\ running[p].to < today - 1

\* Album votes weigh by an account's lowest factor of the last days: a step
\* that stores or removes factors, a run's, a restart's or an erasure's, and
\* changes it queues the account's tracks in the same transaction, in
\* whichever order two runs over different days commit and when one began the
\* day before (coordination.rs, store, "has its tracks decided again"). Not one
\* that began earlier: it compares days that votes no longer weigh. Nor a day
\* that passes: the factor changes with it and no row does, so no track is
\* queued (AlbumVotes, FactorLapses).
FactorChangesAreTold ==
    \A u \in Suspects :
        Lowest(u, VotingDays) # Lowest(u, VotingDays)' /\ today' = today
        => u \in told' \/ \E p \in Detectors : Overdue(p) /\ StoreRun(p)

\* Rankings see either the previous factors or the new: all rows in the
\* window of the last run stored are of that run, every one an account it
\* flagged, and a report leaves none; and the last run outlives every purge,
\* so that the worker never takes the factors there for missing.
FactorsAreOfOneRun ==
    /\ nextRun > 1 => LatestRun = nextRun - 1
    /\ runs # {} =>
          LET last == RunOf(LatestRun) IN
          \A u \in Suspects :
             /\ \A d \in WindowTo(last.to) : days[u][d] # NoRow => days[u][d].run = last.id
             /\ last.mode = "report" => days[u] = [d \in AllDays |-> NoRow]
             /\ u \in erased => days[u] = [d \in AllDays |-> NoRow]

=============================================================================
