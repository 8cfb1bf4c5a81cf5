-------------------------------- MODULE Taste --------------------------------
(* Taste: the daily run that replaces every account's recommendations and   *)
(* taste neighbours, beside the accounts that change their setting, ask to  *)
(* be deleted, and are erased. A run reads its input in statements of its   *)
(* own, computes, and stores in one transaction; a change of setting is a   *)
(* transaction of up to four statements. Both delete rows the other deletes,*)
(* in another order.                                                        *)
EXTENDS Integers, FiniteSets

CONSTANTS
    Listeners,       \* accounts
    MaxRuns,         \* bound: runs begun
    MaxTasteChanges, \* bound: settings changed, deletions asked for, crashes
    StartWeighed,    \* the accounts with weights in the window at the start
    StartListed      \* the accounts listed at the start, the others anonymous

ASSUME TasteConstants ==
    /\ 0 \notin Listeners
    /\ MaxRuns \in Nat /\ MaxTasteChanges \in Nat
    /\ StartWeighed \subseteq Listeners

Modes == {"listed", "anonymous", "off"}
Tables == {"recommendations", "neighbours"}

VARIABLES
    mode,         \* users.similarity
    standing,     \* open, leaving (delete_after), erased
    weighed,      \* accounts with rows in ranking_daily and ranking_days
    latest,       \* the newest row of similarity_runs; id 0 before the first
    recommended,  \* accounts with a row in user_recommendations
    neighbours,   \* user_neighbours: <<user, neighbour>>
    run,          \* the run in progress
    change,       \* the transaction of set_setting in progress
    erasing,      \* per account: no, weighed or weightless once its weights are gone
    tasteChanges,
    overran,      \* history: <<account, run>>: its change overlapped that store
    unmarked      \* history: erased while counted by a run, or after a crash

tasteVars == <<mode, standing, weighed, latest, recommended, neighbours, run,
               change, erasing, tasteChanges, overran, unmarked>>

NoRun == [id |-> 0, counted |-> {}, invalidated |-> FALSE, old |-> FALSE]
NotRunning == [at |-> "idle", known |-> {}, listed |-> {}, counted |-> {}, served |-> {},
               dropped |-> {}, recommended |-> {}, neighbours |-> {}]
NoChange == [at |-> "idle", user |-> 0, to |-> "none", waits |-> FALSE,
             gone |-> {}, unrecommended |-> {}]

TasteInit ==
    /\ mode = [u \in Listeners |-> IF u \in StartListed THEN "listed" ELSE "anonymous"]
    /\ standing = [u \in Listeners |-> "open"]
    /\ weighed = StartWeighed
    /\ latest = NoRun
    /\ recommended = {} /\ neighbours = {}
    /\ run = NotRunning /\ change = NoChange
    /\ erasing = [u \in Listeners |-> "no"]
    /\ tasteChanges = 0
    /\ overran = {} /\ unmarked = {}

accounts == <<mode, standing, weighed>>
results == <<latest, recommended, neighbours>>

-----------------------------------------------------------------------------
(* The run: what it reads.                                                  *)

\* A run is due when there is none, or the last is a day old (or made with
\* other parameters), or counts an account erased since.
Due == latest.id = 0 \/ latest.old \/ latest.invalidated

\* load's first statement: the accounts that may count, and which are listed
ReadAccounts ==
    /\ run.at = "idle"
    /\ Due
    /\ latest.id < MaxRuns
    /\ run' = [NotRunning EXCEPT
          !.at = "accounts",
          !.known = {u \in Listeners : mode[u] # "off" /\ standing[u] = "open"},
          !.listed = {u \in Listeners : mode[u] = "listed" /\ standing[u] = "open"}]
    /\ UNCHANGED <<accounts, results, change, erasing, tasteChanges, overran, unmarked>>

\* its second: the weights, of the accounts it knows
ReadCredits ==
    /\ run.at = "accounts"
    /\ run' = [run EXCEPT !.at = "credits", !.counted = weighed \cap run.known]
    /\ UNCHANGED <<accounts, results, change, erasing, tasteChanges, overran, unmarked>>

\* its third: the histories of the accounts it knows. What compute makes of
\* them is any recommendations and any neighbours among them.
ReadHistories ==
    /\ run.at = "credits"
    /\ \E served \in SUBSET run.known :
          run' = [run EXCEPT !.at = "computed", !.served = served]
    /\ UNCHANGED <<accounts, results, change, erasing, tasteChanges, overran, unmarked>>

-----------------------------------------------------------------------------
(* The run: how it stores. Rows a transaction has deleted and not committed *)
(* stop another's DELETE of them; what it inserted nobody sees.             *)

MayBeServed(u) == mode[u] # "off" /\ standing[u] = "open"
MayBeNamed(u) == mode[u] = "listed" /\ standing[u] = "open"

\* Variant: the INSERT takes the accounts as the run read them.
RecommendedAsRead == run.served
\* store_recommendations' JOIN users: the accounts as they are now
RecommendedNow == {u \in run.served : MayBeServed(u)}

NeighboursNow ==
    {p \in run.served \X run.listed : p[1] # p[2] /\ MayBeServed(p[1]) /\ MayBeNamed(p[2])}

Storing == run.at \in {"recommendations", "neighbours"}
Overlapping == IF change.at = "idle" THEN {} ELSE {<<change.user, latest.id + 1>>}

\* store_recommendations waits for rows a change has deleted.
StoreRecommendations ==
    /\ run.at = "computed"
    /\ change.unrecommended = {}
    /\ run' = [run EXCEPT !.at = "recommendations",
                          !.dropped = IF recommended = {} THEN {} ELSE {"recommendations"},
                          !.recommended = RecommendedNow]
    /\ overran' = overran \cup Overlapping
    /\ UNCHANGED <<accounts, results, change, erasing, tasteChanges, unmarked>>

\* store_neighbours
StoreNeighbours ==
    /\ run.at = "recommendations"
    /\ change.gone = {}
    /\ run' = [run EXCEPT !.at = "neighbours",
                          !.dropped = @ \cup (IF neighbours = {} THEN {} ELSE {"neighbours"}),
                          !.neighbours = NeighboursNow]
    /\ UNCHANGED <<accounts, results, change, erasing, tasteChanges, overran, unmarked>>

\* The statement of set_setting after this one.
NextStatement(c) == CASE c.at = "named" /\ c.to = "off" -> "own"
                  [] c.at = "own" -> "recommended"
                  [] OTHER -> "done"

\* The run's row and its rows become visible. A DELETE that waited passes over
\* what the store deleted, and does not see what it inserted.
CommitRun ==
    /\ run.at = "neighbours"
    /\ latest' = [NoRun EXCEPT !.id = latest.id + 1, !.counted = run.counted]
    /\ recommended' = run.recommended
    /\ neighbours' = run.neighbours
    /\ run' = NotRunning
    /\ change' = IF change.waits
                 THEN [change EXCEPT !.waits = FALSE, !.at = NextStatement(change)] ELSE change
    /\ UNCHANGED <<accounts, erasing, tasteChanges, overran, unmarked>>

\* The results stay, and the DELETE that waited goes on.
RollBackRun ==
    /\ run' = NotRunning
    /\ change' = [change EXCEPT !.waits = FALSE]
    /\ overran' = {o \in overran : o[2] # latest.id + 1}

\* A failed run is retried.
RunFails ==
    /\ run.at # "idle"
    /\ tasteChanges < MaxTasteChanges
    /\ tasteChanges' = tasteChanges + 1
    /\ RollBackRun
    /\ UNCHANGED <<accounts, results, erasing, unmarked>>

RunAges ==
    /\ latest.id # 0 /\ ~latest.old
    /\ latest' = [latest EXCEPT !.old = TRUE]
    /\ UNCHANGED <<accounts, recommended, neighbours, run, change, erasing, tasteChanges,
                   overran, unmarked>>

-----------------------------------------------------------------------------
(* set_setting: UPDATE users, then DELETE the rows it no longer allows.     *)

BeginChange(u, m) ==
    /\ change.at = "idle"
    /\ standing[u] # "erased"
    /\ mode[u] # m
    /\ tasteChanges < MaxTasteChanges
    /\ tasteChanges' = tasteChanges + 1
    /\ change' = [NoChange EXCEPT !.at = IF m = "listed" THEN "done" ELSE "named",
                                  !.user = u, !.to = m]
    /\ overran' = IF Storing THEN overran \cup {<<u, latest.id + 1>>} ELSE overran
    /\ UNCHANGED <<accounts, results, run, erasing, unmarked>>

\* A DELETE of rows of a table waits if the store has deleted some of them.
Delete(table, rows, deleted) ==
    /\ ~change.waits
    /\ change' = IF rows # {} /\ table \in run.dropped
                 THEN [change EXCEPT !.waits = TRUE]
                 ELSE [deleted EXCEPT !.at = NextStatement(change)]
    /\ UNCHANGED <<accounts, results, run, erasing, tasteChanges, overran, unmarked>>

NamingOwner == {p \in neighbours : p[2] = change.user}
NamedForOwner == {p \in neighbours : p[1] = change.user}

DeleteNaming ==
    /\ change.at = "named"
    /\ Delete("neighbours", NamingOwner, [change EXCEPT !.gone = NamingOwner])

DeleteOwn ==
    /\ change.at = "own"
    /\ Delete("neighbours", NamedForOwner, [change EXCEPT !.gone = @ \cup NamedForOwner])

DeleteRecommended ==
    /\ change.at = "recommended"
    /\ LET own == recommended \cap {change.user} IN
       Delete("recommendations", own, [change EXCEPT !.unrecommended = own])

CommitChange ==
    /\ change.at = "done"
    /\ mode' = [mode EXCEPT ![change.user] = change.to]
    /\ neighbours' = neighbours \ change.gone
    /\ recommended' = recommended \ change.unrecommended
    /\ change' = NoChange
    /\ UNCHANGED <<standing, weighed, latest, run, erasing, tasteChanges, overran, unmarked>>

\* The change waits for the store's rows and the store for the change's: the
\* database gives one of them up.
BreakDeadlock ==
    /\ change.waits
    /\ run.at = "recommendations" /\ change.gone # {}
    /\ \/ RollBackRun
       \/ change' = NoChange /\ UNCHANGED <<run, overran>>
    /\ UNCHANGED <<accounts, results, erasing, tasteChanges, unmarked>>

-----------------------------------------------------------------------------
(* Accounts that leave.                                                     *)

Leave(u) ==
    /\ standing[u] = "open"
    /\ tasteChanges < MaxTasteChanges
    /\ tasteChanges' = tasteChanges + 1
    /\ standing' = [standing EXCEPT ![u] = "leaving"]
    /\ UNCHANGED <<mode, weighed, results, run, change, erasing, overran, unmarked>>

Return(u) ==
    /\ standing[u] = "leaving" /\ erasing[u] = "no"
    /\ standing' = [standing EXCEPT ![u] = "open"]
    /\ UNCHANGED <<mode, weighed, results, run, change, erasing, tasteChanges, overran, unmarked>>

\* erase deletes the weights, and remembers whether there were any.
EraseWeights(u) ==
    /\ standing[u] = "leaving"
    /\ erasing[u] = "no"
    /\ weighed' = weighed \ {u}
    /\ erasing' = [erasing EXCEPT ![u] = IF u \in weighed THEN "weighed" ELSE "weightless"]
    /\ UNCHANGED <<mode, standing, results, run, change, tasteChanges, overran, unmarked>>

\* A crash: the erasure begun again finds no weights.
EraseAgain(u) ==
    /\ erasing[u] = "weighed"
    /\ tasteChanges < MaxTasteChanges
    /\ tasteChanges' = tasteChanges + 1
    /\ erasing' = [erasing EXCEPT ![u] = "weightless"]
    /\ unmarked' = unmarked \cup {u}
    /\ UNCHANGED <<accounts, results, run, change, overran>>

\* delete_user_row's mark on the newest run, if there were weights
MarkLatest(had) == IF had THEN [latest EXCEPT !.invalidated = latest.id # 0] ELSE latest

\* delete_user_row: the rows that refer to the account go with it; it waits
\* for transactions that hold some of them, which a store in progress is taken
\* to do.
EraseRow(u) ==
    /\ erasing[u] # "no" /\ standing[u] = "leaving"
    /\ ~Storing
    /\ change.user # u /\ change.at = "idle"
    /\ standing' = [standing EXCEPT ![u] = "erased"]
    /\ latest' = MarkLatest(erasing[u] = "weighed")
    /\ recommended' = recommended \ {u}
    /\ neighbours' = {p \in neighbours : u \notin {p[1], p[2]}}
    /\ unmarked' = IF u \in run.counted THEN unmarked \cup {u} ELSE unmarked
    /\ UNCHANGED <<mode, weighed, run, change, erasing, tasteChanges, overran>>

-----------------------------------------------------------------------------
TasteNext ==
    \/ ReadAccounts \/ ReadCredits \/ ReadHistories
    \/ StoreRecommendations \/ StoreNeighbours \/ CommitRun \/ RunFails \/ RunAges
    \/ \E u \in Listeners, m \in Modes : BeginChange(u, m)
    \/ DeleteNaming \/ DeleteOwn \/ DeleteRecommended \/ CommitChange \/ BreakDeadlock
    \/ \E u \in Listeners : Leave(u) \/ Return(u) \/ EraseWeights(u) \/ EraseAgain(u) \/ EraseRow(u)

TasteSpec == TasteInit /\ [][TasteNext]_tasteVars

RunRecords == [id : 0 .. MaxRuns, counted : SUBSET Listeners, invalidated : BOOLEAN,
               old : BOOLEAN]
RunStates ==
    [at : {"idle", "accounts", "credits", "computed", "recommendations", "neighbours"},
     known : SUBSET Listeners, listed : SUBSET Listeners, counted : SUBSET Listeners,
     served : SUBSET Listeners, dropped : SUBSET Tables, recommended : SUBSET Listeners,
     neighbours : SUBSET (Listeners \X Listeners)]
ChangeStates ==
    [at : {"idle", "named", "own", "recommended", "done"}, user : Listeners \cup {0},
     to : Modes \cup {"none"}, waits : BOOLEAN, gone : SUBSET (Listeners \X Listeners),
     unrecommended : SUBSET Listeners]

TasteTypeOK ==
    /\ mode \in [Listeners -> Modes]
    /\ standing \in [Listeners -> {"open", "leaving", "erased"}]
    /\ weighed \subseteq Listeners
    /\ latest \in RunRecords
    /\ recommended \subseteq Listeners
    /\ neighbours \subseteq Listeners \X Listeners
    /\ run \in RunStates
    /\ change \in ChangeStates
    /\ erasing \in [Listeners -> {"no", "weighed", "weightless"}]
    /\ tasteChanges \in 0 .. MaxTasteChanges

\* An account that turned similarity off has no recommendations, no neighbours
\* and no place in others', and an anonymous one no place, also when a run that
\* read it before its change stored after it: the INSERTs of store look again
\* (similarity.rs, store). Left out is a change that overlapped the store's
\* transaction, whose rows stay until the next run and which readers filter.
OptedOutIsGone ==
    \A u \in Listeners :
        \/ <<u, latest.id>> \in overran
        \/ /\ mode[u] = "off" => /\ u \notin recommended
                                 /\ \A p \in neighbours : p[1] # u
           /\ mode[u] # "listed" => \A p \in neighbours : p[2] # u

\* An account erased while the newest run counts it makes the next run due
\* (accounts.rs, delete_user_row; migrations/0033, invalidated). Left out are an
\* erasure begun again after its weights were gone, which finds nothing to mark
\* for, and a run that had read the account and had not stored yet.
ErasedAreRecounted ==
    \A u \in latest.counted : standing[u] = "erased" => u \in unmarked \/ Due

\* Types; who opted out is in no stored result, and an erased account is
\* counted again out of it (similarity.rs, store; accounts.rs).
TasteHolds == TasteTypeOK /\ OptedOutIsGone /\ ErasedAreRecounted

=============================================================================
