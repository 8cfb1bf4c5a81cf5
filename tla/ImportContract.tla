--------------------------- MODULE ImportContract ---------------------------
(***************************************************************************)
(* What the import API promises of a job, whatever the workers do: it is   *)
(* requested, it runs, it stores plays that were missing, and it ends      *)
(* once.  It is done only when nothing of the history is missing.          *)
(***************************************************************************)
CONSTANTS Jobs, Users, UserOf, Plays, Absent, LivePlays, Live

VARIABLES
    status,   \* job -> its reported status
    store     \* user -> play -> Absent, Live, or the job that stored it

Missing(u) == {p \in Plays : store[u][p] = Absent}

Init ==
    /\ status = [j \in Jobs |-> "none"]
    /\ \E live \in [Users -> LivePlays] :
          store = [u \in Users |-> [p \in Plays |-> IF p \in live[u] THEN Live ELSE Absent]]

Request(j) ==
    /\ status[j] = "none"
    /\ \A k \in Jobs : UserOf[k] = UserOf[j] => status[k] \notin {"pending", "running"}
    /\ status' = [status EXCEPT ![j] = "pending"]
    /\ UNCHANGED store

Begin(j) ==
    /\ status[j] = "pending"
    /\ status' = [status EXCEPT ![j] = "running"]
    /\ UNCHANGED store

Import(j) ==
    LET u == UserOf[j]
    IN  /\ status[j] = "running"
        /\ \E plays \in SUBSET Missing(u) :
              store' = [store EXCEPT ![u] = [p \in Plays |-> IF p \in plays THEN j ELSE @[p]]]
        /\ UNCHANGED status

Complete(j) ==
    /\ status[j] = "running" /\ Missing(UserOf[j]) = {}
    /\ status' = [status EXCEPT ![j] = "done"]
    /\ UNCHANGED store

GiveUp(j) ==
    /\ status[j] = "running"
    /\ status' = [status EXCEPT ![j] = "failed"]
    /\ UNCHANGED store

Cancel(j) ==
    /\ status[j] \in {"pending", "running"}
    /\ status' = [status EXCEPT ![j] = "cancelled"]
    /\ UNCHANGED store

Next == \E j \in Jobs : \/ Request(j) \/ Begin(j) \/ Import(j)
                        \/ Complete(j) \/ GiveUp(j) \/ Cancel(j)

Spec == Init /\ [][Next]_<<status, store>>
=============================================================================
