--------------------------- MODULE ImportRetries ----------------------------
(***************************************************************************)
(* ImportJobs with a history variable: how many fetches of a job in a row  *)
(* failed transiently, which is what `attempts` is documented to count.    *)
(***************************************************************************)
EXTENDS MCImportJobs

VARIABLE streak

Succeeded(j) == \E w \in Workers : wk[w].job = j /\ (PageRecorded(w) \/ LovesRecorded(w))
Failed(j) == \E w \in Workers : wk[w].job = j /\ Holds(w) /\ Transient(w)

RetriesInit == Init /\ streak = [j \in Jobs |-> 0]

RetriesNext ==
    /\ Next
    /\ streak' = [j \in Jobs |->
                     IF Succeeded(j) THEN 0
                     ELSE IF Failed(j) /\ streak[j] < MaxAttempts THEN streak[j] + 1
                     ELSE streak[j]]

RetriesSpec == RetriesInit /\ [][RetriesNext]_<<vars, streak>>

(* "Consecutive transient failures (about four hours of backoff) before    *)
(* the job fails": a job gives up on Last.fm only after MaxAttempts        *)
(* transient failures with no page recorded between them.                  *)
GivesUpAfterConsecutiveFailures ==
    \A j \in Jobs : row[j].code = "lastfm_unavailable" => streak[j] >= MaxAttempts
=============================================================================
