---------------------------- MODULE MCImportJobs ----------------------------
(* Small instances of ImportJobs: who imports, and histories of a few plays. *)
EXTENDS ImportJobs, TLC

CONSTANTS u1, u2, j1, j2, d1, d2, c1

OneUser == [j \in Jobs |-> u1]
TwoUsers == (j1 :> u1) @@ (j2 :> u2)

(* Play 1 is the newest.  Two plays, a page each.                          *)
TwoPlays == 1..2
TwoTimes == <<9, 8>>
TwoPages == <<1, 2>>

(* Three plays, a page each, the first two of one second.                  *)
ThreePlays == 1..3
ThreeTimes == <<9, 9, 8>>
ThreePages == <<1, 2, 3>>

NoneLive == {{}}
NewestLive == {{}, {1}}
=============================================================================
