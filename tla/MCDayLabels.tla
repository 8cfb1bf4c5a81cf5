---------------------------- MODULE MCDayLabels ----------------------------
(* A worker that may restart, over two scrobbles, of one day or of           *)
(* neighbouring days.                                                        *)
EXTENDS DayLabels

TwoPlays == {"late", "next"}
NextDay == [p \in TwoPlays |-> IF p = "next" THEN 2 ELSE 1]
OneDay == [p \in TwoPlays |-> 1]
Late == {"late"}

(* Any two of three scrobbles, two of them of the second day, and a command  *)
(* only beside those two.                                                    *)
ThreePlays == TwoPlays \cup {"again"}
TwoDays == [p \in ThreePlays |-> IF p = "late" THEN 1 ELSE 2]
TwoScrobbled ==
    /\ Cardinality({p \in ThreePlays : stage[p] # "new"}) <= 2
    /\ commands > 0 => stage["late"] = "new"
=============================================================================
