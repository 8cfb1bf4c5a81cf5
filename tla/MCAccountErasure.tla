-------------------------- MODULE MCAccountErasure --------------------------
(* One ranking, over a day or two.                                         *)
EXTENDS AccountErasure

TwoDays == {1, 2}
OneDay == {1}
YearOfTwo == [p \in {"year"} |-> TwoDays]
YearOfOne == [p \in {"year"} |-> OneDay]
=============================================================================
