------------------------------ MODULE KeptPages ------------------------------
(* The pages that are kept to be shown again, each with what tells that it  *)
(* may be: a user's own charts under the version of their plays, the chart  *)
(* of the accounts a viewer follows under those accounts, and the page of   *)
(* recommendations a client holds under its tag.  They share no state that  *)
(* the three modules keep.                                                  *)
EXTENDS ChartPages, CommunityCharts, TastePage

\* A page that was kept tells the truth: a personal chart shows every play made
\* before it was asked for, a community chart covers the accounts this viewer
\* follows, and a 304 on recommendations means nothing changed
\* (handlers/charts.rs, handlers/similarity.rs).
KeptPagesHold ==
    /\ PlaysShow /\ CoversTheFollowed
    /\ PageTypeOK /\ NotModifiedIsTrue
=============================================================================
