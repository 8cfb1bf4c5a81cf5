-------------------------------- MODULE Intake --------------------------------
(* What others know of a user's plays, and how it comes in: the walk of a   *)
(* Last.fm history beside live scrobbles, and the polls of Spotify's recent *)
(* plays.  They share no state that the two modules keep.                   *)
EXTENDS HistoryWalk, Polls

\* Types; an import stores every play that was and stayed on Last.fm, and no
\* listen a second time (shared/lastfm.rs, shared/import.rs, imports.rs); and a
\* Spotify poll's cursor passes no play by (connected_accounts.rs).
EveryPlayOnce ==
    /\ WalkTypeOK /\ EveryPlayStored /\ NoListenTwice
    /\ PollTypeOK /\ NothingSkipped
=============================================================================
