-------------------------------- MODULE Sight --------------------------------
(* What sight of an account comes to: the ways to see a profile and the live  *)
(* streams of what is playing on it.  They share no state that the two        *)
(* modules keep.                                                              *)
EXTENDS Profiles, LiveStreams

\* Every way to an account's plays agrees on who may see them and tells nobody
\* that they are blocked; an open stream ends with the right to see it, and
\* shows what is playing (middleware/visibility.rs, live.rs, compat/).
SightHolds ==
    /\ ProfilesTypeOK /\ DoorsAgree /\ BlockedFindNobody
    /\ LiveTypeOK /\ StreamsEndWithSight /\ ShowsWhatPlays
=============================================================================
