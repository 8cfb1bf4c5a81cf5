----------------------------- MODULE Attribution -----------------------------
(* What a play is credited to and how much its account weighs: the artists, *)
(* albums and tracks found or created by name, the album a track's plays    *)
(* vote for, and the factors of coordinated accounts the votes are weighed  *)
(* by.  They share no state that the three modules keep: AlbumVotes has its *)
(* own, coarser view of a change of factors.                                *)
EXTENDS Catalog, AlbumVotes, Coordination

\* Two passes find or make any name, a track is queued again for a hint once
\* and credited to its artist (tracks.rs, imports.rs); with nothing queued a
\* track's album is the one its accounts' votes choose (albums.rs); and the
\* factors rankings read are of one run (db coordination.rs).
AttributionHolds ==
    /\ NamesHold
    /\ AlbumTypeOK /\ AlbumFollowsVotes
    /\ CoordinationTypeOK /\ FactorsAreOfOneRun

\* No step changes the factor album votes weigh by without queueing the
\* account's tracks (coordination.rs, store), and none overwrites what is known
\* of a track (tracks.rs, imports.rs).
StepsHold ==
    /\ [][FactorChangesAreTold]_coordinationVars
    /\ [][FirstStands]_catalogVars
=============================================================================
