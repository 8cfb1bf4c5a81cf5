---------------------------- MODULE DerivedProofs ----------------------------
(* Theorems about what is derived from plays, for every value of the         *)
(* constants.  Enrichment: a forced refresh is not forgotten, and what the   *)
(* review took back stays out of the track.  Taste: who opted out is in no   *)
(* stored result, and who was erased is counted again out of the newest run. *)
(* KeptPages, that is ChartPages, CommunityCharts and TastePage: a page that *)
(* was kept to be shown again tells the truth.                               *)
EXTENDS Enrichment, Taste, KeptPages, FiniteSetTheorems, WellFoundedInduction, TLAPS

(***************************************************************************)
(* Enrichment.                                                             *)
(***************************************************************************)
(* The inductive invariant.                                                 *)

\* Who may still be run has attempts left.
AttemptsLeft ==
    \A e \in Entities :
        ejob[e].status \in {"pending", "running"} => ejob[e].attempts < MaxAttempts

\* A row that is running is as it was when the worker claimed it: whoever
\* writes it meanwhile takes it out of "running".
AsClaimed(e, attempts, force) ==
    ejob[e].status = "running" => ejob[e].attempts = attempts /\ ejob[e].force = force

InPass == enricher.at \notin {"idle", "batch"}

ClaimsStand ==
    /\ \A c \in enricher.batch : AsClaimed(c[1], c[2], c[3])
    /\ InPass => /\ enricher.entity \in Entities
                 /\ AsClaimed(enricher.entity, enricher.job.attempts, enricher.job.force)

\* What a pass over the track knows, and what it found, is rejected only if it
\* was rejected meanwhile or came for another recording.
PassKnows ==
    InPass /\ enricher.entity = "track" =>
        /\ rejected \ enricher.skip \subseteq adoptable
        /\ enricher.seen \in rejected => enricher.seen \in adoptable
FoundKnown ==
    enricher.at \in {"metadata", "releases"} =>
        /\ enricher.entity = "track"
        /\ enricher.found \in Recordings
        /\ enricher.found \in rejected => enricher.found \in adoptable

JobsInv == AttemptsLeft /\ ClaimsStand /\ RefreshNotForgotten
MatchInv == PassKnows /\ FoundKnown /\ RejectedStaysOut
EnrichInv == EnrichTypeOK /\ JobsInv /\ MatchInv

-----------------------------------------------------------------------------
(* What the definitions the actions are built from yield.                   *)

LEMMA JobFields ==
  /\ \A j \in Jobs : /\ j.status \in Statuses /\ j.priority \in 0 .. 3
                     /\ j.attempts \in 0 .. MaxAttempts /\ j.force \in BOOLEAN
                     /\ j.due \in BOOLEAN /\ j.aged \in BOOLEAN
  /\ MaxAttempts \in Nat /\ 0 < MaxAttempts /\ 0 \in 0 .. MaxAttempts
  BY EnrichmentConstants DEF Jobs

\* A job with no attempts made, and the absent one.
LEMMA NewJobs ==
  /\ NoJob \in Jobs /\ NoJob.status = "absent"
  /\ \A p \in 0 .. 3, f \in BOOLEAN :
        /\ Pending(p, f) \in Jobs /\ Pending(p, f).status = "pending"
        /\ Pending(p, f).attempts = 0 /\ Pending(p, f).force = f
  <1>1. /\ NoJob \in Jobs /\ NoJob.status = "absent" /\ NoJob.attempts = 0
    BY JobFields DEF Jobs, NoJob, Statuses
  <1>2. ASSUME NEW p \in 0 .. 3, NEW f \in BOOLEAN
        PROVE  /\ Pending(p, f) \in Jobs /\ Pending(p, f).status = "pending"
               /\ Pending(p, f).attempts = 0 /\ Pending(p, f).force = f
    BY JobFields DEF Jobs, NoJob, Pending, Statuses
  <1> QED
    BY <1>1, <1>2

LEMMA QueuedJobs ==
  /\ Pending(Ingest, FALSE).status = "pending" /\ Pending(Ingest, FALSE).attempts = 0
  /\ Pending(Backfill, FALSE).status = "pending" /\ Pending(Backfill, FALSE).attempts = 0
  <1>1. Ingest \in 0 .. 3 /\ Backfill \in 0 .. 3 /\ FALSE \in BOOLEAN
    BY DEF Ingest, Backfill
  <1> QED
    BY <1>1, NewJobs

LEMMA IdleWorker == Idle \in Enrichers /\ Idle.at = "idle" /\ Idle.batch = {}
  BY NewJobs DEF Idle, Enrichers

LEMMA NextOfBatchIs ==
  ASSUME enricher \in Enrichers
  PROVE  /\ NextOfBatch(enricher) \in Enrichers
         /\ NextOfBatch(enricher).at \in {"idle", "batch"}
         /\ NextOfBatch(enricher).batch = enricher.batch
  BY NewJobs DEF NextOfBatch, Idle, Enrichers

\* The jobs that a statement over all entities leaves.
LEMMA JobsEverywhere ==
  ASSUME EnrichTypeOK, NEW S, NEW new \in Jobs,
         ejob' = [e \in Entities |-> IF e \in S THEN new ELSE ejob[e]]
  PROVE  /\ ejob' \in [Entities -> Jobs]
         /\ \A e \in Entities : ejob'[e] = IF e \in S THEN new ELSE ejob[e]
  BY DEF EnrichTypeOK

-----------------------------------------------------------------------------
(* Types.                                                                   *)

\* What most actions leave alone.
LEMMA JobsWritten ==
  ASSUME EnrichTypeOK, ejob' \in [Entities -> Jobs], enricher' \in Enrichers,
         owed' \subseteq Entities, efaults' \in Nat, requests' \in Nat,
         UNCHANGED row, adoptable' = adoptable
  PROVE  EnrichTypeOK'
  BY DEF EnrichTypeOK, row

LEMMA EnqueuesTyped ==
  ASSUME EnrichTypeOK, EnqueueForIngest \/ EnqueueBackfill \/ EnqueueResweep
  PROVE  EnrichTypeOK'
  <1>1. PICK p \in {Ingest, Backfill} :
          /\ ejob' \in [Entities -> Jobs]
          /\ UNCHANGED <<row, enricher, efaults, requests, owed, adoptable>>
    <2> /\ Ingest \in 0 .. 3 /\ Backfill \in 0 .. 3 /\ FALSE \in BOOLEAN
      BY DEF Ingest, Backfill
    <2>1. Pending(Ingest, FALSE) \in Jobs /\ Pending(Backfill, FALSE) \in Jobs
      BY NewJobs
    <2>2. ejob \in [Entities -> Jobs]
      BY DEF EnrichTypeOK
    <2>3. CASE EnqueueForIngest
      BY <2>1, <2>2, <2>3 DEF EnqueueForIngest
    <2>4. CASE EnqueueBackfill
      BY <2>1, <2>2, <2>4 DEF EnqueueBackfill
    <2>5. CASE EnqueueResweep
      BY <2>1, <2>2, <2>5 DEF EnqueueResweep
    <2> QED
      BY <2>3, <2>4, <2>5
  <1> QED
    BY <1>1, JobsWritten DEF EnrichTypeOK

LEMMA RefreshTyped ==
  ASSUME EnrichTypeOK, NEW e \in Entities, RequestRefresh(e)
  PROVE  EnrichTypeOK'
  <1>0. Refresh \in 0 .. 3 /\ TRUE \in BOOLEAN
    BY DEF Refresh
  <1>1. Pending(Refresh, TRUE) \in Jobs
    BY <1>0, NewJobs
  <1>2. ejob' \in [Entities -> Jobs]
    BY <1>1 DEF EnrichTypeOK, RequestRefresh
  <1>3. owed' \subseteq Entities /\ requests' \in Nat
    BY DEF EnrichTypeOK, RequestRefresh
  <1> QED
    BY <1>2, <1>3, JobsWritten DEF EnrichTypeOK, RequestRefresh

LEMMA SweepsTyped ==
  ASSUME EnrichTypeOK, DeleteDoneJobs \/ ResetStuckJobs
  PROVE  EnrichTypeOK'
  <1>1. \A e \in Entities : [ejob[e] EXCEPT !.status = "pending", !.due = TRUE, !.aged = FALSE]
                               \in Jobs
    BY DEF EnrichTypeOK, Jobs, Statuses
  <1>2. ejob' \in [Entities -> Jobs]
    <2>1. ejob \in [Entities -> Jobs] /\ NoJob \in Jobs
      BY NewJobs DEF EnrichTypeOK
    <2>2. CASE DeleteDoneJobs
      BY <2>1, <2>2 DEF DeleteDoneJobs
    <2>3. CASE ResetStuckJobs
      BY <1>1, <2>1, <2>3 DEF ResetStuckJobs
    <2> QED
      BY <2>2, <2>3
  <1> QED
    BY <1>2, JobsWritten DEF EnrichTypeOK, DeleteDoneJobs, ResetStuckJobs

LEMMA TicksTyped ==
  ASSUME EnrichTypeOK, NEW e \in Entities, BackoffEnds(e) \/ JobAges(e)
  PROVE  EnrichTypeOK'
  <1>1. ejob' \in [Entities -> Jobs]
    <2>1. [ejob[e] EXCEPT !.due = TRUE] \in Jobs /\ [ejob[e] EXCEPT !.aged = TRUE] \in Jobs
      BY DEF EnrichTypeOK, Jobs
    <2>2. \/ ejob' = [ejob EXCEPT ![e] = [ejob[e] EXCEPT !.due = TRUE]]
          \/ ejob' = [ejob EXCEPT ![e] = [ejob[e] EXCEPT !.aged = TRUE]]
      BY DEF BackoffEnds, JobAges, EnrichTypeOK
    <2> QED
      BY <2>1, <2>2 DEF EnrichTypeOK
  <1> QED
    BY <1>1, JobsWritten DEF EnrichTypeOK, BackoffEnds, JobAges

\* What is claimed of the jobs of a batch.
ClaimsOf(batch) == {<<e, ejob[e].attempts, ejob[e].force>> : e \in batch}

LEMMA ClaimIs ==
  ASSUME EnrichTypeOK, ClaimDueJobs
  PROVE  \E batch \in SUBSET Entities :
            /\ \A e \in batch : ejob[e].status = "pending"
            /\ ejob' = [e \in Entities |->
                  IF e \in batch THEN [ejob[e] EXCEPT !.status = "running", !.aged = FALSE]
                  ELSE ejob[e]]
            /\ enricher' = [Idle EXCEPT !.at = "batch", !.batch = ClaimsOf(batch)]
            /\ ClaimsOf(batch) \subseteq Entities \X (0 .. MaxAttempts) \X BOOLEAN
            /\ UNCHANGED <<row, efaults, requests, owed, adoptable>>
  <1>1. PICK batch \in SUBSET DueJobs :
            /\ ejob' = [e \in Entities |->
                  IF e \in batch THEN [ejob[e] EXCEPT !.status = "running", !.aged = FALSE]
                  ELSE ejob[e]]
            /\ enricher' = [Idle EXCEPT !.at = "batch", !.batch = ClaimsOf(batch)]
            /\ UNCHANGED <<row, efaults, requests, owed, adoptable>>
    BY DEF ClaimDueJobs, ClaimsOf
  <1>2. batch \in SUBSET Entities /\ \A e \in batch : ejob[e].status = "pending"
    BY DEF DueJobs
  <1>3. \A e \in batch : ejob[e].attempts \in 0 .. MaxAttempts /\ ejob[e].force \in BOOLEAN
    BY <1>2, JobFields DEF EnrichTypeOK
  <1>4. ClaimsOf(batch) \subseteq Entities \X (0 .. MaxAttempts) \X BOOLEAN
    BY <1>2, <1>3 DEF ClaimsOf
  <1> QED
    BY <1>1, <1>2, <1>4

LEMMA ClaimTyped ==
  ASSUME EnrichTypeOK, ClaimDueJobs
  PROVE  EnrichTypeOK'
  <1>1. PICK batch \in SUBSET Entities :
            /\ ejob' = [e \in Entities |->
                  IF e \in batch THEN [ejob[e] EXCEPT !.status = "running", !.aged = FALSE]
                  ELSE ejob[e]]
            /\ enricher' = [Idle EXCEPT !.at = "batch", !.batch = ClaimsOf(batch)]
            /\ ClaimsOf(batch) \subseteq Entities \X (0 .. MaxAttempts) \X BOOLEAN
            /\ UNCHANGED <<row, efaults, requests, owed, adoptable>>
    BY ClaimIs
  <1>2. \A e \in Entities : [ejob[e] EXCEPT !.status = "running", !.aged = FALSE] \in Jobs
    BY DEF EnrichTypeOK, Jobs, Statuses
  <1>3. ejob' \in [Entities -> Jobs]
    BY <1>1, <1>2 DEF EnrichTypeOK
  <1>4. enricher' \in Enrichers
    BY <1>1, IdleWorker DEF Enrichers
  <1> QED
    BY <1>1, <1>3, <1>4, JobsWritten DEF EnrichTypeOK

LEMMA ReadTyped ==
  ASSUME EnrichTypeOK, NEW c \in enricher.batch, ReadContext(c)
  PROVE  EnrichTypeOK'
  <1>1. enricher \in Enrichers /\ enricher.batch \subseteq Entities \X (0 .. MaxAttempts) \X BOOLEAN
    BY DEF EnrichTypeOK, Enrichers
  <1>2. c[1] \in Entities /\ c[2] \in 0 .. MaxAttempts /\ c[3] \in BOOLEAN
    BY <1>1
  <1>3. [NoJob EXCEPT !.attempts = c[2], !.force = c[3]] \in Jobs
    BY <1>2, NewJobs DEF Jobs
  <1> DEFINE e == c[1]
             at == IF e \in catalog THEN "ask" ELSE "done"
             job == [NoJob EXCEPT !.attempts = c[2], !.force = c[3]]
             seen == IF e = "track" THEN match ELSE None
             hinted == IF e = "track" THEN hint ELSE None
             skip == IF e = "track" THEN rejected ELSE {}
             long == e = "track" /\ lengths["musicbrainz"] # 0
             rel == e = "track" /\ releases
  <1>5. /\ at \in {"ask", "done"} /\ seen \in Recordings \cup {None}
        /\ hinted \in Recordings \cup {None}
        /\ skip \in SUBSET Recordings /\ long \in BOOLEAN /\ rel \in BOOLEAN
        /\ e \in Entities \cup {None} /\ job \in Jobs
    BY <1>2, <1>3 DEF EnrichTypeOK
  <1>6. enricher' = [enricher EXCEPT !.at = at, !.batch = @ \ {c}, !.entity = e, !.job = job,
                        !.seen = seen, !.hint = hinted, !.skip = skip, !.wasLong = long, !.relKnown = rel]
    BY DEF ReadContext
  <1>4. enricher' \in Enrichers
    <2> HIDE DEF e, at, job, seen, hinted, skip, long, rel
    <2> QED
      BY <1>1, <1>5, <1>6 DEF Enrichers
  <1> QED
    BY <1>4, JobsWritten DEF EnrichTypeOK, ReadContext

LEMMA AskTyped ==
  ASSUME EnrichTypeOK, AskTrack
  PROVE  EnrichTypeOK'
  <1>1. enricher \in Enrichers
    BY DEF EnrichTypeOK
  <1>2. enricher' \in Enrichers
    <2>1. enricher.seen \in Recordings \cup {None} /\ enricher.hint \in Recordings \cup {None}
      BY <1>1 DEF Enrichers
    <2>2. /\ enricher.seen # None => LookupRecording(enricher.seen) \subseteq Recordings
          /\ FindRecording(enricher.hint, enricher.skip) \subseteq Recordings
      BY <2>1 DEF LookupRecording, FindRecording
    <2> QED
      BY <1>1, <2>2 DEF AskTrack, Enrichers
  <1>3. releases' \in BOOLEAN /\ match' = match
    BY DEF AskTrack, EnrichTypeOK
  <1>4. adoptable' \subseteq Recordings
    BY <1>1 DEF AskTrack, Adopts, EnrichTypeOK, Enrichers
  <1> QED
    BY <1>2, <1>3, <1>4 DEF EnrichTypeOK, AskTrack

LEMMA ApplyTyped ==
  ASSUME EnrichTypeOK, FoundKnown, ApplyTrackMetadata
  PROVE  EnrichTypeOK'
  <1>1. enricher.found \in Recordings /\ enricher' \in Enrichers
    BY DEF EnrichTypeOK, FoundKnown, ApplyTrackMetadata, Enrichers
  <1>2. RecordingLength[enricher.found] \in Nat
    BY <1>1, EnrichmentConstants
  <1>3. match' \in Recordings \cup {None} /\ lengths' \in [Sources -> Nat]
    BY <1>1, <1>2 DEF EnrichTypeOK, ApplyTrackMetadata, Fill
  <1> QED
    BY <1>1, <1>3 DEF EnrichTypeOK, ApplyTrackMetadata

LEMMA RecordTyped ==
  ASSUME EnrichTypeOK, RecordReleases
  PROVE  EnrichTypeOK'
  <1>1. enricher' \in Enrichers
    BY DEF EnrichTypeOK, RecordReleases, Enrichers
  <1>2. known' \in [Entities -> SUBSET {"mbid", "image"}] /\ releases' \in BOOLEAN
    BY DEF EnrichTypeOK, RecordReleases
  <1> QED
    BY <1>1, <1>2 DEF EnrichTypeOK, RecordReleases

LEMMA ImagesTyped ==
  ASSUME EnrichTypeOK, EnrichArtist \/ EnrichAlbum
  PROVE  EnrichTypeOK'
  <1>1. enricher' \in Enrichers
    BY DEF EnrichTypeOK, EnrichArtist, EnrichAlbum, Enrichers
  <1>2. known' \in [Entities -> SUBSET {"mbid", "image"}]
    BY DEF EnrichTypeOK, EnrichArtist, EnrichAlbum, Entities
  <1> QED
    BY <1>1, <1>2 DEF EnrichTypeOK, EnrichArtist, EnrichAlbum

LEMMA PassEndsTyped ==
  ASSUME EnrichTypeOK, PassFails \/ MarkEnriched \/ EnricherCrash
  PROVE  EnrichTypeOK'
  <1>1. enricher' \in Enrichers
    BY IdleWorker DEF EnrichTypeOK, PassFails, MarkEnriched, EnricherCrash, Enrichers
  <1>2. stamp' \in [Entities -> {"null", "fresh", "old"}] /\ efaults' \in Nat
    BY DEF EnrichTypeOK, PassFails, MarkEnriched, EnricherCrash, row
  <1> QED
    BY <1>1, <1>2 DEF EnrichTypeOK, PassFails, MarkEnriched, EnricherCrash, row

LEMMA JobEndsTyped ==
  ASSUME EnrichTypeOK, AttemptsLeft, ClaimsStand, CompleteJob \/ RescheduleJob \/ FailJob
  PROVE  EnrichTypeOK'
  <1> DEFINE e == enricher.entity
  <1>1. e \in Entities
    BY DEF ClaimsStand, InPass, CompleteJob, RescheduleJob, FailJob
  <1>2. ejob[e] \in Jobs /\ ejob \in [Entities -> Jobs]
    BY <1>1 DEF EnrichTypeOK
  <1>3. StillRunning(e) => ejob[e].attempts + 1 \in 0 .. MaxAttempts
    BY <1>1, <1>2, JobFields DEF AttemptsLeft, StillRunning
  <1>4. ejob' \in [Entities -> Jobs]
    BY <1>1, <1>2, <1>3 DEF CompleteJob, RescheduleJob, FailJob, CompleteRow, Jobs, Statuses
  <1>5. enricher' \in Enrichers /\ owed' \subseteq Entities
    BY NextOfBatchIs DEF EnrichTypeOK, CompleteJob, RescheduleJob, FailJob, PassOver, Repaid
  <1> QED
    BY <1>4, <1>5, JobsWritten DEF EnrichTypeOK, CompleteJob, RescheduleJob, FailJob

LEMMA LengthsTyped ==
  ASSUME EnrichTypeOK, RecordLastfmLength \/ RecordDeezerLength \/ RequeueLengthChecks
  PROVE  EnrichTypeOK'
  <1>1. lengths' \in [Sources -> Nat]
    BY DEF EnrichTypeOK, RecordLastfmLength, RecordDeezerLength, RequeueLengthChecks, Fill
  <1>2. asked' \subseteq {"lastfm", "deezer"}
    BY DEF EnrichTypeOK, RecordLastfmLength, RecordDeezerLength, RequeueLengthChecks
  <1> QED
    BY <1>1, <1>2
    DEF EnrichTypeOK, RecordLastfmLength, RecordDeezerLength, RequeueLengthChecks

LEMMA UnlinkTyped ==
  ASSUME EnrichTypeOK, UnlinkMusicBrainz
  PROVE  EnrichTypeOK'
  <1>0. Backfill \in 0 .. 3 /\ FALSE \in BOOLEAN
    BY DEF Backfill
  <1>1. Pending(Backfill, FALSE) \in Jobs
    BY <1>0, NewJobs
  <1>2. ejob' \in [Entities -> Jobs]
    BY <1>1 DEF EnrichTypeOK, UnlinkMusicBrainz, Entities
  <1>3. /\ rejected' \subseteq Recordings /\ adoptable' \subseteq Recordings
        /\ match' \in Recordings \cup {None} /\ hint' \in Recordings \cup {None}
        /\ releases' \in BOOLEAN
    <2>1. /\ rejected' = IF match = None THEN rejected ELSE rejected \cup {match}
          /\ match' = None /\ releases' = FALSE
          /\ hint' = IF hint = match THEN None ELSE hint
          /\ adoptable' = IF enricher.entity = "track" /\ match # None
                           THEN adoptable \cup {match} ELSE adoptable
      BY DEF UnlinkMusicBrainz
    <2> QED
      BY <2>1 DEF EnrichTypeOK
  <1>4. lengths' \in [Sources -> Nat] /\ requests' \in Nat
    <2>1. lengths' = [lengths EXCEPT !["musicbrainz"] = 0]
      BY DEF UnlinkMusicBrainz
    <2>2. requests' = requests + 1
      BY DEF UnlinkMusicBrainz
    <2>3. lengths \in [Sources -> Nat] /\ requests \in Nat
      BY DEF EnrichTypeOK
    <2>4. lengths' \in [Sources -> Nat]
      BY <2>1, <2>3
    <2> QED
      BY <2>2, <2>3, <2>4
  <1> QED
    BY <1>2, <1>3, <1>4 DEF EnrichTypeOK, UnlinkMusicBrainz

LEMMA RowsChangeTyped ==
  ASSUME EnrichTypeOK, NEW e \in Entities, StampAges(e) \/ EntityGoes(e)
  PROVE  EnrichTypeOK'
  <1>1. CASE StampAges(e)
    BY <1>1 DEF EnrichTypeOK, StampAges
  <1>2. CASE EntityGoes(e)
    <2>1. /\ catalog' \subseteq Entities /\ efaults' \in Nat
          /\ stamp' \in [Entities -> {"null", "fresh", "old"}]
          /\ known' \in [Entities -> SUBSET {"mbid", "image"}]
      BY <1>2 DEF EnrichTypeOK, EntityGoes
    <2>2. /\ match' \in Recordings \cup {None} /\ hint' \in Recordings \cup {None}
          /\ rejected' \subseteq Recordings /\ lengths' \in [Sources -> Nat]
          /\ asked' \subseteq {"lastfm", "deezer"} /\ releases' \in BOOLEAN
      <3>1. CASE e = "track"
        <4>1. /\ match' = None /\ releases' = FALSE /\ rejected' = {} /\ hint' = None
              /\ asked' = {} /\ lengths' = [s \in Sources |-> 0]
          BY <1>2, <3>1 DEF EntityGoes
        <4> QED
          BY <4>1
      <3>2. CASE e # "track"
        <4>1. UNCHANGED <<match, releases, rejected, hint, asked, lengths>>
          BY <1>2, <3>2 DEF EntityGoes
        <4> QED
          BY <4>1 DEF EnrichTypeOK
      <3> QED
        BY <3>1, <3>2
    <2> QED
      BY <1>2, <2>1, <2>2 DEF EnrichTypeOK, EntityGoes
  <1> QED
    BY <1>1, <1>2

LEMMA EnrichTypeStep ==
  ASSUME EnrichInv, EnrichNext
  PROVE  EnrichTypeOK'
  <1> USE DEF EnrichInv, JobsInv, MatchInv
  <1>1. CASE EnqueueForIngest \/ EnqueueBackfill \/ EnqueueResweep
    BY <1>1, EnqueuesTyped
  <1>2. CASE DeleteDoneJobs \/ ResetStuckJobs
    BY <1>2, SweepsTyped
  <1>3. CASE EnricherStep
    BY <1>3, ClaimTyped, ReadTyped, AskTyped, ApplyTyped, RecordTyped, ImagesTyped,
       PassEndsTyped, JobEndsTyped DEF EnricherStep
  <1>4. CASE PassFails \/ EnricherCrash
    BY <1>4, PassEndsTyped
  <1>5. CASE RecordLastfmLength \/ RecordDeezerLength \/ RequeueLengthChecks
    BY <1>5, LengthsTyped
  <1>6. CASE UnlinkMusicBrainz
    BY <1>6, UnlinkTyped
  <1>7. CASE EnrichClock
    BY <1>7, TicksTyped DEF EnrichClock
  <1>8. CASE \E e \in Entities : RequestRefresh(e) \/ StampAges(e) \/ EntityGoes(e)
    BY <1>8, RefreshTyped, RowsChangeTyped
  <1> QED
    BY <1>1, <1>2, <1>3, <1>4, <1>5, <1>6, <1>7, <1>8 DEF EnrichNext

-----------------------------------------------------------------------------
(* The jobs.                                                                *)

\* The worker stays where it is, and a row becomes or stays what keeps the
\* invariant: it is as it was but for its clocks, out of a pass's hands, or new.
LEMMA RowsRewritten ==
  ASSUME EnrichTypeOK, JobsInv, enricher' = enricher, owed' = owed,
         \A e \in Entities :
            \/ /\ \/ ejob'[e].status = ejob[e].status
                  \/ ejob[e].status = "running" /\ ejob'[e].status = "pending"
               /\ ejob'[e].attempts = ejob[e].attempts /\ ejob'[e].force = ejob[e].force
            \/ /\ ejob[e].status \notin {"pending", "running"}
               /\ ejob'[e].status \in {"absent", "pending"}
               /\ ejob'[e].attempts = 0
  PROVE  JobsInv'
  <1>1. AttemptsLeft'
    BY JobFields DEF JobsInv, AttemptsLeft
  <1>2. \A e \in Entities : ejob'[e].status = "running" =>
           /\ ejob[e].status = "running"
           /\ ejob'[e].attempts = ejob[e].attempts /\ ejob'[e].force = ejob[e].force
    OBVIOUS
  <1>3. \A c \in enricher.batch : c[1] \in Entities
    BY DEF EnrichTypeOK, Enrichers
  <1>4. ClaimsStand'
    BY <1>2, <1>3 DEF JobsInv, ClaimsStand, AsClaimed, InPass
  <1>5. RefreshNotForgotten'
    BY DEF JobsInv, RefreshNotForgotten, EnrichTypeOK
  <1> QED
    BY <1>1, <1>4, <1>5 DEF JobsInv

LEMMA SweepsKeepJobs ==
  ASSUME EnrichTypeOK, JobsInv,
         \/ EnqueueForIngest \/ EnqueueBackfill \/ EnqueueResweep
         \/ DeleteDoneJobs \/ ResetStuckJobs
  PROVE  JobsInv'
  <1>0. ejob \in [Entities -> Jobs]
    BY DEF EnrichTypeOK
  <1>1. CASE EnqueueForIngest
    <2>1. \A e \in Entities :
             \/ ejob'[e] = ejob[e]
             \/ ejob[e] = NoJob /\ ejob'[e] = Pending(Ingest, FALSE)
      BY <1>1 DEF EnqueueForIngest
    <2> QED
      BY <1>0, <1>1, <2>1, NewJobs, QueuedJobs, RowsRewritten DEF EnqueueForIngest
  <1>2. CASE EnqueueBackfill
    <2>1. \A e \in Entities :
             \/ ejob'[e] = ejob[e]
             \/ ejob[e] = NoJob /\ ejob'[e] = Pending(Backfill, FALSE)
      BY <1>2 DEF EnqueueBackfill
    <2> QED
      BY <1>0, <1>2, <2>1, NewJobs, QueuedJobs, RowsRewritten DEF EnqueueBackfill
  <1>3. CASE EnqueueResweep
    <2>1. \A e \in Entities :
             \/ ejob'[e] = ejob[e]
             \/ /\ ejob[e].status \in Finished \cup {"absent"}
                /\ ejob'[e] = Pending(Backfill, FALSE)
      BY <1>3 DEF EnqueueResweep
    <2> QED
      BY <1>0, <1>3, <2>1, QueuedJobs, RowsRewritten DEF EnqueueResweep, Finished
  <1>4. CASE DeleteDoneJobs
    <2>1. \A e \in Entities :
             \/ ejob'[e] = ejob[e]
             \/ ejob[e].status = "done" /\ ejob'[e] = NoJob
      BY <1>4 DEF DeleteDoneJobs
    <2>2. NoJob.attempts = 0
      BY DEF NoJob
    <2> QED
      BY <1>0, <1>4, <2>1, <2>2, NewJobs, RowsRewritten DEF DeleteDoneJobs
  <1>5. CASE ResetStuckJobs
    <2>1. \A e \in Entities :
             \/ ejob'[e] = ejob[e]
             \/ /\ ejob[e].status = "running"
                /\ ejob'[e] = [ejob[e] EXCEPT !.status = "pending", !.due = TRUE, !.aged = FALSE]
      BY <1>5 DEF ResetStuckJobs
    <2>2. \A e \in Entities :
             \/ ejob'[e] = ejob[e]
             \/ /\ ejob[e].status = "running" /\ ejob'[e].status = "pending"
                /\ ejob'[e].attempts = ejob[e].attempts /\ ejob'[e].force = ejob[e].force
      <3>1. \A j \in Jobs :
               /\ [j EXCEPT !.status = "pending", !.due = TRUE, !.aged = FALSE].status = "pending"
               /\ [j EXCEPT !.status = "pending", !.due = TRUE, !.aged = FALSE].attempts = j.attempts
               /\ [j EXCEPT !.status = "pending", !.due = TRUE, !.aged = FALSE].force = j.force
        BY DEF Jobs
      <3>2. \A e \in Entities : ejob[e] \in Jobs
        BY <1>0
      <3>3. ASSUME NEW e \in Entities, ejob[e].status = "running",
                   ejob'[e] = [ejob[e] EXCEPT !.status = "pending", !.due = TRUE, !.aged = FALSE]
            PROVE  /\ ejob'[e].status = "pending" /\ ejob'[e].attempts = ejob[e].attempts
                   /\ ejob'[e].force = ejob[e].force
        BY <3>1, <3>2, <3>3
      <3> QED
        BY <2>1, <3>3
    <2> QED
      BY <1>5, <2>2, RowsRewritten DEF ResetStuckJobs
  <1> QED
    BY <1>1, <1>2, <1>3, <1>4, <1>5

LEMMA TicksKeepJobs ==
  ASSUME EnrichTypeOK, JobsInv, NEW e \in Entities, BackoffEnds(e) \/ JobAges(e)
  PROVE  JobsInv'
  <1>1. \A f \in Entities :
           /\ ejob'[f].status = ejob[f].status
           /\ ejob'[f].attempts = ejob[f].attempts /\ ejob'[f].force = ejob[f].force
    <2>1. \/ ejob' = [ejob EXCEPT ![e] = [ejob[e] EXCEPT !.due = TRUE]]
          \/ ejob' = [ejob EXCEPT ![e] = [ejob[e] EXCEPT !.aged = TRUE]]
      BY DEF BackoffEnds, JobAges, EnrichTypeOK
    <2>2. ejob[e] \in Jobs /\ ejob \in [Entities -> Jobs]
      BY DEF EnrichTypeOK
    <2> QED
      BY <2>1, <2>2 DEF Jobs
  <1>2. enricher' = enricher /\ owed' = owed
    BY DEF BackoffEnds, JobAges
  <1> QED
    BY <1>1, <1>2, RowsRewritten

LEMMA RefreshKeepsJobs ==
  ASSUME EnrichTypeOK, JobsInv, NEW e \in Entities, RequestRefresh(e)
  PROVE  JobsInv'
  <1>0. Refresh \in 0 .. 3 /\ TRUE \in BOOLEAN /\ ejob \in [Entities -> Jobs]
    BY DEF Refresh, EnrichTypeOK
  <1>1. ejob' = [ejob EXCEPT ![e] = Pending(Refresh, TRUE)] /\ owed' = owed \cup {e}
        /\ enricher' = enricher
    BY DEF RequestRefresh
  <1>2. /\ ejob'[e].status = "pending" /\ ejob'[e].attempts = 0 /\ ejob'[e].force = TRUE
        /\ \A f \in Entities \ {e} : ejob'[f] = ejob[f]
    BY <1>0, <1>1, NewJobs
  <1>3. AttemptsLeft'
    BY <1>2, JobFields DEF JobsInv, AttemptsLeft
  <1>4. \A c \in enricher.batch : c[1] \in Entities
    BY DEF EnrichTypeOK, Enrichers
  <1>7. \A f \in Entities : ejob'[f].status = "running" => ejob'[f] = ejob[f]
    BY <1>2
  <1>5. ClaimsStand'
    BY <1>1, <1>4, <1>7 DEF JobsInv, ClaimsStand, AsClaimed, InPass
  <1>6. RefreshNotForgotten'
    BY <1>1, <1>2 DEF JobsInv, RefreshNotForgotten, EnrichTypeOK
  <1> QED
    BY <1>3, <1>5, <1>6 DEF JobsInv

LEMMA ClaimKeepsJobs ==
  ASSUME EnrichTypeOK, JobsInv, ClaimDueJobs
  PROVE  JobsInv'
  <1>1. PICK batch \in SUBSET Entities :
            /\ \A e \in batch : ejob[e].status = "pending"
            /\ ejob' = [e \in Entities |->
                  IF e \in batch THEN [ejob[e] EXCEPT !.status = "running", !.aged = FALSE]
                  ELSE ejob[e]]
            /\ enricher' = [Idle EXCEPT !.at = "batch", !.batch = ClaimsOf(batch)]
            /\ UNCHANGED <<row, efaults, requests, owed, adoptable>>
    BY ClaimIs
  <1>2. \A e \in Entities :
           /\ ejob'[e].attempts = ejob[e].attempts /\ ejob'[e].force = ejob[e].force
           /\ ejob'[e].status = IF e \in batch THEN "running" ELSE ejob[e].status
    BY <1>1 DEF EnrichTypeOK, Jobs
  <1>3. AttemptsLeft'
    BY <1>1, <1>2 DEF JobsInv, AttemptsLeft
  <1>4. enricher'.at = "batch" /\ enricher'.batch = ClaimsOf(batch)
    BY <1>1 DEF Idle
  <1>7. \A c \in ClaimsOf(batch) :
           ejob'[c[1]].attempts = c[2] /\ ejob'[c[1]].force = c[3]
    BY <1>2 DEF ClaimsOf
  <1>5. ClaimsStand'
    BY <1>4, <1>7 DEF ClaimsStand, AsClaimed, InPass
  <1>6. RefreshNotForgotten'
    BY <1>1, <1>2 DEF JobsInv, RefreshNotForgotten, EnrichTypeOK
  <1> QED
    BY <1>3, <1>5, <1>6 DEF JobsInv

LEMMA ReadKeepsJobs ==
  ASSUME EnrichTypeOK, JobsInv, NEW c \in enricher.batch, ReadContext(c)
  PROVE  JobsInv'
  <1>1. enricher \in Enrichers /\ c[1] \in Entities
    BY DEF EnrichTypeOK, Enrichers
  <1>2. /\ enricher'.batch = enricher.batch \ {c} /\ enricher'.entity = c[1]
        /\ enricher'.job.attempts = c[2] /\ enricher'.job.force = c[3]
    BY <1>1 DEF ReadContext, Enrichers, NoJob
  <1>3. ejob' = ejob /\ owed' = owed
    BY DEF ReadContext
  <1>4. ClaimsStand'
    BY <1>1, <1>2, <1>3 DEF JobsInv, ClaimsStand, AsClaimed
  <1> QED
    BY <1>3, <1>4 DEF JobsInv, AttemptsLeft, RefreshNotForgotten

\* A pass goes on or ends without a word to its job.
LEMMA PassKeepsJobs ==
  ASSUME EnrichTypeOK, JobsInv, ejob' = ejob, owed' = owed,
         \/ enricher' = enricher
         \/ enricher' = Idle
         \/ /\ InPass
            /\ enricher'.batch = enricher.batch /\ enricher'.entity = enricher.entity
            /\ enricher'.job = enricher.job
  PROVE  JobsInv'
  <1>1. ClaimsStand'
    BY IdleWorker DEF JobsInv, ClaimsStand, AsClaimed, InPass
  <1> QED
    BY <1>1 DEF JobsInv, AttemptsLeft, RefreshNotForgotten

LEMMA JobEndKeepsJobs ==
  ASSUME EnrichTypeOK, JobsInv, CompleteJob \/ RescheduleJob \/ FailJob
  PROVE  JobsInv'
  <1> DEFINE e == enricher.entity
  <1>1. /\ e \in Entities /\ AsClaimed(e, enricher.job.attempts, enricher.job.force)
        /\ enricher \in Enrichers /\ PassOver
    BY DEF JobsInv, ClaimsStand, InPass, CompleteJob, RescheduleJob, FailJob, EnrichTypeOK
  <1>2. enricher'.at \in {"idle", "batch"} /\ enricher'.batch = enricher.batch
    BY <1>1, NextOfBatchIs DEF PassOver
  <1>3. \A c \in enricher.batch : c[1] \in Entities
    BY DEF EnrichTypeOK, Enrichers
  <1>4. ejob \in [Entities -> Jobs]
    BY DEF EnrichTypeOK
  <1>5. CASE ~StillRunning(e)
    <2>1. ejob' = ejob /\ owed' = owed
      BY <1>5 DEF CompleteJob, RescheduleJob, FailJob, CompleteRow, Repaid
    <2>2. ClaimsStand'
      BY <1>2, <2>1 DEF JobsInv, ClaimsStand, AsClaimed, InPass
    <2> QED
      BY <2>1, <2>2 DEF JobsInv, AttemptsLeft, RefreshNotForgotten
  <1>6. CASE StillRunning(e)
    <2>0. ejob[e].status = "running" /\ ejob[e].attempts = enricher.job.attempts
          /\ ejob[e].force = enricher.job.force
      BY <1>1, <1>6 DEF StillRunning, AsClaimed
    <2>1. \A f \in Entities \ {e} : ejob'[f] = ejob[f]
      BY <1>4, <1>6 DEF CompleteJob, RescheduleJob, FailJob, CompleteRow
    <2>2. \/ /\ ejob'[e].status \in {"done", "failed"}
             /\ Repaid = owed'
          \/ /\ ejob'[e].status = "pending" /\ owed' = owed
             /\ ejob'[e].attempts = ejob[e].attempts + 1
             /\ ejob'[e].force = ejob[e].force
             /\ enricher.job.attempts + 1 < MaxAttempts
      <3>1. CASE CompleteJob
        BY <1>1, <1>4, <1>6, <3>1 DEF CompleteJob, CompleteRow, Jobs
      <3>2. CASE RescheduleJob
        BY <1>1, <1>4, <1>6, <3>2 DEF RescheduleJob, Jobs
      <3>3. CASE FailJob
        BY <1>1, <1>4, <1>6, <3>3 DEF FailJob, Jobs
      <3> QED
        BY <3>1, <3>2, <3>3
    <2>3. AttemptsLeft'
      BY <2>0, <2>1, <2>2 DEF JobsInv, AttemptsLeft
    <2>4. ClaimsStand'
      <3>1. \A f \in Entities : ejob'[f].status = "running" => ejob'[f] = ejob[f]
        BY <2>1, <2>2
      <3> QED
        BY <1>2, <1>3, <3>1 DEF JobsInv, ClaimsStand, AsClaimed, InPass
    <2>5. RefreshNotForgotten'
      <3>1. owed' \subseteq owed /\ owed \subseteq Entities
        BY <2>2 DEF Repaid, EnrichTypeOK
      <3>2. ASSUME e \in owed' PROVE ejob'[e].force /\ ejob'[e].status \in {"pending", "running"}
        <4>1. ejob[e].force
          BY <3>1, <3>2 DEF JobsInv, RefreshNotForgotten
        <4>2. Repaid = owed \ {e}
          BY <1>6, <2>0, <4>1 DEF Repaid
        <4> QED
          BY <2>2, <3>2, <4>1, <4>2
      <3> QED
        BY <2>1, <3>1, <3>2 DEF JobsInv, RefreshNotForgotten
    <2> QED
      BY <2>3, <2>4, <2>5 DEF JobsInv
  <1> QED
    BY <1>5, <1>6

LEMMA UnlinkKeepsJobs ==
  ASSUME EnrichTypeOK, JobsInv, UnlinkMusicBrainz
  PROVE  JobsInv'
  <1>0. Backfill \in 0 .. 3 /\ FALSE \in BOOLEAN /\ ejob \in [Entities -> Jobs]
    BY DEF Backfill, EnrichTypeOK
  <1>1. \A e \in Entities :
           \/ ejob'[e] = ejob[e]
           \/ /\ ejob[e].status \in Finished \cup {"absent"}
              /\ ejob'[e] = Pending(Backfill, FALSE)
    BY <1>0 DEF UnlinkMusicBrainz, Entities
  <1>2. enricher' = enricher /\ owed' = owed
    BY DEF UnlinkMusicBrainz
  <1> QED
    BY <1>0, <1>1, <1>2, QueuedJobs, RowsRewritten DEF Finished

LEMMA JobsStep ==
  ASSUME EnrichInv, EnrichNext
  PROVE  JobsInv'
  <1>0. EnrichTypeOK /\ JobsInv /\ enricher \in Enrichers
    BY DEF EnrichInv, EnrichTypeOK
  <1>1. CASE \/ EnqueueForIngest \/ EnqueueBackfill \/ EnqueueResweep
             \/ DeleteDoneJobs \/ ResetStuckJobs
    BY <1>0, <1>1, SweepsKeepJobs
  <1>2. CASE ClaimDueJobs
    BY <1>0, <1>2, ClaimKeepsJobs
  <1>3. CASE \E c \in enricher.batch : ReadContext(c)
    BY <1>0, <1>3, ReadKeepsJobs
  <1>4. CASE \/ AskTrack \/ ApplyTrackMetadata \/ RecordReleases \/ EnrichArtist \/ EnrichAlbum
             \/ MarkEnriched \/ PassFails
    <2>1. /\ InPass /\ ejob' = ejob /\ owed' = owed
          /\ enricher'.batch = enricher.batch /\ enricher'.entity = enricher.entity
          /\ enricher'.job = enricher.job
      BY <1>0, <1>4 DEF InPass, AskTrack, ApplyTrackMetadata, RecordReleases, EnrichArtist,
         EnrichAlbum, MarkEnriched, PassFails, Enrichers
    <2> QED
      BY <1>0, <2>1, PassKeepsJobs
  <1>5. CASE CompleteJob \/ RescheduleJob \/ FailJob
    BY <1>0, <1>5, JobEndKeepsJobs
  <1>6. CASE EnricherCrash
    BY <1>0, <1>6, PassKeepsJobs DEF EnricherCrash
  <1>7. CASE RecordLastfmLength \/ RecordDeezerLength \/ RequeueLengthChecks
    BY <1>0, <1>7, PassKeepsJobs DEF RecordLastfmLength, RecordDeezerLength, RequeueLengthChecks
  <1>8. CASE UnlinkMusicBrainz
    BY <1>0, <1>8, UnlinkKeepsJobs
  <1>9. CASE EnrichClock
    BY <1>0, <1>9, TicksKeepJobs DEF EnrichClock
  <1>10. CASE \E e \in Entities : RequestRefresh(e)
    BY <1>0, <1>10, RefreshKeepsJobs
  <1>11. CASE \E e \in Entities : StampAges(e) \/ EntityGoes(e)
    BY <1>0, <1>11, PassKeepsJobs DEF StampAges, EntityGoes
  <1> QED
    BY <1>1, <1>2, <1>3, <1>4, <1>5, <1>6, <1>7, <1>8, <1>9, <1>10, <1>11
    DEF EnrichNext, EnricherStep

-----------------------------------------------------------------------------
(* The match.                                                               *)

\* Nobody writes the match or a rejection, and the pass keeps what it knows or
\* ends.
LEMMA PassKeepsMatch ==
  ASSUME MatchInv, match' = match, rejected' = rejected, adoptable' = adoptable,
         \/ enricher' = enricher
         \/ enricher'.at \in {"idle", "batch"}
         \/ /\ InPass /\ enricher'.at \notin {"idle", "batch"}
            /\ enricher'.entity = enricher.entity /\ enricher'.skip = enricher.skip
            /\ enricher'.seen = enricher.seen
            /\ enricher'.at \in {"metadata", "releases"} =>
                  /\ enricher.at \in {"metadata", "releases"}
                  /\ enricher'.found = enricher.found
  PROVE  MatchInv'
  BY DEF MatchInv, PassKnows, FoundKnown, RejectedStaysOut, InPass

LEMMA ReadKeepsMatch ==
  ASSUME EnrichTypeOK, MatchInv, NEW c \in enricher.batch, ReadContext(c)
  PROVE  MatchInv'
  <1>1. enricher \in Enrichers
    BY DEF EnrichTypeOK
  <1>2. /\ enricher'.at \in {"ask", "done"} /\ enricher'.entity = c[1]
        /\ enricher'.seen = IF c[1] = "track" THEN match ELSE None
        /\ enricher'.skip = IF c[1] = "track" THEN rejected ELSE {}
    BY <1>1 DEF ReadContext, Enrichers
  <1>3. match' = match /\ rejected' = rejected /\ adoptable' = adoptable
    BY DEF ReadContext, row
  <1> QED
    BY <1>2, <1>3 DEF MatchInv, PassKnows, FoundKnown, RejectedStaysOut, InPass

LEMMA AskKeepsMatch ==
  ASSUME EnrichTypeOK, MatchInv, AskTrack
  PROVE  MatchInv'
  <1>1. enricher \in Enrichers /\ enricher.at = "ask" /\ enricher.entity = "track" /\ InPass
    BY DEF EnrichTypeOK, AskTrack, InPass
  <1>2. /\ enricher'.entity = "track" /\ enricher'.skip = enricher.skip
        /\ enricher'.seen = enricher.seen /\ enricher'.at \in {"metadata", "finish"}
        /\ match' = match /\ rejected' = rejected /\ adoptable \subseteq adoptable'
    BY <1>1 DEF AskTrack, Enrichers, Adopts
  <1>3. enricher'.at = "metadata" =>
           /\ enricher'.found \in Recordings
           /\ enricher'.found \in enricher.skip => enricher'.found \in adoptable'
    <2>1. enricher.seen \in Recordings \cup {None} /\ enricher.hint \in Recordings \cup {None}
      BY <1>1 DEF Enrichers
    <2>2. /\ enricher.seen # None => LookupRecording(enricher.seen) \subseteq Recordings
          /\ FindRecording(enricher.hint, enricher.skip) \subseteq Recordings
      BY <2>1 DEF LookupRecording, FindRecording
    <2> QED
      BY <1>1, <2>2 DEF AskTrack, Enrichers, Adopts
  <1>4. /\ rejected \ enricher.skip \subseteq adoptable
        /\ enricher.seen \in rejected => enricher.seen \in adoptable
    BY <1>1 DEF MatchInv, PassKnows
  <1>6. FoundKnown'
    BY <1>2, <1>3, <1>4 DEF FoundKnown
  <1> QED
    BY <1>2, <1>4, <1>6 DEF MatchInv, PassKnows, RejectedStaysOut, InPass

LEMMA ApplyKeepsMatch ==
  ASSUME EnrichTypeOK, MatchInv, ApplyTrackMetadata
  PROVE  MatchInv'
  <1>1. enricher \in Enrichers /\ enricher.at = "metadata"
    BY DEF EnrichTypeOK, ApplyTrackMetadata
  <1>2. /\ enricher'.at = "releases" /\ enricher'.entity = enricher.entity
        /\ enricher'.skip = enricher.skip /\ enricher'.seen = enricher.seen
        /\ enricher'.found = enricher.found
        /\ rejected' = rejected /\ adoptable' = adoptable
    BY <1>1 DEF ApplyTrackMetadata, Enrichers
  <1>3. match' \in {match, enricher.found}
    BY DEF ApplyTrackMetadata
  <1> QED
    BY <1>1, <1>2, <1>3 DEF MatchInv, PassKnows, FoundKnown, RejectedStaysOut, InPass

LEMMA UnlinkKeepsMatch ==
  ASSUME EnrichTypeOK, MatchInv, UnlinkMusicBrainz
  PROVE  MatchInv'
  <1>1. /\ rejected' = IF match = None THEN rejected ELSE rejected \cup {match}
        /\ match' = None /\ enricher' = enricher
        /\ adoptable' = IF enricher.entity = "track" /\ match # None
                         THEN adoptable \cup {match} ELSE adoptable
    BY DEF UnlinkMusicBrainz
  <1>2. rejected' \subseteq Recordings
    BY <1>1 DEF EnrichTypeOK
  <1>3. RejectedStaysOut'
    BY <1>1, <1>2, EnrichmentConstants DEF RejectedStaysOut
  <1>4. PassKnows'
    BY <1>1 DEF MatchInv, PassKnows, InPass
  <1>5. FoundKnown'
    BY <1>1 DEF MatchInv, FoundKnown
  <1> QED
    BY <1>3, <1>4, <1>5 DEF MatchInv

LEMMA GoesKeepsMatch ==
  ASSUME EnrichTypeOK, MatchInv, NEW e \in Entities, EntityGoes(e)
  PROVE  MatchInv'
  <1>1. enricher' = enricher /\ adoptable' = adoptable
    BY DEF EntityGoes
  <1>2. CASE e = "track"
    <2>1. rejected' = {}
      BY <1>2 DEF EntityGoes
    <2> QED
      BY <1>1, <2>1 DEF MatchInv, PassKnows, FoundKnown, RejectedStaysOut, InPass
  <1>3. CASE e # "track"
    BY <1>1, <1>3, PassKeepsMatch DEF EntityGoes
  <1> QED
    BY <1>2, <1>3

LEMMA MatchStep ==
  ASSUME EnrichInv, EnrichNext
  PROVE  MatchInv'
  <1>0. EnrichTypeOK /\ MatchInv /\ enricher \in Enrichers
    BY DEF EnrichInv, EnrichTypeOK
  <1>1. CASE \/ EnqueueForIngest \/ EnqueueBackfill \/ EnqueueResweep
             \/ DeleteDoneJobs \/ ResetStuckJobs \/ EnrichClock
             \/ RecordLastfmLength \/ RecordDeezerLength \/ RequeueLengthChecks
             \/ \E e \in Entities : RequestRefresh(e) \/ StampAges(e)
    <2>1. match' = match /\ rejected' = rejected /\ adoptable' = adoptable
          /\ enricher' = enricher
      BY <1>1 DEF EnqueueForIngest, EnqueueBackfill, EnqueueResweep, DeleteDoneJobs,
         ResetStuckJobs, EnrichClock, RecordLastfmLength, RecordDeezerLength,
         RequeueLengthChecks, RequestRefresh, StampAges, BackoffEnds, JobAges, row
    <2> QED
      BY <1>0, <2>1, PassKeepsMatch
  <1>2. CASE ClaimDueJobs
    <2>1. enricher'.at = "batch" /\ UNCHANGED row /\ adoptable' = adoptable
      BY <1>2 DEF ClaimDueJobs, Idle
    <2> QED
      BY <1>0, <2>1, PassKeepsMatch DEF row
  <1>3. CASE \E c \in enricher.batch : ReadContext(c)
    BY <1>0, <1>3, ReadKeepsMatch
  <1>4. CASE AskTrack
    BY <1>0, <1>4, AskKeepsMatch
  <1>5. CASE ApplyTrackMetadata
    BY <1>0, <1>5, ApplyKeepsMatch
  <1>6. CASE RecordReleases \/ EnrichArtist \/ EnrichAlbum \/ MarkEnriched \/ PassFails
    <2>1. /\ InPass /\ match' = match /\ rejected' = rejected /\ adoptable' = adoptable
          /\ enricher'.at \in {"finish", "done", "retry"}
          /\ enricher'.entity = enricher.entity /\ enricher'.skip = enricher.skip
          /\ enricher'.seen = enricher.seen
      BY <1>0, <1>6 DEF InPass, RecordReleases, EnrichArtist, EnrichAlbum, MarkEnriched,
         PassFails, Enrichers, row
    <2> QED
      BY <1>0, <2>1, PassKeepsMatch
  <1>7. CASE CompleteJob \/ RescheduleJob \/ FailJob
    <2>1. enricher'.at \in {"idle", "batch"} /\ UNCHANGED row /\ adoptable' = adoptable
      BY <1>0, <1>7, NextOfBatchIs DEF CompleteJob, RescheduleJob, FailJob, PassOver
    <2> QED
      BY <1>0, <2>1, PassKeepsMatch DEF row
  <1>8. CASE EnricherCrash
    BY <1>0, <1>8, IdleWorker, PassKeepsMatch DEF EnricherCrash, row
  <1>9. CASE UnlinkMusicBrainz
    BY <1>0, <1>9, UnlinkKeepsMatch
  <1>10. CASE \E e \in Entities : EntityGoes(e)
    BY <1>0, <1>10, GoesKeepsMatch
  <1> QED
    BY <1>1, <1>2, <1>3, <1>4, <1>5, <1>6, <1>7, <1>8, <1>9, <1>10
    DEF EnrichNext, EnricherStep

-----------------------------------------------------------------------------
(* The theorem.                                                             *)

LEMMA EnrichInitInv == ASSUME EnrichInit PROVE EnrichInv
  <1>1. EnrichTypeOK
    <2>1. catalog \subseteq Entities /\ hint \in Recordings \cup {None}
      BY EnrichmentConstants DEF EnrichInit
    <2>2. ejob \in [Entities -> Jobs] /\ enricher \in Enrichers
      BY NewJobs, IdleWorker DEF EnrichInit
    <2> QED
      BY <2>1, <2>2 DEF EnrichInit, EnrichTypeOK
  <1>2. JobsInv
    BY NewJobs, IdleWorker
    DEF EnrichInit, JobsInv, AttemptsLeft, ClaimsStand, InPass, RefreshNotForgotten
  <1>3. MatchInv
    BY IdleWorker
    DEF EnrichInit, MatchInv, PassKnows, FoundKnown, RejectedStaysOut, InPass
  <1> QED
    BY <1>1, <1>2, <1>3 DEF EnrichInv

LEMMA EnrichStutters == ASSUME EnrichInv, UNCHANGED enrichVars PROVE EnrichInv'
  BY DEF EnrichInv, EnrichTypeOK, JobsInv, AttemptsLeft, ClaimsStand, AsClaimed, InPass,
     RefreshNotForgotten, MatchInv, PassKnows, FoundKnown, RejectedStaysOut, enrichVars

\* However the enqueues, the sweeps, the reset of stuck jobs, a refresh that
\* somebody asks for and a review fall between the steps of the worker, which
\* may fail or die at any of them: a forced refresh is a forced job until a
\* forced pass is through with it, and a recording that was taken back is not
\* the track's unless the pass that adopts it had begun before, or MusicBrainz
\* answered with it to a lookup of another one (enrichment.rs).
THEOREM EnrichmentIsSafe == EnrichSpec => []EnrichmentHolds
  <1>1. EnrichInit => EnrichInv
    BY EnrichInitInv
  <1>2. EnrichInv /\ [EnrichNext]_enrichVars => EnrichInv'
    BY EnrichTypeStep, JobsStep, MatchStep, EnrichStutters DEF EnrichInv
  <1>3. EnrichInv => EnrichmentHolds
    BY DEF EnrichInv, JobsInv, MatchInv, EnrichmentHolds
  <1> QED
    BY <1>1, <1>2, <1>3, PTL DEF EnrichSpec

(***************************************************************************)
(* Taste.                                                                  *)
(***************************************************************************)
(* The inductive invariant.                                                 *)

\* What an account's mode allows among stored recommendations and neighbours.
ServedAsAllowed(u, m, served) == m = "off" => u \notin served
NamedAsAllowed(u, m, pairs) ==
    /\ m = "off" => \A p \in pairs : p[1] # u
    /\ m # "listed" => \A p \in pairs : p[2] # u

\* A change that runs while a run stores is known to.
OverlapsAreKnown ==
    Storing /\ change.at # "idle" => <<change.user, latest.id + 1>> \in overran

\* What a run has inserted and not committed honours every account but those
\* whose change overlapped.
InsertsHonour ==
    \A u \in Listeners :
        Storing /\ <<u, latest.id + 1>> \notin overran =>
            /\ ServedAsAllowed(u, mode[u], run.recommended)
            /\ run.at = "neighbours" => NamedAsAllowed(u, mode[u], run.neighbours)

\* A change whose DELETEs a run did not pass by has deleted, of what is stored,
\* what its new mode does not allow, statement by statement.
DeletesReach ==
    change.at # "idle" =>
        /\ change.user \in Listeners /\ change.to \in Modes
        /\ \/ <<change.user, latest.id>> \in overran
           \/ /\ change.at \in {"own", "recommended", "done"} /\ change.to # "listed" =>
                    \A p \in neighbours : p[2] = change.user => p \in change.gone
              /\ change.at \in {"recommended", "done"} /\ change.to = "off" =>
                    \A p \in neighbours : p[1] = change.user => p \in change.gone
              /\ /\ change.at = "done" /\ change.to = "off"
                 /\ change.user \in recommended
                 => change.user \in change.unrecommended
        /\ change.at \in {"own", "recommended"} => change.to = "off"
        /\ change.at = "named" => change.to # "listed"

RunsLeft == run.at # "idle" => latest.id < MaxRuns
WaitsInChange == change.waits => change.at # "idle"

\* Weights go for good when an erasure begins, and who had some when a run read
\* them is not found weightless but after a crash.
WeightsGo ==
    \A u \in Listeners :
        /\ erasing[u] # "no" => u \notin weighed
        /\ standing[u] = "erased" => erasing[u] # "no"
        /\ u \in run.counted \cup latest.counted /\ u \notin weighed =>
              erasing[u] = "weighed" \/ u \in unmarked
        /\ u \in run.counted /\ standing[u] = "erased" => u \in unmarked

TasteInv ==
    /\ TasteHolds
    /\ OverlapsAreKnown /\ InsertsHonour /\ DeletesReach /\ RunsLeft /\ WaitsInChange
    /\ WeightsGo

\* The names of the actions that neither the run nor a change takes.
AccountSteps ==
    \E u \in Listeners : Leave(u) \/ Return(u) \/ EraseWeights(u) \/ EraseAgain(u)
ReadSteps == ReadAccounts \/ ReadCredits \/ ReadHistories
DeleteSteps == DeleteNaming \/ DeleteOwn \/ DeleteRecommended

-----------------------------------------------------------------------------
(* Types.                                                                   *)

LEMMA Fields ==
  ASSUME TasteTypeOK
  PROVE  /\ run \in RunStates /\ change \in ChangeStates /\ latest \in RunRecords
         /\ latest.id \in 0 .. MaxRuns /\ latest.id \in Nat /\ latest.counted \subseteq Listeners
         /\ run.known \subseteq Listeners /\ run.listed \subseteq Listeners
         /\ run.counted \subseteq Listeners /\ run.served \subseteq Listeners
         /\ run.recommended \subseteq Listeners /\ run.neighbours \subseteq Listeners \X Listeners
         /\ change.gone \subseteq Listeners \X Listeners /\ change.unrecommended \subseteq Listeners
         /\ tasteChanges \in Nat
  BY TasteConstants DEF TasteTypeOK, RunStates, ChangeStates, RunRecords

LEMMA FirstRecords ==
  /\ NotRunning \in RunStates /\ NotRunning.at = "idle" /\ NotRunning.counted = {}
  /\ NoChange \in ChangeStates /\ NoChange.at = "idle" /\ ~NoChange.waits
  /\ NoRun \in RunRecords /\ NoRun.id = 0 /\ NoRun.counted = {}
  BY TasteConstants DEF NotRunning, RunStates, NoChange, ChangeStates, NoRun, RunRecords

\* The accounts stay as they are and the records of the run, of the change and
\* of the results take values of their types.
LEMMA RecordsWritten ==
  ASSUME TasteTypeOK, UNCHANGED <<mode, standing, weighed, erasing>>,
         run' \in RunStates, change' \in ChangeStates, latest' \in RunRecords,
         recommended' \subseteq Listeners, neighbours' \subseteq Listeners \X Listeners,
         tasteChanges' \in 0 .. MaxTasteChanges
  PROVE  TasteTypeOK'
  BY DEF TasteTypeOK

LEMMA ReadsTyped ==
  ASSUME TasteTypeOK, ReadSteps
  PROVE  TasteTypeOK'
  <1>1. run' \in RunStates
    <2>1. CASE ReadAccounts
      BY <2>1 DEF ReadAccounts, NotRunning, RunStates
    <2>2. CASE ReadCredits
      BY <2>2, Fields DEF ReadCredits, RunStates
    <2>3. CASE ReadHistories
      BY <2>3, Fields DEF ReadHistories, RunStates
    <2> QED
      BY <2>1, <2>2, <2>3 DEF ReadSteps
  <1> QED
    BY <1>1, RecordsWritten
    DEF TasteTypeOK, ReadSteps, ReadAccounts, ReadCredits, ReadHistories, accounts, results

LEMMA StoresTyped ==
  ASSUME TasteTypeOK, StoreRecommendations \/ StoreNeighbours
  PROVE  TasteTypeOK'
  <1>1. RecommendedNow \subseteq Listeners /\ NeighboursNow \subseteq Listeners \X Listeners
    BY Fields DEF RecommendedNow, NeighboursNow
  <1>2. run' \in RunStates
    <2>1. CASE StoreRecommendations
      BY <1>1, <2>1, Fields DEF StoreRecommendations, RunStates, Tables
    <2>2. CASE StoreNeighbours
      BY <1>1, <2>2, Fields DEF StoreNeighbours, RunStates, Tables
    <2> QED
      BY <2>1, <2>2
  <1> QED
    BY <1>2, RecordsWritten
    DEF TasteTypeOK, StoreRecommendations, StoreNeighbours, accounts, results

LEMMA CommitRunTyped ==
  ASSUME TasteTypeOK, RunsLeft, CommitRun
  PROVE  TasteTypeOK'
  <1>1. latest.id + 1 \in 0 .. MaxRuns
    BY Fields, TasteConstants DEF RunsLeft, CommitRun
  <1>2. latest' \in RunRecords
    BY <1>1, Fields DEF CommitRun, NoRun, RunRecords
  <1>3. change' \in ChangeStates
    BY Fields DEF CommitRun, ChangeStates, NextStatement
  <1> QED
    BY <1>2, <1>3, Fields, FirstRecords, RecordsWritten DEF TasteTypeOK, CommitRun, accounts

LEMMA RunEndsTyped ==
  ASSUME TasteTypeOK, RunFails \/ RunAges \/ BreakDeadlock
  PROVE  TasteTypeOK'
  <1>1. run' \in RunStates
    BY Fields, FirstRecords DEF RunFails, RunAges, BreakDeadlock, RollBackRun
  <1>2. change' \in ChangeStates
    <2>1. change' \in {change, [change EXCEPT !.waits = FALSE], NoChange}
      BY DEF RunFails, RunAges, BreakDeadlock, RollBackRun
    <2> QED
      BY <2>1, Fields, FirstRecords DEF ChangeStates
  <1>3. latest' \in RunRecords
    BY Fields DEF RunFails, RunAges, BreakDeadlock, results, RunRecords
  <1>4. tasteChanges' \in 0 .. MaxTasteChanges
    BY TasteConstants DEF TasteTypeOK, RunFails, RunAges, BreakDeadlock
  <1> QED
    BY <1>1, <1>2, <1>3, <1>4, RecordsWritten
    DEF TasteTypeOK, RunFails, RunAges, BreakDeadlock, RollBackRun, accounts, results

LEMMA BeginTyped ==
  ASSUME TasteTypeOK, NEW u \in Listeners, NEW m \in Modes, BeginChange(u, m)
  PROVE  TasteTypeOK'
  <1>1. change' \in ChangeStates
    BY FirstRecords DEF BeginChange, NoChange, ChangeStates
  <1>2. tasteChanges' \in 0 .. MaxTasteChanges
    BY TasteConstants DEF TasteTypeOK, BeginChange
  <1> QED
    BY <1>1, <1>2, RecordsWritten DEF TasteTypeOK, BeginChange, accounts, results

\* What a DELETE makes of the change.
LEMMA DeleteIs ==
  ASSUME TasteTypeOK, DeleteSteps
  PROVE  /\ UNCHANGED <<accounts, results, run, erasing, tasteChanges, overran, unmarked>>
         /\ change' \in ChangeStates /\ change.at # "idle"
         /\ change'.user = change.user /\ change'.to = change.to
         /\ \/ /\ change'.at = change.at /\ change'.gone = change.gone
               /\ change'.unrecommended = change.unrecommended
            \/ /\ change.at = "named" /\ change'.at = NextStatement(change)
               /\ change'.gone = NamingOwner
               /\ change'.unrecommended = change.unrecommended
            \/ /\ change.at = "own" /\ change'.at = NextStatement(change)
               /\ change'.gone = change.gone \cup NamedForOwner
               /\ change'.unrecommended = change.unrecommended
            \/ /\ change.at = "recommended" /\ change'.at = NextStatement(change)
               /\ change'.gone = change.gone
               /\ change'.unrecommended = recommended \cap {change.user}
  <1>0. change \in ChangeStates
    BY Fields
  <1>1. NamingOwner \subseteq Listeners \X Listeners /\ NamedForOwner \subseteq Listeners \X Listeners
    BY DEF TasteTypeOK, NamingOwner, NamedForOwner
  <1>2. NextStatement(change) \in {"own", "recommended", "done"}
    BY DEF NextStatement
  <1>3. CASE change' = [change EXCEPT !.waits = TRUE]
    BY <1>0, <1>3 DEF ChangeStates, DeleteSteps, DeleteNaming, DeleteOwn, DeleteRecommended, Delete
  <1>4. CASE /\ DeleteNaming
             /\ change' = [[change EXCEPT !.gone = NamingOwner] EXCEPT !.at = NextStatement(change)]
    BY <1>0, <1>1, <1>2, <1>4 DEF ChangeStates, DeleteNaming, Delete
  <1>5. CASE /\ DeleteOwn
             /\ change' = [[change EXCEPT !.gone = @ \cup NamedForOwner]
                              EXCEPT !.at = NextStatement(change)]
    BY <1>0, <1>1, <1>2, <1>5 DEF ChangeStates, DeleteOwn, Delete
  <1>6. CASE /\ DeleteRecommended
             /\ change' = [[change EXCEPT !.unrecommended = recommended \cap {change.user}]
                              EXCEPT !.at = NextStatement(change)]
    BY <1>0, <1>2, <1>6 DEF ChangeStates, DeleteRecommended, Delete, TasteTypeOK
  <1> QED
    BY <1>3, <1>4, <1>5, <1>6
    DEF DeleteSteps, DeleteNaming, DeleteOwn, DeleteRecommended, Delete

LEMMA DeletesTyped ==
  ASSUME TasteTypeOK, DeleteSteps
  PROVE  TasteTypeOK'
  BY DeleteIs, RecordsWritten DEF TasteTypeOK, accounts, results

LEMMA CommitChangeTyped ==
  ASSUME TasteTypeOK, DeletesReach, CommitChange
  PROVE  TasteTypeOK'
  <1>1. change.user \in Listeners /\ change.to \in Modes
    BY DEF DeletesReach, CommitChange
  <1>2. mode' \in [Listeners -> Modes]
    BY <1>1 DEF TasteTypeOK, CommitChange
  <1> QED
    BY <1>2, FirstRecords DEF TasteTypeOK, CommitChange

LEMMA AccountsTyped ==
  ASSUME TasteTypeOK, AccountSteps
  PROVE  TasteTypeOK'
  <1>1. tasteChanges' \in 0 .. MaxTasteChanges
    BY TasteConstants
    DEF TasteTypeOK, AccountSteps, Leave, Return, EraseWeights, EraseAgain
  <1> QED
    BY <1>1
    DEF TasteTypeOK, AccountSteps, Leave, Return, EraseWeights, EraseAgain, accounts, results

LEMMA EraseRowTyped ==
  ASSUME TasteTypeOK, NEW u \in Listeners, EraseRow(u)
  PROVE  TasteTypeOK'
  <1>1. MarkLatest(erasing[u] = "weighed") \in RunRecords
    BY Fields DEF MarkLatest, RunRecords
  <1>2. standing' \in [Listeners -> {"open", "leaving", "erased"}]
    BY DEF TasteTypeOK, EraseRow
  <1> QED
    BY <1>1, <1>2 DEF TasteTypeOK, EraseRow

LEMMA TasteTypeStep ==
  ASSUME TasteInv, TasteNext
  PROVE  TasteTypeOK'
  <1> USE DEF TasteInv, TasteHolds
  <1>1. CASE ReadSteps
    BY <1>1, ReadsTyped
  <1>2. CASE StoreRecommendations \/ StoreNeighbours
    BY <1>2, StoresTyped
  <1>3. CASE CommitRun
    BY <1>3, CommitRunTyped
  <1>4. CASE RunFails \/ RunAges \/ BreakDeadlock
    BY <1>4, RunEndsTyped
  <1>5. CASE \E u \in Listeners, m \in Modes : BeginChange(u, m)
    BY <1>5, BeginTyped
  <1>6. CASE DeleteSteps
    BY <1>6, DeletesTyped
  <1>7. CASE CommitChange
    BY <1>7, CommitChangeTyped
  <1>8. CASE AccountSteps
    BY <1>8, AccountsTyped
  <1>9. CASE \E u \in Listeners : EraseRow(u)
    BY <1>9, EraseRowTyped
  <1> QED
    BY <1>1, <1>2, <1>3, <1>4, <1>5, <1>6, <1>7, <1>8, <1>9
    DEF TasteNext, ReadSteps, DeleteSteps, AccountSteps

-----------------------------------------------------------------------------
(* The run and the changes that overlap its store.                          *)

\* What the invariant of the store reads stays, or the run stores no more.
LEMMA StoreStands ==
  ASSUME OverlapsAreKnown, InsertsHonour, mode' = mode,
         \/ run'.at \notin {"recommendations", "neighbours"}
         \/ /\ run' = run /\ latest'.id = latest.id /\ overran' = overran
            /\ change'.at # "idle" => change.at # "idle" /\ change'.user = change.user
  PROVE  OverlapsAreKnown' /\ InsertsHonour'
  BY DEF OverlapsAreKnown, InsertsHonour, Storing, ServedAsAllowed, NamedAsAllowed

LEMMA StoreStep ==
  ASSUME TasteInv, TasteNext
  PROVE  OverlapsAreKnown' /\ InsertsHonour'
  <1>0. TasteTypeOK /\ OverlapsAreKnown /\ InsertsHonour /\ DeletesReach
    BY DEF TasteInv, TasteHolds
  <1>f. run \in RunStates /\ latest.id \in Nat
    BY <1>0, Fields
  <1>1. CASE ReadSteps
    <2>1. run'.at \in {"accounts", "credits", "computed"} /\ mode' = mode
      BY <1>f, <1>1
      DEF ReadSteps, ReadAccounts, ReadCredits, ReadHistories, NotRunning, RunStates, accounts
    <2> QED
      BY <1>0, <2>1, StoreStands
  <1>2. CASE StoreRecommendations
    <2>1. /\ run'.at = "recommendations" /\ run'.recommended = RecommendedNow
          /\ mode' = mode /\ latest' = latest /\ change' = change
          /\ overran' = overran \cup Overlapping
      BY <1>f, <1>2 DEF StoreRecommendations, RunStates, accounts, results
    <2>2. \A u \in Listeners : ServedAsAllowed(u, mode[u], RecommendedNow)
      BY DEF ServedAsAllowed, RecommendedNow, MayBeServed
    <2> QED
      BY <2>1, <2>2 DEF OverlapsAreKnown, InsertsHonour, Storing, Overlapping, ServedAsAllowed
  <1>3. CASE StoreNeighbours
    <2>1. /\ run.at = "recommendations" /\ run'.at = "neighbours"
          /\ run'.neighbours = NeighboursNow /\ run'.recommended = run.recommended
          /\ mode' = mode /\ latest' = latest /\ change' = change /\ overran' = overran
      BY <1>f, <1>3 DEF StoreNeighbours, RunStates, accounts, results
    <2>2. \A u \in Listeners : NamedAsAllowed(u, mode[u], NeighboursNow)
      BY DEF NamedAsAllowed, NeighboursNow, MayBeServed, MayBeNamed
    <2>3. OverlapsAreKnown'
      BY <1>0, <2>1 DEF OverlapsAreKnown, Storing
    <2>4. InsertsHonour'
      BY <1>0, <2>1, <2>2 DEF InsertsHonour, Storing, ServedAsAllowed, NamedAsAllowed
    <2> QED
      BY <2>3, <2>4
  <1>4. CASE CommitRun \/ RunFails
    BY <1>0, <1>4, FirstRecords, StoreStands DEF CommitRun, RunFails, RollBackRun, accounts
  <1>5. CASE RunAges
    <2>1. latest'.id = latest.id
      BY <1>0, <1>5, Fields DEF RunAges, RunRecords
    <2> QED
      BY <1>0, <1>5, <2>1, StoreStands DEF RunAges, accounts
  <1>6. CASE BreakDeadlock
    <2>1. CASE RollBackRun
      BY <1>0, <1>6, <2>1, FirstRecords, StoreStands DEF BreakDeadlock, RollBackRun, accounts
    <2>2. CASE change' = NoChange /\ UNCHANGED <<run, overran>>
      BY <1>0, <1>6, <2>2, FirstRecords, StoreStands DEF BreakDeadlock, accounts, results
    <2> QED
      BY <1>6, <2>1, <2>2 DEF BreakDeadlock
  <1>7. CASE \E u \in Listeners, m \in Modes : BeginChange(u, m)
    <2>1. PICK u \in Listeners, m \in Modes : BeginChange(u, m)
      BY <1>7
    <2>2. /\ run' = run /\ mode' = mode /\ latest' = latest /\ change'.user = u
          /\ overran \subseteq overran'
          /\ Storing => <<u, latest.id + 1>> \in overran'
      BY <2>1 DEF BeginChange, NoChange, accounts, results
    <2> QED
      BY <1>0, <2>2
      DEF OverlapsAreKnown, InsertsHonour, Storing, ServedAsAllowed, NamedAsAllowed
  <1>8. CASE DeleteSteps
    BY <1>0, <1>8, DeleteIs, StoreStands DEF accounts, results
  <1>9. CASE CommitChange
    <2>1. /\ run' = run /\ latest' = latest /\ overran' = overran /\ change'.at = "idle"
          /\ mode' = [mode EXCEPT ![change.user] = change.to] /\ change.at # "idle"
      BY <1>9, FirstRecords DEF CommitChange
    <2>2. Storing => <<change.user, latest.id + 1>> \in overran
      BY <1>0, <2>1 DEF OverlapsAreKnown
    <2>3. \A u \in Listeners : u # change.user => mode'[u] = mode[u]
      BY <1>0, <2>1 DEF TasteTypeOK
    <2> QED
      BY <1>0, <2>1, <2>2, <2>3
      DEF OverlapsAreKnown, InsertsHonour, Storing, ServedAsAllowed, NamedAsAllowed
  <1>10. CASE AccountSteps
    BY <1>0, <1>10, StoreStands
    DEF AccountSteps, Leave, Return, EraseWeights, EraseAgain, accounts, results
  <1>11. CASE \E u \in Listeners : EraseRow(u)
    <2>1. latest'.id = latest.id
      BY <1>0, <1>11, Fields DEF EraseRow, MarkLatest, RunRecords
    <2> QED
      BY <1>0, <1>11, <2>1, StoreStands DEF EraseRow
  <1> QED
    BY <1>1, <1>2, <1>3, <1>4, <1>5, <1>6, <1>7, <1>8, <1>9, <1>10, <1>11
    DEF TasteNext, ReadSteps, DeleteSteps, AccountSteps

-----------------------------------------------------------------------------
(* What is stored, and a change's DELETEs.                                  *)

\* What an account that did not overlap finds stored.
Honoured(u) ==
    /\ ServedAsAllowed(u, mode[u], recommended)
    /\ NamedAsAllowed(u, mode[u], neighbours)

LEMMA OptedOutIs ==
  OptedOutIsGone <=> \A u \in Listeners : <<u, latest.id>> \in overran \/ Honoured(u)
  BY DEF OptedOutIsGone, Honoured, ServedAsAllowed, NamedAsAllowed

\* Nothing is stored, only deleted, and overlaps of stored runs are kept.
LEMMA ResultsShrink ==
  ASSUME OptedOutIsGone, DeletesReach, mode' = mode, latest'.id = latest.id,
         recommended' \subseteq recommended, neighbours' \subseteq neighbours,
         \A u \in Listeners : <<u, latest.id>> \in overran => <<u, latest.id>> \in overran',
         \/ change'.at = "idle"
         \/ /\ change.at # "idle" /\ change'.at = change.at /\ change'.user = change.user
            /\ change'.to = change.to /\ change'.gone = change.gone
            /\ change'.unrecommended = change.unrecommended
  PROVE  OptedOutIsGone' /\ DeletesReach'
  <1>1. OptedOutIsGone'
    BY DEF OptedOutIsGone
  <1>2. DeletesReach'
    BY DEF DeletesReach
  <1> QED
    BY <1>1, <1>2

\* A rollback forgets the overlaps of the run that was not stored.
LEMMA RolledBack ==
  ASSUME TasteTypeOK, RollBackRun
  PROVE  /\ \A u \in Listeners : <<u, latest.id>> \in overran => <<u, latest.id>> \in overran'
         /\ change'.at = change.at /\ change'.user = change.user
         /\ change'.to = change.to /\ change'.gone = change.gone
         /\ change'.unrecommended = change.unrecommended
  <1>1. latest.id \in Nat /\ change \in ChangeStates
    BY Fields
  <1>2. latest.id # latest.id + 1
    BY <1>1
  <1> QED
    BY <1>1, <1>2 DEF RollBackRun, ChangeStates

LEMMA CommitRunStores ==
  ASSUME TasteInv, CommitRun
  PROVE  OptedOutIsGone' /\ DeletesReach'
  <1>0. TasteTypeOK /\ OverlapsAreKnown /\ InsertsHonour /\ DeletesReach
    BY DEF TasteInv, TasteHolds
  <1>1. /\ Storing /\ run.at = "neighbours" /\ mode' = mode /\ overran' = overran
        /\ recommended' = run.recommended /\ neighbours' = run.neighbours
        /\ latest'.id = latest.id + 1
    BY <1>0, Fields DEF CommitRun, Storing, NoRun, accounts
  <1>2. /\ change'.user = change.user /\ change'.to = change.to
        /\ change'.at = "idle" <=> change.at = "idle"
        /\ \/ change'.at = change.at
           \/ change'.at = NextStatement(change)
    <2>1. change \in ChangeStates
      BY <1>0, Fields
    <2>2. NextStatement(change) \in {"own", "recommended", "done"}
      BY DEF NextStatement
    <2>3. change.waits => change.at # "idle"
      BY <1>0 DEF TasteInv, WaitsInChange
    <2> QED
      BY <2>1, <2>2, <2>3 DEF CommitRun, ChangeStates
  <1>3. OptedOutIsGone'
    BY <1>0, <1>1, OptedOutIs
    DEF InsertsHonour, OptedOutIsGone, ServedAsAllowed, NamedAsAllowed
  <1>4. change.at # "idle" => <<change.user, latest.id + 1>> \in overran
    BY <1>0, <1>1 DEF OverlapsAreKnown
  <1>5. DeletesReach'
    BY <1>0, <1>1, <1>2, <1>4 DEF DeletesReach, NextStatement
  <1> QED
    BY <1>3, <1>5

LEMMA BeginStands ==
  ASSUME OptedOutIsGone, NEW u \in Listeners, NEW m \in Modes, BeginChange(u, m)
  PROVE  OptedOutIsGone' /\ DeletesReach'
  <1>1. /\ mode' = mode /\ latest' = latest /\ recommended' = recommended
        /\ neighbours' = neighbours /\ overran \subseteq overran'
    BY DEF BeginChange, accounts, results
  <1>2. /\ change'.user = u /\ change'.to = m
        /\ change'.at = IF m = "listed" THEN "done" ELSE "named"
    BY DEF BeginChange, NoChange
  <1>3. OptedOutIsGone'
    BY <1>1 DEF OptedOutIsGone
  <1>4. DeletesReach'
    BY <1>2 DEF DeletesReach
  <1> QED
    BY <1>3, <1>4

LEMMA DeletesReachOn ==
  ASSUME TasteTypeOK, OptedOutIsGone, DeletesReach, DeleteSteps
  PROVE  OptedOutIsGone' /\ DeletesReach'
  <1>1. /\ mode' = mode /\ latest' = latest /\ recommended' = recommended
        /\ neighbours' = neighbours /\ overran' = overran
        /\ change.at # "idle" /\ change'.user = change.user /\ change'.to = change.to
    BY DeleteIs DEF accounts, results
  <1>2. OptedOutIsGone'
    BY <1>1 DEF OptedOutIsGone
  <1>3. change.user \in Listeners /\ change.to \in Modes
    BY <1>1 DEF DeletesReach
  <1>4. CASE /\ change'.at = change.at /\ change'.gone = change.gone
             /\ change'.unrecommended = change.unrecommended
    BY <1>1, <1>2, <1>4 DEF DeletesReach
  <1>5. CASE /\ change.at = "named" /\ change'.at = NextStatement(change)
             /\ change'.gone = NamingOwner
    BY <1>1, <1>2, <1>3, <1>5 DEF DeletesReach, NextStatement, NamingOwner
  <1>6. CASE /\ change.at = "own" /\ change'.at = NextStatement(change)
             /\ change'.gone = change.gone \cup NamedForOwner
    BY <1>1, <1>2, <1>3, <1>6 DEF DeletesReach, NextStatement, NamedForOwner
  <1>7. CASE /\ change.at = "recommended" /\ change'.at = NextStatement(change)
             /\ change'.gone = change.gone
             /\ change'.unrecommended = recommended \cap {change.user}
    BY <1>1, <1>2, <1>3, <1>7 DEF DeletesReach, NextStatement
  <1> QED
    BY <1>2, <1>4, <1>5, <1>6, <1>7, DeleteIs

LEMMA CommitChangeHonours ==
  ASSUME TasteTypeOK, OptedOutIsGone, DeletesReach, CommitChange
  PROVE  OptedOutIsGone' /\ DeletesReach'
  <1>1. /\ mode' = [mode EXCEPT ![change.user] = change.to] /\ change.at = "done"
        /\ neighbours' = neighbours \ change.gone
        /\ recommended' = recommended \ change.unrecommended
        /\ latest' = latest /\ overran' = overran /\ change'.at = "idle"
    BY FirstRecords DEF CommitChange
  <1>2. change.user \in Listeners /\ change.to \in Modes
    BY <1>1 DEF DeletesReach
  <1>3. ASSUME NEW u \in Listeners, <<u, latest.id>> \notin overran
        PROVE  Honoured(u)'
    <2>1. CASE u = change.user
      <3>1. mode'[u] = change.to
        BY <1>1, <1>2, <2>1 DEF TasteTypeOK
      <3>2. /\ change.to # "listed" =>
                  \A p \in neighbours : p[2] = u => p \in change.gone
            /\ change.to = "off" => /\ \A p \in neighbours : p[1] = u => p \in change.gone
                                    /\ u \in recommended => u \in change.unrecommended
        BY <1>1, <1>3, <2>1 DEF DeletesReach
      <3> QED
        BY <1>1, <3>1, <3>2 DEF Honoured, ServedAsAllowed, NamedAsAllowed
    <2>2. CASE u # change.user
      <3>1. mode'[u] = mode[u] /\ Honoured(u)
        BY <1>1, <1>3, <2>2, OptedOutIs DEF TasteTypeOK
      <3> QED
        BY <1>1, <3>1 DEF Honoured, ServedAsAllowed, NamedAsAllowed
    <2> QED
      BY <2>1, <2>2
  <1>4. OptedOutIsGone'
    BY <1>1, <1>3 DEF OptedOutIsGone, Honoured, ServedAsAllowed, NamedAsAllowed
  <1> QED
    BY <1>1, <1>2, <1>4 DEF DeletesReach

LEMMA ResultsStep ==
  ASSUME TasteInv, TasteNext
  PROVE  OptedOutIsGone' /\ DeletesReach'
  <1>0. TasteTypeOK /\ OptedOutIsGone /\ DeletesReach
    BY DEF TasteInv, TasteHolds
  <1>1. CASE ReadSteps
    BY <1>0, <1>1, ResultsShrink
    DEF ReadSteps, ReadAccounts, ReadCredits, ReadHistories, accounts, results
  <1>2. CASE StoreRecommendations \/ StoreNeighbours
    BY <1>0, <1>2, ResultsShrink DEF StoreRecommendations, StoreNeighbours, accounts, results
  <1>3. CASE CommitRun
    BY <1>3, CommitRunStores
  <1>4. CASE RunFails
    BY <1>0, <1>4, RolledBack, ResultsShrink DEF RunFails, accounts, results
  <1>5. CASE RunAges
    <2>1. latest'.id = latest.id
      BY <1>0, <1>5, Fields DEF RunAges, RunRecords
    <2> QED
      BY <1>0, <1>5, <2>1, ResultsShrink DEF RunAges, accounts
  <1>6. CASE BreakDeadlock
    <2>1. CASE RollBackRun
      BY <1>0, <1>6, <2>1, RolledBack, ResultsShrink DEF BreakDeadlock, accounts, results
    <2>2. CASE change' = NoChange /\ UNCHANGED <<run, overran>>
      BY <1>0, <1>6, <2>2, FirstRecords, ResultsShrink DEF BreakDeadlock, accounts, results
    <2> QED
      BY <1>6, <2>1, <2>2 DEF BreakDeadlock
  <1>7. CASE \E u \in Listeners, m \in Modes : BeginChange(u, m)
    BY <1>0, <1>7, BeginStands
  <1>8. CASE DeleteSteps
    BY <1>0, <1>8, DeletesReachOn
  <1>9. CASE CommitChange
    BY <1>0, <1>9, CommitChangeHonours
  <1>10. CASE AccountSteps
    BY <1>0, <1>10, ResultsShrink
    DEF AccountSteps, Leave, Return, EraseWeights, EraseAgain, accounts, results
  <1>11. CASE \E u \in Listeners : EraseRow(u)
    <2>1. latest'.id = latest.id
      BY <1>0, <1>11, Fields DEF EraseRow, MarkLatest, RunRecords
    <2> QED
      BY <1>0, <1>11, <2>1, ResultsShrink DEF EraseRow
  <1> QED
    BY <1>1, <1>2, <1>3, <1>4, <1>5, <1>6, <1>7, <1>8, <1>9, <1>10, <1>11
    DEF TasteNext, ReadSteps, DeleteSteps, AccountSteps

-----------------------------------------------------------------------------
(* Bounds of the run, and the weights.                                      *)

LEMMA BoundsStep ==
  ASSUME TasteInv, TasteNext
  PROVE  RunsLeft' /\ WaitsInChange'
  <1>0. TasteTypeOK /\ RunsLeft /\ WaitsInChange /\ run \in RunStates /\ change \in ChangeStates
    BY Fields DEF TasteInv, TasteHolds
  <1>1. CASE ReadSteps \/ StoreRecommendations \/ StoreNeighbours
    <2>1. latest' = latest /\ change' = change /\ latest.id < MaxRuns
      BY <1>0, <1>1 DEF ReadSteps, ReadAccounts, ReadCredits, ReadHistories, RunsLeft,
         StoreRecommendations, StoreNeighbours, results
    <2> QED
      BY <1>0, <2>1 DEF RunsLeft, WaitsInChange
  <1>2. CASE CommitRun
    <2>1. run'.at = "idle" /\ change' \in {change, [change EXCEPT !.waits = FALSE,
                                                                  !.at = NextStatement(change)]}
      BY <1>2, FirstRecords DEF CommitRun
    <2>2. change'.waits => change' = change
      BY <1>0, <1>2, <2>1 DEF CommitRun, ChangeStates
    <2> QED
      BY <1>0, <2>1, <2>2 DEF RunsLeft, WaitsInChange
  <1>3. CASE RunFails \/ BreakDeadlock
    <2>1. /\ latest' = latest
          /\ run' \in {run, NotRunning}
          /\ change' \in {NoChange, [change EXCEPT !.waits = FALSE]}
      BY <1>3 DEF RunFails, BreakDeadlock, RollBackRun, results
    <2>2. run'.at # "idle" => run'.at = run.at
      BY <2>1, FirstRecords
    <2>3. ~change'.waits
      BY <1>0, <2>1, FirstRecords DEF ChangeStates
    <2> QED
      BY <1>0, <2>1, <2>2, <2>3 DEF RunsLeft, WaitsInChange
  <1>4. CASE RunAges \/ \E u \in Listeners : EraseRow(u)
    <2>1. latest'.id = latest.id /\ run' = run /\ change' = change
      BY <1>0, <1>4, Fields DEF RunAges, EraseRow, MarkLatest, RunRecords
    <2> QED
      BY <1>0, <2>1 DEF RunsLeft, WaitsInChange
  <1>5. CASE CommitChange \/ \E u \in Listeners, m \in Modes : BeginChange(u, m)
    <2>1. latest' = latest /\ run' = run /\ ~change'.waits
      BY <1>5, FirstRecords DEF CommitChange, BeginChange, NoChange, results
    <2> QED
      BY <1>0, <2>1 DEF RunsLeft, WaitsInChange
  <1>6. CASE DeleteSteps
    <2>1. latest' = latest /\ run' = run
      BY <1>0, <1>6, DeleteIs DEF results
    <2>2. change'.at # "idle"
      BY <1>0, <1>6, DeleteIs DEF NextStatement
    <2> QED
      BY <1>0, <2>1, <2>2 DEF RunsLeft, WaitsInChange
  <1>7. CASE AccountSteps
    BY <1>0, <1>7 DEF RunsLeft, WaitsInChange, AccountSteps, Leave, Return, EraseWeights,
       EraseAgain, results
  <1> QED
    BY <1>1, <1>2, <1>3, <1>4, <1>5, <1>6, <1>7
    DEF TasteNext, ReadSteps, DeleteSteps, AccountSteps

\* Neither weights nor erasures move, no run counts more, and the newest stays
\* due if it was.
LEMMA WeightsStand ==
  ASSUME WeightsGo, ErasedAreRecounted, UNCHANGED <<standing, weighed, erasing, unmarked>>,
         run'.counted \subseteq run.counted, latest'.counted = latest.counted, Due => Due'
  PROVE  WeightsGo' /\ ErasedAreRecounted'
  BY DEF WeightsGo, ErasedAreRecounted

LEMMA EraseRowRecounts ==
  ASSUME TasteTypeOK, WeightsGo, ErasedAreRecounted, NEW u \in Listeners, EraseRow(u)
  PROVE  WeightsGo' /\ ErasedAreRecounted'
  <1>1. /\ standing' = [standing EXCEPT ![u] = "erased"] /\ erasing' = erasing
        /\ weighed' = weighed /\ run' = run /\ erasing[u] # "no"
        /\ latest' = MarkLatest(erasing[u] = "weighed")
        /\ unmarked' = IF u \in run.counted THEN unmarked \cup {u} ELSE unmarked
    BY DEF EraseRow
  <1>2. /\ latest'.counted = latest.counted /\ latest'.id = latest.id
        /\ latest'.old = latest.old
        /\ latest.invalidated /\ latest.id # 0 => latest'.invalidated
        /\ erasing[u] = "weighed" /\ latest.id # 0 => latest'.invalidated
    <2>2. latest \in RunRecords
      BY Fields
    <2>3. CASE erasing[u] = "weighed"
      <3>1. latest' = [latest EXCEPT !.invalidated = latest.id # 0]
        BY <1>1, <2>3 DEF MarkLatest
      <3> QED
        BY <2>2, <3>1 DEF RunRecords
    <2>4. CASE erasing[u] # "weighed"
      <3>1. latest' = latest
        BY <1>1, <2>4 DEF MarkLatest
      <3> QED
        BY <2>4, <3>1
    <2> QED
      BY <2>3, <2>4
  <1>3. Due => Due'
    BY <1>2 DEF Due
  <1>4. erasing[u] = "weighed" => Due'
    BY <1>2 DEF Due
  <1>5. standing'[u] = "erased" /\ \A v \in Listeners \ {u} : standing'[v] = standing[v]
    BY <1>1 DEF TasteTypeOK
  <1>6. u \in latest.counted => erasing[u] = "weighed" \/ u \in unmarked
    BY <1>1 DEF WeightsGo
  <1>7. latest.counted \subseteq Listeners
    BY Fields
  <1>8. WeightsGo'
    BY <1>1, <1>2, <1>5 DEF WeightsGo
  <1>9. ErasedAreRecounted'
    BY <1>1, <1>2, <1>3, <1>4, <1>5, <1>6, <1>7 DEF ErasedAreRecounted
  <1> QED
    BY <1>8, <1>9

LEMMA AccountsRecount ==
  ASSUME TasteTypeOK, WeightsGo, ErasedAreRecounted, AccountSteps
  PROVE  WeightsGo' /\ ErasedAreRecounted'
  <1>1. /\ latest' = latest /\ run' = run /\ Due' = Due
        /\ \A u \in Listeners : standing'[u] = "erased" <=> standing[u] = "erased"
        /\ unmarked \subseteq unmarked'
    BY DEF AccountSteps, Leave, Return, EraseWeights, EraseAgain, results, accounts, Due,
       TasteTypeOK
  <1>2. ErasedAreRecounted'
    BY <1>1, Fields DEF ErasedAreRecounted
  <1>3. CASE \E u \in Listeners : Leave(u) \/ Return(u)
    BY <1>1, <1>2, <1>3 DEF WeightsGo, Leave, Return
  <1>4. CASE \E u \in Listeners : EraseWeights(u)
    <2>1. PICK u \in Listeners : EraseWeights(u)
      BY <1>4
    <2>2. /\ weighed' = weighed \ {u} /\ unmarked' = unmarked
          /\ erasing'[u] = IF u \in weighed THEN "weighed" ELSE "weightless"
          /\ erasing[u] = "no" /\ \A v \in Listeners \ {u} : erasing'[v] = erasing[v]
      BY <2>1 DEF EraseWeights, TasteTypeOK
    <2> QED
      BY <1>1, <1>2, <2>2 DEF WeightsGo
  <1>5. CASE \E u \in Listeners : EraseAgain(u)
    <2>1. PICK u \in Listeners : EraseAgain(u)
      BY <1>5
    <2>2. /\ weighed' = weighed /\ unmarked' = unmarked \cup {u}
          /\ erasing'[u] = "weightless" /\ erasing[u] = "weighed"
          /\ \A v \in Listeners \ {u} : erasing'[v] = erasing[v]
      BY <2>1 DEF EraseAgain, TasteTypeOK, accounts
    <2> QED
      BY <1>1, <1>2, <2>2 DEF WeightsGo
  <1> QED
    BY <1>2, <1>3, <1>4, <1>5 DEF AccountSteps

LEMMA WeightsStep ==
  ASSUME TasteInv, TasteNext
  PROVE  WeightsGo' /\ ErasedAreRecounted'
  <1>0. TasteTypeOK /\ WeightsGo /\ ErasedAreRecounted
    BY DEF TasteInv, TasteHolds
  <1>f. run \in RunStates /\ latest \in RunRecords
    BY <1>0, Fields
  <1>1. CASE ReadCredits
    <2>1. /\ run'.counted = weighed \cap run.known /\ latest' = latest
          /\ UNCHANGED <<standing, weighed, erasing, unmarked>>
      BY <1>f, <1>1 DEF ReadCredits, RunStates, accounts, results
    <2>2. Due' = Due
      BY <2>1 DEF Due
    <2> QED
      BY <1>0, <2>1, <2>2 DEF WeightsGo, ErasedAreRecounted
  <1>2. CASE ReadAccounts \/ ReadHistories \/ StoreRecommendations \/ StoreNeighbours
    <2>1. /\ run'.counted \subseteq run.counted /\ latest' = latest
          /\ UNCHANGED <<standing, weighed, erasing, unmarked>>
      BY <1>f, <1>2 DEF ReadAccounts, ReadHistories, StoreRecommendations, StoreNeighbours,
         RunStates, NotRunning, accounts, results
    <2> QED
      BY <1>0, <2>1, WeightsStand DEF Due
  <1>3. CASE CommitRun
    <2>1. /\ run'.counted = {} /\ latest'.counted = run.counted
          /\ UNCHANGED <<standing, weighed, erasing, unmarked>>
      BY <1>3, FirstRecords DEF CommitRun, NoRun, accounts
    <2>2. run.counted \subseteq Listeners
      BY <1>0, Fields
    <2> QED
      BY <1>0, <2>1, <2>2 DEF WeightsGo, ErasedAreRecounted
  <1>4. CASE \/ RunFails \/ BreakDeadlock \/ DeleteSteps \/ CommitChange
             \/ \E u \in Listeners, m \in Modes : BeginChange(u, m)
    <2>1. /\ run' \in {run, NotRunning} /\ latest' = latest
          /\ UNCHANGED <<standing, weighed, erasing, unmarked>>
      BY <1>0, <1>4, DeleteIs DEF RunFails, BreakDeadlock, RollBackRun, CommitChange,
         BeginChange, accounts, results
    <2>2. run'.counted \subseteq run.counted
      BY <2>1, FirstRecords
    <2> QED
      BY <1>0, <2>1, <2>2, WeightsStand DEF Due
  <1>5. CASE RunAges
    <2>1. /\ run' = run /\ UNCHANGED <<standing, weighed, erasing, unmarked>>
          /\ latest'.counted = latest.counted /\ latest'.old
      BY <1>f, <1>5 DEF RunAges, RunRecords, accounts
    <2> QED
      BY <1>0, <2>1, WeightsStand DEF Due
  <1>6. CASE AccountSteps
    BY <1>0, <1>6, AccountsRecount
  <1>7. CASE \E u \in Listeners : EraseRow(u)
    BY <1>0, <1>7, EraseRowRecounts
  <1> QED
    BY <1>1, <1>2, <1>3, <1>4, <1>5, <1>6, <1>7 DEF TasteNext, DeleteSteps, AccountSteps

-----------------------------------------------------------------------------
(* The theorem.                                                             *)

LEMMA TasteInitInv == ASSUME TasteInit PROVE TasteInv
  <1>1. TasteTypeOK
    <2>1. latest \in RunRecords /\ run \in RunStates /\ change \in ChangeStates
      BY FirstRecords DEF TasteInit
    <2> QED
      BY <2>1, TasteConstants DEF TasteInit, TasteTypeOK, Modes
  <1>2. OptedOutIsGone /\ ErasedAreRecounted
    BY FirstRecords DEF TasteInit, OptedOutIsGone, ErasedAreRecounted
  <1>3. ~Storing /\ change.at = "idle" /\ run.at = "idle" /\ ~change.waits
    BY FirstRecords DEF TasteInit, Storing
  <1>4. WeightsGo
    BY FirstRecords DEF TasteInit, WeightsGo
  <1> QED
    BY <1>1, <1>2, <1>3, <1>4 DEF TasteInv, TasteHolds, OverlapsAreKnown, InsertsHonour,
       DeletesReach, RunsLeft, WaitsInChange

LEMMA TasteStutters == ASSUME TasteInv, UNCHANGED tasteVars PROVE TasteInv'
  BY DEF TasteInv, TasteHolds, TasteTypeOK, OptedOutIsGone, ErasedAreRecounted, Due,
     OverlapsAreKnown, InsertsHonour, Storing, DeletesReach, RunsLeft, WaitsInChange,
     WeightsGo, tasteVars

\* Wherever changes of setting, deletions, erasures and crashes fall among the
\* reads, the statements and the commit of a run, and whichever of the two
\* transactions a deadlock takes: what is stored keeps to the settings as they
\* are, but for a change that overlapped the store itself, also when the change
\* is given up; and the erasure of an account the newest run counts makes the
\* next run due (similarity.rs, store; accounts.rs, delete_user_row).
THEOREM TasteIsSafe == TasteSpec => []TasteHolds
  <1>1. TasteInit => TasteInv
    BY TasteInitInv
  <1>2. TasteInv /\ [TasteNext]_tasteVars => TasteInv'
    BY TasteTypeStep, StoreStep, ResultsStep, BoundsStep, WeightsStep, TasteStutters
    DEF TasteInv, TasteHolds
  <1>3. TasteInv => TasteHolds
    BY DEF TasteInv
  <1> QED
    BY <1>1, <1>2, <1>3, PTL DEF TasteSpec

(***************************************************************************)
(* First elements.                                                         *)
(***************************************************************************)
\* A set that is not empty and finite has a first element in any strict order.
LEMMA MinimalExists ==
  ASSUME NEW S, IsFiniteSet(S), S # {}, NEW R,
         \A e \in S : <<e, e>> \notin R,
         \A e, f, g \in S : <<e, f>> \in R /\ <<f, g>> \in R => <<e, g>> \in R
  PROVE  \E e \in S : \A f \in S : <<f, e>> \notin R
  <1> DEFINE before(e) == {f \in S : <<f, e>> \in R}
             T == {before(e) : e \in S}
  <1>1. T \subseteq FiniteSubsetsOf(S) /\ T # {}
    <2>1. \A e \in S : before(e) \in SUBSET S
      OBVIOUS
    <2>2. PICK e \in S : TRUE
      OBVIOUS
    <2>3. before(e) \in T
      OBVIOUS
    <2>4. T \subseteq SUBSET S
      <3> HIDE DEF before
      <3> QED
        BY <2>1
    <2> HIDE DEF T
    <2> QED
      BY <2>3, <2>4, FS_FiniteSubsetsOfFinite
  <1>2. IsWellFoundedOn(StrictSubsetOrdering(S), FiniteSubsetsOf(S))
    BY FS_StrictSubsetOrderingWellFounded
  <1>3. \E x \in T : \A y \in T : <<y, x>> \notin StrictSubsetOrdering(S)
    <2> HIDE DEF T
    <2> QED
      BY <1>1, <1>2, WFMin
  <1>4. PICK e \in S : \A f \in S : <<before(f), before(e)>> \notin StrictSubsetOrdering(S)
    <2>1. PICK x \in T : \A y \in T : <<y, x>> \notin StrictSubsetOrdering(S)
      BY <1>3
    <2>2. PICK e \in S : x = before(e)
      BY <2>1
    <2>3. \A f \in S : before(f) \in T
      OBVIOUS
    <2> HIDE DEF before, T
    <2> QED
      BY <2>1, <2>2, <2>3
  <1>5. ASSUME NEW f \in S, <<f, e>> \in R
        PROVE  FALSE
    <2>1. before(f) \subseteq before(e)
      BY <1>5
    <2>2. f \in before(e) /\ f \notin before(f)
      BY <1>5
    <2>3. before(f) \in SUBSET S /\ before(e) \in SUBSET S
      OBVIOUS
    <2> HIDE DEF before
    <2>4. <<before(f), before(e)>> \in StrictSubsetOrdering(S)
      BY <2>1, <2>2, <2>3 DEF StrictSubsetOrdering
    <2> QED
      BY <1>4, <2>4
  <1> QED
    BY <1>5

\* Of S, those fewer than n of the others precede.
FirstBy(S, R, n) == {a \in S : Cardinality({b \in S : <<b, a>> \in R}) < n}

\* In a strict order of all of S, the first n are at most n.
LEMMA FirstAtMost ==
  ASSUME NEW S, IsFiniteSet(S), NEW n \in Nat, NEW R,
         \A e \in S : <<e, e>> \notin R,
         \A e, f, g \in S : <<e, f>> \in R /\ <<f, g>> \in R => <<e, g>> \in R,
         \A e, f \in S : e = f \/ <<e, f>> \in R \/ <<f, e>> \in R
  PROVE  Cardinality(FirstBy(S, R, n)) <= n
  <1> DEFINE before(a) == {b \in S : <<b, a>> \in R}
             F == {a \in S : Cardinality(before(a)) < n}
             after == {r \in S \X S : <<r[2], r[1]>> \in R}
  <1>0. FirstBy(S, R, n) = F
    BY DEF FirstBy
  <1>1. F \in SUBSET S
    OBVIOUS
  <1>2. IsFiniteSet(F) /\ Cardinality(F) \in Nat
    BY <1>1, FS_Subset, FS_CardinalityType
  <1>3. ASSUME F = {} PROVE Cardinality(F) <= n
    <2> HIDE DEF F
    <2> QED
      BY <1>3, FS_EmptySet
  <1>4. ASSUME F # {} PROVE Cardinality(F) <= n
    <2>1. PICK m \in F : \A a \in F : <<a, m>> \notin after
      <3>1. \A e \in F : <<e, e>> \notin after
        BY <1>1
      <3>2. \A e, f, g \in F : <<e, f>> \in after /\ <<f, g>> \in after => <<e, g>> \in after
        BY <1>1
      <3> HIDE DEF F, after
      <3> QED
        BY <1>2, <1>4, <3>1, <3>2, MinimalExists
    <2>2. \A a \in F : a = m \/ <<a, m>> \in R
      BY <1>1, <2>1
    <2>3. before(m) \in SUBSET S /\ F \ {m} \in SUBSET before(m)
      BY <1>1, <2>2
    <2>4. Cardinality(before(m)) < n
      BY <2>1
    <2> HIDE DEF before, F
    <2>5. IsFiniteSet(before(m)) /\ Cardinality(before(m)) \in Nat
      BY <2>3, FS_Subset, FS_CardinalityType
    <2>6. Cardinality(F \ {m}) <= Cardinality(before(m))
      BY <2>3, <2>5, FS_Subset
    <2>7. Cardinality(F \ {m}) = Cardinality(F) - 1
      BY <1>2, <2>1, FS_RemoveElement
    <2> QED
      BY <1>2, <2>4, <2>5, <2>6, <2>7
  <1> HIDE DEF F
  <1> QED
    BY <1>0, <1>3, <1>4

(***************************************************************************)
(* ChartPages.                                                             *)
(***************************************************************************)
ChartTypeOK ==
  /\ label \in [Listens -> ChartLabels \cup {"none", "pending"}]
  /\ repeated \subseteq Scrobbled
  /\ \A l \in Listens : label[l] = "duplicate" => l \in repeated

\* Of some listens, those a chart counts for an entity.
Of(chart, e, ls) == {l \in ls \cap Covers[chart[2]] : EntityOf(chart[1], l) = e}

ShownOf(view, e) == IF e \in DOMAIN view THEN view[e].plays ELSE 0

\* A page shows all of some listens but those that were ever duplicates.
Shows(view, chart, ls, ever) ==
  \A e \in ChartedEntities(chart[1]) :
      /\ ShownOf(view, e) \in Nat
      /\ ShownOf(view, e) + Cardinality(Of(chart, e, ever)) >= Cardinality(Of(chart, e, ls))

\* What was scrobbled when a version was read: its counts are of a labelling of it.
Labelled(S, f, s) == {l \in S : f[l] = s}
Tagged(S, tag) ==
  \E f \in [S -> ChartLabels \cup {"pending"}] :
      \A s \in ChartLabels \cup {"pending"} :
          tag.breakdown[s] = Cardinality(Labelled(S, f, s))

\* Whoever read a version read it of one of the sets in C, all that was
\* scrobbled at some moment; and so did who made a page that is kept.
RequestStands(q, C, ever) ==
  /\ q.chart \in ChartKinds \X Ranges
  /\ q.at \in {"tagged", "missed"} =>
       q = [at |-> q.at, chart |-> q.chart, had |-> q.had, tag |-> q.tag]
  /\ q.at \in {"computed", "answered"} =>
       /\ q = [at |-> q.at, chart |-> q.chart, had |-> q.had, tag |-> q.tag, page |-> q.page]
       /\ Shows(q.page, q.chart, q.had, ever)
  /\ q.at # "idle" => \E S \in C : q.had = S \ Late /\ Tagged(S, q.tag)

PageStands(key, view, C, ever) ==
  \E S \in C : Tagged(S, key[2]) /\ Shows(view, key[1], S \ Late, ever)

\* What was scrobbled only grows, so these sets are a chain.
Chain(C) == \A S, T \in C : S \subseteq T \/ T \subseteq S

Stands(C, pending, kept, ever) ==
  /\ Chain(C)
  /\ \A r \in ChartRequests : RequestStands(pending[r], C, ever)
  /\ \A key \in DOMAIN kept : PageStands(key, kept[key].page, C, ever)

ChartInv ==
  /\ ChartTypeOK
  /\ DOMAIN charting = ChartRequests
  /\ \E C \in SUBSET SUBSET Scrobbled : Stands(C, charting, pages, repeated)

(***************************************************************************)
(* Counts by label say how many there are.                                 *)
(***************************************************************************)
LEMMA CountsAdd ==
  ASSUME NEW A, NEW B, IsFiniteSet(A), IsFiniteSet(B), A \cap B = {}
  PROVE  /\ IsFiniteSet(A \cup B) /\ Cardinality(A \cup B) = Cardinality(A) + Cardinality(B)
         /\ Cardinality(A) \in Nat /\ Cardinality(B) \in Nat
  <1>1. Cardinality(A) \in Nat /\ Cardinality(B) \in Nat
    BY FS_CardinalityType
  <1>2. /\ IsFiniteSet(A \cup B)
        /\ Cardinality(A \cup B) = Cardinality(A) + Cardinality(B) - Cardinality(A \cap B)
    BY FS_Union
  <1>3. Cardinality(A \cap B) = 0
    BY FS_EmptySet
  <1> QED
    BY <1>1, <1>2, <1>3

LEMMA LabelledAdd ==
  ASSUME NEW S, IsFiniteSet(S), NEW f \in [S -> ChartLabels \cup {"pending"}]
  PROVE  /\ \A s : Cardinality(Labelled(S, f, s)) \in Nat
         /\ Cardinality(S) = Cardinality(Labelled(S, f, "pending"))
                             + Cardinality(Labelled(S, f, "counted"))
                             + Cardinality(Labelled(S, f, "suspect"))
                             + Cardinality(Labelled(S, f, "no_data"))
                             + Cardinality(Labelled(S, f, "duplicate"))
  <1> DEFINE L(s) == Labelled(S, f, s)
  <1>1. \A s : IsFiniteSet(L(s)) /\ Cardinality(L(s)) \in Nat
    <2> SUFFICES ASSUME NEW s PROVE IsFiniteSet(L(s)) /\ Cardinality(L(s)) \in Nat
      OBVIOUS
    <2>1. L(s) \in SUBSET S
      BY DEF Labelled
    <2> HIDE DEF L
    <2> QED
      BY <2>1, FS_Subset, FS_CardinalityType
  <1>2. S = (((L("pending") \cup L("counted")) \cup L("suspect")) \cup L("no_data"))
              \cup L("duplicate")
    BY ChartConstants DEF Labelled
  <1>3. \A s, t : s # t => L(s) \cap L(t) = {}
    BY DEF Labelled
  <1> HIDE DEF L
  <1> DEFINE A == L("pending") \cup L("counted")
             B == A \cup L("suspect")
             D == B \cup L("no_data")
  <1>4. IsFiniteSet(A) /\ Cardinality(A) = Cardinality(L("pending")) + Cardinality(L("counted"))
    BY <1>1, <1>3, CountsAdd
  <1>5. IsFiniteSet(B) /\ Cardinality(B) = Cardinality(A) + Cardinality(L("suspect"))
    <2>1. A \cap L("suspect") = {}
      BY <1>3
    <2> HIDE DEF A
    <2> QED
      BY <1>1, <1>4, <2>1, CountsAdd
  <1>6. IsFiniteSet(D) /\ Cardinality(D) = Cardinality(B) + Cardinality(L("no_data"))
    <2>1. B \cap L("no_data") = {}
      BY <1>3
    <2> HIDE DEF B
    <2> QED
      BY <1>1, <1>5, <2>1, CountsAdd
  <1>7. Cardinality(D \cup L("duplicate")) = Cardinality(D) + Cardinality(L("duplicate"))
    <2>1. D \cap L("duplicate") = {}
      BY <1>3
    <2> HIDE DEF D
    <2> QED
      BY <1>1, <1>6, <2>1, CountsAdd
  <1>8. S = D \cup L("duplicate")
    BY <1>2
  <1> HIDE DEF A, B, D
  <1> QED
    BY <1>1, <1>4, <1>5, <1>6, <1>7, <1>8 DEF L

\* One version is of one moment.
LEMMA TagTellsMoment ==
  ASSUME NEW S, NEW T, IsFiniteSet(T), S \subseteq T, NEW tag, Tagged(S, tag), Tagged(T, tag)
  PROVE  S = T
  <1>1. IsFiniteSet(S)
    BY FS_Subset
  <1>2. PICK f \in [S -> ChartLabels \cup {"pending"}] :
           \A s \in ChartLabels \cup {"pending"} :
               tag.breakdown[s] = Cardinality(Labelled(S, f, s))
    BY DEF Tagged
  <1>3. PICK g \in [T -> ChartLabels \cup {"pending"}] :
           \A s \in ChartLabels \cup {"pending"} :
               tag.breakdown[s] = Cardinality(Labelled(T, g, s))
    BY DEF Tagged
  <1>4. \A s : Cardinality(Labelled(S, f, s)) = Cardinality(Labelled(T, g, s))
    <2> SUFFICES ASSUME NEW s
                 PROVE  Cardinality(Labelled(S, f, s)) = Cardinality(Labelled(T, g, s))
      OBVIOUS
    <2>1. CASE s \in ChartLabels \cup {"pending"}
      BY <1>2, <1>3, <2>1
    <2>2. CASE s \notin ChartLabels \cup {"pending"}
      <3>1. Labelled(S, f, s) = {} /\ Labelled(T, g, s) = {}
        BY <2>2 DEF Labelled
      <3> QED
        BY <3>1
    <2> QED
      BY <2>1, <2>2
  <1>5. Cardinality(S) = Cardinality(T)
    BY <1>1, <1>4, LabelledAdd
  <1> QED
    BY <1>5, FS_Subset

LEMMA ReadMoment ==
  ASSUME ChartTypeOK PROVE Tagged(Scrobbled, PersonalTag)
  <1> DEFINE f == [l \in Scrobbled |-> label[l]]
  <1>1. f \in [Scrobbled -> ChartLabels \cup {"pending"}]
    BY DEF ChartTypeOK, Scrobbled
  <1>2. ASSUME NEW s \in ChartLabels \cup {"pending"}
        PROVE  PersonalTag.breakdown[s] = Cardinality(Labelled(Scrobbled, f, s))
    <2>1. Labelled(Scrobbled, f, s) = {l \in Scrobbled : label[l] = s}
      BY DEF Labelled
    <2>2. PersonalTag.breakdown[s] = Cardinality({l \in Scrobbled : label[l] = s})
      BY DEF PersonalTag
    <2> QED
      BY <2>1, <2>2
  <1> HIDE DEF f
  <1> QED
    BY <1>1, <1>2 DEF Tagged

LEMMA ScrobbledFinite == Scrobbled \subseteq Listens /\ IsFiniteSet(Scrobbled)
  <1>1. Scrobbled \in SUBSET Listens
    BY DEF Scrobbled
  <1> QED
    BY <1>1, ChartConstants, FS_Subset

LEMMA OfCounts ==
  ASSUME NEW chart, NEW e, NEW ls \in SUBSET Listens
  PROVE  IsFiniteSet(Of(chart, e, ls)) /\ Cardinality(Of(chart, e, ls)) \in Nat
  <1>1. Of(chart, e, ls) \in SUBSET Listens
    BY DEF Of
  <1> QED
    BY <1>1, ChartConstants, FS_Subset, FS_CardinalityType

LEMMA OfGrows ==
  ASSUME NEW chart, NEW e, NEW ls \in SUBSET Listens, NEW more \in SUBSET Listens, ls \subseteq more
  PROVE  Cardinality(Of(chart, e, ls)) <= Cardinality(Of(chart, e, more))
  <1>1. Of(chart, e, ls) \in SUBSET Of(chart, e, more)
    BY DEF Of
  <1> QED
    BY <1>1, OfCounts, FS_Subset

\* What is shown stays, whatever else is called a duplicate later.
LEMMA ShowsStays ==
  ASSUME NEW view, NEW chart, NEW ls \in SUBSET Listens, NEW ever \in SUBSET Listens,
         NEW later \in SUBSET Listens, ever \subseteq later, Shows(view, chart, ls, ever)
  PROVE  Shows(view, chart, ls, later)
  <1> SUFFICES ASSUME NEW e \in ChartedEntities(chart[1])
               PROVE  ShownOf(view, e) + Cardinality(Of(chart, e, later))
                        >= Cardinality(Of(chart, e, ls))
    BY DEF Shows
  <1>1. Cardinality(Of(chart, e, ever)) <= Cardinality(Of(chart, e, later))
    BY OfGrows
  <1>2. /\ Cardinality(Of(chart, e, ever)) \in Nat /\ Cardinality(Of(chart, e, later)) \in Nat
        /\ Cardinality(Of(chart, e, ls)) \in Nat
    BY OfCounts
  <1>3. /\ ShownOf(view, e) \in Nat
        /\ ShownOf(view, e) + Cardinality(Of(chart, e, ever)) >= Cardinality(Of(chart, e, ls))
    BY DEF Shows
  <1> QED
    BY <1>1, <1>2, <1>3

\* A page computed now shows what was there before, of days counted raw.
LEMMA ComputedShows ==
  ASSUME ChartTypeOK, NEW chart \in ChartKinds \X Ranges,
         NEW ls \in SUBSET Scrobbled, ls \cap Late = {}
  PROVE  Shows(ChartOf(chart), chart, ls, repeated)
  <1> DEFINE kind == chart[1]
             range == chart[2]
             of(e) == {l \in Covers[range] \cap Scrobbled : EntityOf(kind, l) = e}
             shows(e) == {l \in of(e) : l \in Late => l \in aggregated}
             twice(e) == {l \in of(e) : label[l] \in {"duplicate"}}
             doubted(e) == {l \in of(e) : label[l] \in {"suspect", "no_data"}}
             charted == {e \in ChartedEntities(kind) : Cardinality(shows(e)) > Cardinality(twice(e))}
             view == [e \in charted |->
                        [plays |-> Cardinality(shows(e)) - Cardinality(twice(e)),
                         unverified |-> Cardinality(doubted(e))]]
  <1>1. ChartOf(chart) = view
    <2>1. kind \in {"artists", "tracks", "albums"}
      BY ChartConstants
    <2>2. ChartOf(chart) = Charted(kind, range)
      BY <2>1 DEF ChartOf, UserArtists, UserTracks, UserAlbums
    <2> QED
      BY <2>2 DEF Charted
  <1>2. ASSUME NEW e \in ChartedEntities(kind)
        PROVE  /\ ShownOf(view, e) \in Nat
               /\ ShownOf(view, e) + Cardinality(Of(chart, e, repeated))
                    >= Cardinality(Of(chart, e, ls))
    <2>1. shows(e) \in SUBSET Scrobbled /\ twice(e) \in SUBSET Scrobbled
      OBVIOUS
    <2>2. Of(chart, e, ls) \in SUBSET shows(e)
      BY DEF Of
    <2>3. twice(e) \in SUBSET Of(chart, e, repeated)
      BY DEF Of, ChartTypeOK, Scrobbled
    <2>4. ShownOf(view, e) = IF Cardinality(shows(e)) > Cardinality(twice(e))
                             THEN Cardinality(shows(e)) - Cardinality(twice(e)) ELSE 0
      BY DEF ShownOf
    <2> HIDE DEF view, shows, twice
    <2>5. /\ IsFiniteSet(shows(e)) /\ Cardinality(shows(e)) \in Nat
          /\ IsFiniteSet(twice(e)) /\ Cardinality(twice(e)) \in Nat
      BY <2>1, ScrobbledFinite, FS_Subset, FS_CardinalityType
    <2>6. repeated \in SUBSET Listens /\ ls \in SUBSET Listens
      BY ScrobbledFinite DEF ChartTypeOK
    <2>7. /\ IsFiniteSet(Of(chart, e, repeated)) /\ Cardinality(Of(chart, e, repeated)) \in Nat
          /\ Cardinality(Of(chart, e, ls)) \in Nat
      BY <2>6, OfCounts
    <2>8. Cardinality(Of(chart, e, ls)) <= Cardinality(shows(e))
      BY <2>2, <2>5, FS_Subset
    <2>9. Cardinality(twice(e)) <= Cardinality(Of(chart, e, repeated))
      BY <2>3, <2>7, FS_Subset
    <2> QED
      BY <2>4, <2>5, <2>7, <2>8, <2>9
  <1> HIDE DEF view
  <1> QED
    BY <1>1, <1>2 DEF Shows

(***************************************************************************)
(* The steps.                                                              *)
(***************************************************************************)
LEMMA RequestStays ==
  ASSUME NEW q, NEW C, NEW D, C \subseteq D, NEW ever \in SUBSET Listens,
         NEW later \in SUBSET Listens, ever \subseteq later, C \subseteq SUBSET Listens,
         RequestStands(q, C, ever)
  PROVE  RequestStands(q, D, later)
  <1>1. ASSUME q.at \in {"computed", "answered"} PROVE Shows(q.page, q.chart, q.had, later)
    <2>1. q.had \in SUBSET Listens
      BY <1>1 DEF RequestStands
    <2> QED
      BY <1>1, <2>1, ShowsStays DEF RequestStands
  <1> QED
    BY <1>1 DEF RequestStands

LEMMA PageStays ==
  ASSUME NEW key, NEW view, NEW C, NEW D, C \subseteq D, NEW ever \in SUBSET Listens,
         NEW later \in SUBSET Listens, ever \subseteq later, C \subseteq SUBSET Listens,
         PageStands(key, view, C, ever)
  PROVE  PageStands(key, view, D, later)
  <1>1. PICK S \in C : Tagged(S, key[2]) /\ Shows(view, key[1], S \ Late, ever)
    BY DEF PageStands
  <1>2. S \ Late \in SUBSET Listens
    BY <1>1
  <1>3. Shows(view, key[1], S \ Late, later)
    BY <1>1, <1>2, ShowsStays
  <1> QED
    BY <1>1, <1>3 DEF PageStands

LEMMA ChartBegins == ChartPagesInit => ChartInv
  <1> SUFFICES ASSUME ChartPagesInit PROVE ChartInv
    OBVIOUS
  <1>1. ChartTypeOK
    BY DEF ChartPagesInit, ChartTypeOK, Scrobbled
  <1>2. DOMAIN charting = ChartRequests
    BY DEF ChartPagesInit
  <1>3. \A r \in ChartRequests : RequestStands(charting[r], {}, repeated)
    BY DEF ChartPagesInit, RequestStands
  <1>4. DOMAIN pages = {}
    BY DEF ChartPagesInit
  <1>5. Stands({}, charting, pages, repeated)
    BY <1>3, <1>4 DEF Stands, Chain
  <1> QED
    BY <1>1, <1>2, <1>5 DEF ChartInv

\* The listens, the labels and the clock: what was scrobbled stays so.
LEMMA ListensChangeHolds ==
  ASSUME ChartInv, ChartTypeOK', Scrobbled \subseteq Scrobbled', repeated \subseteq repeated',
         UNCHANGED charting, DOMAIN pages' \subseteq DOMAIN pages,
         \A key \in DOMAIN pages' : pages'[key] = pages[key]
  PROVE  ChartInv'
  <1>1. PICK C \in SUBSET SUBSET Scrobbled : Stands(C, charting, pages, repeated)
    BY DEF ChartInv
  <1>2. C \in SUBSET SUBSET Scrobbled'
    BY <1>1
  <1>3. /\ repeated \in SUBSET Listens /\ repeated' \in SUBSET Listens
        /\ C \subseteq SUBSET Listens
    BY <1>1, ScrobbledFinite DEF ChartInv, ChartTypeOK, Scrobbled
  <1>4. \A r \in ChartRequests : RequestStands(charting'[r], C, repeated')
    BY <1>1, <1>3, RequestStays DEF Stands
  <1>5. \A key \in DOMAIN pages' : PageStands(key, pages'[key].page, C, repeated')
    BY <1>1, <1>3, PageStays DEF Stands
  <1>6. Stands(C, charting', pages', repeated')
    BY <1>1, <1>4, <1>5 DEF Stands
  <1>7. DOMAIN charting' = ChartRequests
    BY DEF ChartInv
  <1> QED
    BY <1>2, <1>6, <1>7 DEF ChartInv

\* A request's step.
LEMMA ChartRequestHolds ==
  ASSUME ChartInv, NEW r \in ChartRequests, NEW q, Move(r, q), UNCHANGED <<label, repeated>>,
         NEW C \in SUBSET SUBSET Scrobbled, Stands(C, charting, pages, repeated),
         RequestStands(q, C, repeated),
         \A key \in DOMAIN pages' : PageStands(key, pages'[key].page, C, repeated)
  PROVE  ChartInv'
  <1>1. DOMAIN charting' = ChartRequests
    BY DEF Move, ChartInv
  <1>2. \A u \in ChartRequests : charting'[u] = IF u = r THEN q ELSE charting[u]
    BY DEF Move, ChartInv
  <1>3. \A u \in ChartRequests : RequestStands(charting'[u], C, repeated)
    BY <1>2 DEF Stands
  <1>4. Stands(C, charting', pages', repeated')
    BY <1>3 DEF Stands
  <1>5. Scrobbled' = Scrobbled
    BY DEF Scrobbled
  <1>6. ChartTypeOK'
    BY <1>5 DEF ChartInv, ChartTypeOK
  <1> QED
    BY <1>1, <1>4, <1>5, <1>6 DEF ChartInv

LEMMA ReadBreakdownHolds ==
  ASSUME ChartInv, NEW r \in ChartRequests, ReadBreakdown(r) PROVE ChartInv'
  <1> DEFINE q == [at |-> "tagged", chart |-> charting[r].chart,
                   had |-> Scrobbled \ Late, tag |-> PersonalTag]
  <1>1. PICK C \in SUBSET SUBSET Scrobbled : Stands(C, charting, pages, repeated)
    BY DEF ChartInv
  <1> DEFINE D == C \cup {Scrobbled}
  <1>2. D \in SUBSET SUBSET Scrobbled /\ C \subseteq D /\ Scrobbled \in D
    BY <1>1
  <1>3. Chain(D)
    BY <1>1 DEF Stands, Chain
  <1>4. repeated \in SUBSET Listens /\ C \subseteq SUBSET Listens
    BY <1>1, ScrobbledFinite DEF ChartInv, ChartTypeOK
  <1> HIDE DEF D
  <1>5. \A u \in ChartRequests : RequestStands(charting[u], D, repeated)
    BY <1>1, <1>2, <1>4, RequestStays DEF Stands
  <1>6. \A key \in DOMAIN pages : PageStands(key, pages[key].page, D, repeated)
    BY <1>1, <1>2, <1>4, PageStays DEF Stands
  <1>7. Stands(D, charting, pages, repeated)
    BY <1>3, <1>5, <1>6 DEF Stands
  <1>8. RequestStands(q, D, repeated)
    <2>1. Tagged(Scrobbled, PersonalTag)
      BY ReadMoment DEF ChartInv
    <2>2. charting[r].chart \in ChartKinds \X Ranges
      BY <1>5 DEF RequestStands
    <2> QED
      BY <1>2, <2>1, <2>2 DEF RequestStands
  <1>9. Move(r, q) /\ UNCHANGED <<label, repeated, pages>>
    BY DEF ReadBreakdown
  <1> HIDE DEF q
  <1> QED
    BY <1>2, <1>6, <1>7, <1>8, <1>9, ChartRequestHolds

LEMMA ReadKeptHolds ==
  ASSUME ChartInv, NEW r \in ChartRequests, ReadKept(r) PROVE ChartInv'
  <1> DEFINE q == charting[r]
             key == <<q.chart, q.tag>>
             shown == [at |-> "answered", chart |-> q.chart, had |-> q.had, tag |-> q.tag,
                       page |-> pages[key].page]
             missed == [q EXCEPT !.at = "missed"]
  <1>1. PICK C \in SUBSET SUBSET Scrobbled : Stands(C, charting, pages, repeated)
    BY DEF ChartInv
  <1>2. RequestStands(q, C, repeated) /\ q.at = "tagged"
    BY <1>1 DEF Stands, ReadKept
  <1>3. UNCHANGED <<label, repeated, pages>>
    BY DEF ReadKept
  <1>4. (key \in DOMAIN pages /\ Move(r, shown)) \/ Move(r, missed)
    BY DEF ReadKept
  <1>5. CASE key \in DOMAIN pages /\ Move(r, shown)
    <2>1. PICK S \in C : q.had = S \ Late /\ Tagged(S, q.tag)
      BY <1>2 DEF RequestStands
    <2>2. PICK T \in C : Tagged(T, q.tag) /\ Shows(pages[key].page, q.chart, T \ Late, repeated)
      BY <1>1, <1>5 DEF Stands, PageStands
    <2>3. S = T
      <3>1. IsFiniteSet(S) /\ IsFiniteSet(T)
        BY <1>1, ScrobbledFinite, FS_Subset
      <3>2. S \subseteq T \/ T \subseteq S
        BY <1>1, <2>1, <2>2 DEF Stands, Chain
      <3> QED
        BY <2>1, <2>2, <3>1, <3>2, TagTellsMoment
    <2>4. RequestStands(shown, C, repeated)
      BY <1>2, <2>1, <2>2, <2>3 DEF RequestStands
    <2> HIDE DEF shown, q
    <2> QED
      BY <1>1, <1>3, <1>5, <2>4, ChartRequestHolds DEF Stands
  <1>6. CASE Move(r, missed)
    <2>1. missed = [at |-> "missed", chart |-> q.chart, had |-> q.had, tag |-> q.tag]
      BY <1>2 DEF RequestStands
    <2>2. RequestStands(missed, C, repeated)
      BY <1>2, <2>1 DEF RequestStands
    <2> HIDE DEF missed
    <2> QED
      BY <1>1, <1>3, <1>6, <2>2, ChartRequestHolds DEF Stands
  <1> QED
    BY <1>4, <1>5, <1>6

LEMMA ComputePageHolds ==
  ASSUME ChartInv, NEW r \in ChartRequests, ComputePage(r) PROVE ChartInv'
  <1> DEFINE q == charting[r]
             computed == [at |-> "computed", chart |-> q.chart, had |-> q.had, tag |-> q.tag,
                          page |-> ChartOf(q.chart)]
  <1>1. PICK C \in SUBSET SUBSET Scrobbled : Stands(C, charting, pages, repeated)
    BY DEF ChartInv
  <1>2. RequestStands(q, C, repeated) /\ q.at = "missed"
    BY <1>1 DEF Stands, ComputePage
  <1>3. Move(r, computed) /\ UNCHANGED <<label, repeated, pages>>
    BY DEF ComputePage
  <1>4. PICK S \in C : q.had = S \ Late /\ Tagged(S, q.tag)
    BY <1>2 DEF RequestStands
  <1>5. q.had \in SUBSET Scrobbled /\ q.had \cap Late = {} /\ q.chart \in ChartKinds \X Ranges
    BY <1>1, <1>2, <1>4 DEF RequestStands
  <1>6. Shows(ChartOf(q.chart), q.chart, q.had, repeated)
    BY <1>5, ComputedShows DEF ChartInv
  <1>7. RequestStands(computed, C, repeated)
    BY <1>2, <1>4, <1>6 DEF RequestStands
  <1> HIDE DEF computed
  <1> QED
    BY <1>1, <1>3, <1>7, ChartRequestHolds DEF Stands

LEMMA KeepPageHolds ==
  ASSUME ChartInv, NEW r \in ChartRequests, KeepPage(r) PROVE ChartInv'
  <1> DEFINE q == charting[r]
             key == <<q.chart, q.tag>>
             answered == [q EXCEPT !.at = "answered"]
  <1>1. PICK C \in SUBSET SUBSET Scrobbled : Stands(C, charting, pages, repeated)
    BY DEF ChartInv
  <1>2. RequestStands(q, C, repeated) /\ q.at = "computed"
    BY <1>1 DEF Stands, KeepPage
  <1>3. Move(r, answered) /\ UNCHANGED <<label, repeated>>
    BY DEF KeepPage
  <1>4. RequestStands(answered, C, repeated)
    <2>1. answered = [at |-> "answered", chart |-> q.chart, had |-> q.had, tag |-> q.tag,
                      page |-> q.page]
      BY <1>2 DEF RequestStands
    <2> QED
      BY <1>2, <2>1 DEF RequestStands
  <1>5. PageStands(key, q.page, C, repeated)
    BY <1>2 DEF RequestStands, PageStands
  <1>6. \A k \in DOMAIN pages' : \/ k = key /\ pages'[k].page = q.page
                                 \/ k \in DOMAIN pages /\ pages'[k] = pages[k]
    <2> DEFINE kept == [k \in DOMAIN pages \cup {key} |->
                          IF k = key THEN [page |-> q.page, until |-> tick + PERSONAL_CACHE]
                          ELSE pages[k]]
    <2>1. pages' = kept \/ pages' = pages
      BY DEF KeepPage
    <2>2. CASE pages' = kept
      <3>1. DOMAIN pages' = DOMAIN pages \cup {key}
        BY <2>2
      <3>2. \A k \in DOMAIN pages' :
               pages'[k] = IF k = key THEN [page |-> q.page, until |-> tick + PERSONAL_CACHE]
                           ELSE pages[k]
        BY <2>2
      <3> HIDE DEF kept, key, q
      <3> QED
        BY <3>1, <3>2
    <2> QED
      BY <2>1, <2>2
  <1>7. \A k \in DOMAIN pages' : PageStands(k, pages'[k].page, C, repeated)
    BY <1>1, <1>5, <1>6 DEF Stands
  <1> HIDE DEF answered
  <1> QED
    BY <1>1, <1>3, <1>4, <1>7, ChartRequestHolds

LEMMA ChartStepHolds == ChartInv /\ [ChartPagesNext]_chartVars => ChartInv'
  <1> SUFFICES ASSUME ChartInv, [ChartPagesNext]_chartVars PROVE ChartInv'
    OBVIOUS
  <1>0. ChartTypeOK
    BY DEF ChartInv
  <1>1. ASSUME NEW l \in Listens, ScrobbleListen(l) PROVE ChartInv'
    <2>1. ChartTypeOK' /\ Scrobbled \subseteq Scrobbled'
      BY <1>0, <1>1 DEF ChartTypeOK, Scrobbled, ScrobbleListen
    <2>2. UNCHANGED <<charting, pages, repeated>>
      BY <1>1 DEF ScrobbleListen
    <2> QED
      BY <2>1, <2>2, ListensChangeHolds
  <1>2. CASE Relabelled
    <2>1. PICK new \in [Scrobbled -> ChartLabels] :
             /\ label' = [l \in Listens |-> IF l \in Scrobbled THEN new[l] ELSE "none"]
             /\ repeated' = repeated \cup {l \in Scrobbled : new[l] = "duplicate"}
      BY <1>2 DEF Relabelled
    <2>2. ChartTypeOK' /\ Scrobbled \subseteq Scrobbled'
      BY <1>0, <2>1, ChartConstants DEF ChartTypeOK, Scrobbled
    <2>3. repeated \subseteq repeated' /\ UNCHANGED <<charting, pages>>
      BY <1>2, <2>1 DEF Relabelled
    <2> QED
      BY <2>2, <2>3, ListensChangeHolds
  <1>3. CASE RefreshAggregates
    <2>1. UNCHANGED <<label, charting, pages, repeated>>
      BY <1>3 DEF RefreshAggregates
    <2>2. ChartTypeOK' /\ Scrobbled \subseteq Scrobbled'
      BY <1>0, <2>1 DEF ChartTypeOK, Scrobbled
    <2> QED
      BY <2>1, <2>2, ListensChangeHolds
  <1>4. CASE PassTime
    <2>1. UNCHANGED <<label, charting, repeated>>
      BY <1>4 DEF PassTime
    <2>2. ChartTypeOK' /\ Scrobbled \subseteq Scrobbled'
      BY <1>0, <2>1 DEF ChartTypeOK, Scrobbled
    <2>3. DOMAIN pages' \subseteq DOMAIN pages /\ \A key \in DOMAIN pages' : pages'[key] = pages[key]
      BY <1>4 DEF PassTime, Kept
    <2> QED
      BY <2>1, <2>2, <2>3, ListensChangeHolds
  <1>5. CASE UNCHANGED chartVars
    <2>1. UNCHANGED <<label, charting, pages, repeated>>
      BY <1>5 DEF chartVars
    <2>2. ChartTypeOK' /\ Scrobbled \subseteq Scrobbled'
      BY <1>0, <2>1 DEF ChartTypeOK, Scrobbled
    <2> QED
      BY <2>1, <2>2, ListensChangeHolds
  <1> QED
    BY <1>1, <1>2, <1>3, <1>4, <1>5, ReadBreakdownHolds, ReadKeptHolds, ComputePageHolds,
       KeepPageHolds DEF ChartPagesNext

LEMMA ChartsHold == ChartPagesSpec => []ChartInv
  <1>1. ChartPagesInit => ChartInv
    BY ChartBegins
  <1>2. ChartInv /\ [ChartPagesNext]_chartVars => ChartInv'
    BY ChartStepHolds
  <1> QED
    BY <1>1, <1>2, PTL DEF ChartPagesSpec

LEMMA AnsweredShow == ChartInv => PlaysShow
  <1> SUFFICES ASSUME ChartInv, NEW r \in ChartRequests, charting[r].at = "answered",
                      NEW e \in ChartedEntities(charting[r].chart[1])
               PROVE  ShownOf(charting[r].page, e) + Cardinality(Of(charting[r].chart, e, repeated))
                        >= Cardinality(Of(charting[r].chart, e, charting[r].had))
    BY DEF PlaysShow, ShownOf, Of
  <1> QED
    BY DEF ChartInv, Stands, RequestStands, Shows

(***************************************************************************)
(* CommunityCharts.                                                        *)
(***************************************************************************)

\* A ranking made for some accounts: of no others, and empty for too few.
MadeFor(made, these) ==
  made.of = these /\ (made.entries # {} => ~(Cardinality(these) < MIN_CREDIT))

ViewStands(q) ==
  /\ q.at \in {"covered", "missed"} => q = [at |-> q.at, accounts |-> q.accounts]
  /\ q.at \in {"computed", "ranked"} =>
       q = [at |-> q.at, accounts |-> q.accounts, made |-> q.made]
  /\ q.at # "idle" =>
       q.accounts \subseteq Followed /\ Cardinality(q.accounts) <= MAX_COVERED
  /\ q.at \in {"computed", "ranked", "shown"} => MadeFor(q.made, q.accounts)
  /\ q.at = "shown" => q.entries \subseteq q.made.entries

CommunityInv ==
  /\ DOMAIN viewed = ChartViewers
  /\ \A v \in ChartViewers : ViewStands(viewed[v])
  /\ \A k \in DOMAIN rankings : MadeFor(rankings[k].made, k)

LEMMA CoveredAreFew ==
  ASSUME NEW v
  PROVE  CommunityAccounts(v) \subseteq Followed /\ Cardinality(CommunityAccounts(v)) <= MAX_COVERED
  <1> DEFINE seen == {a \in Followed : <<v, a>> \in follows /\ a \notin closed}
  <1>1. seen \in SUBSET Followed
    OBVIOUS
  <1>2. IsFiniteSet(seen)
    BY <1>1, CommunityConstants, FS_Subset
  <1>3. seen \subseteq Int
    <2> HIDE DEF seen
    <2> QED
      BY <1>1, CommunityConstants
  <1>4. CommunityAccounts(v) \subseteq Followed
    BY DEF CommunityAccounts
  <1> DEFINE R == {r \in Int \X Int : r[1] < r[2]}
  <1>5. CommunityAccounts(v) = FirstBy(seen, R, MAX_COVERED)
    <2>1. \A a \in seen : {b \in seen : b < a} = {b \in seen : <<b, a>> \in R}
      <3> HIDE DEF seen
      <3> QED
        BY <1>3
    <2>2. CommunityAccounts(v) = {a \in seen : Cardinality({b \in seen : b < a}) < MAX_COVERED}
      BY DEF CommunityAccounts
    <2> HIDE DEF seen, R
    <2> QED
      BY <2>1, <2>2 DEF FirstBy
  <1> HIDE DEF seen
  <1>6. \A e \in seen : <<e, e>> \notin R
    BY <1>3
  <1>7. \A e, f, g \in seen : <<e, f>> \in R /\ <<f, g>> \in R => <<e, g>> \in R
    BY <1>3
  <1>8. \A e, f \in seen : e = f \/ <<e, f>> \in R \/ <<f, e>> \in R
    BY <1>3
  <1>9. MAX_COVERED \in Nat
    BY CommunityConstants
  <1> HIDE DEF R
  <1> QED
    BY <1>2, <1>4, <1>5, <1>6, <1>7, <1>8, <1>9, FirstAtMost

LEMMA RankedAreEnough ==
  ASSUME NEW these, Ranking(these) # {}
  PROVE  ~(Cardinality(these) < MIN_CREDIT)
BY DEF Ranking

-----------------------------------------------------------------------------
LEMMA CommunityBegins == CommunityChartsInit => CommunityInv
BY DEF CommunityChartsInit, CommunityInv, ViewStands

\* What changes beside the requests and what they keep.
LEMMA CommunityChangesHold ==
  ASSUME CommunityInv, UNCHANGED viewed,
         DOMAIN rankings' \subseteq DOMAIN rankings,
         \A k \in DOMAIN rankings' : rankings'[k] = rankings[k]
  PROVE  CommunityInv'
BY DEF CommunityInv

\* A request's step: all else it may do is to keep a ranking under its accounts.
LEMMA CommunityRequestHolds ==
  ASSUME CommunityInv, NEW v \in ChartViewers, NEW q, Ask(v, q), ViewStands(q),
         \A k \in DOMAIN rankings' : MadeFor(rankings'[k].made, k)
  PROVE  CommunityInv'
  <1>1. DOMAIN viewed' = ChartViewers
    BY DEF Ask, CommunityInv
  <1>2. \A u \in ChartViewers : viewed'[u] = IF u = v THEN q ELSE viewed[u]
    BY DEF Ask, CommunityInv
  <1> QED
    BY <1>1, <1>2 DEF CommunityInv

LEMMA CommunityStepHolds == CommunityInv /\ [CommunityChartsNext]_communityVars => CommunityInv'
  <1> SUFFICES ASSUME CommunityInv, [CommunityChartsNext]_communityVars PROVE CommunityInv'
    OBVIOUS
  <1>1. CASE FollowOrNot \/ HearOrDrop
    <2>1. UNCHANGED <<rankings, viewed>>
      BY <1>1 DEF FollowOrNot, HearOrDrop
    <2> QED
      BY <2>1, CommunityChangesHold
  <1>2. CASE PassChartTime
    <2>1. /\ UNCHANGED viewed /\ DOMAIN rankings' \subseteq DOMAIN rankings
          /\ \A k \in DOMAIN rankings' : rankings'[k] = rankings[k]
      BY <1>2 DEF PassChartTime
    <2> QED
      BY <2>1, CommunityChangesHold
  <1>3. ASSUME NEW v \in ChartViewers, ReadFollowed(v) PROVE CommunityInv'
    <2> DEFINE q == [at |-> "covered", accounts |-> CommunityAccounts(v)]
    <2>1. Ask(v, q) /\ UNCHANGED rankings
      BY <1>3 DEF ReadFollowed
    <2>2. ViewStands(q)
      BY CoveredAreFew DEF ViewStands
    <2> QED
      BY <2>1, <2>2, CommunityRequestHolds DEF CommunityInv
  <1>4. ASSUME NEW v \in ChartViewers, ReadRanking(v) PROVE CommunityInv'
    <2> DEFINE q == viewed[v]
               key == CommunityKey(v, q.accounts)
               found == [at |-> "ranked", accounts |-> q.accounts, made |-> rankings[key].made]
               missed == [q EXCEPT !.at = "missed"]
    <2>1. ViewStands(q) /\ q.at = "covered" /\ UNCHANGED rankings
      BY <1>4 DEF ReadRanking, CommunityInv
    <2>2. CASE key \in DOMAIN rankings /\ Ask(v, found)
      <3>1. MadeFor(rankings[key].made, q.accounts)
        BY <2>2 DEF CommunityInv, CommunityKey
      <3>2. ViewStands(found)
        BY <2>1, <3>1 DEF ViewStands
      <3> QED
        BY <2>1, <2>2, <3>2, CommunityRequestHolds DEF CommunityInv
    <2>3. CASE Ask(v, missed)
      <3>1. missed = [at |-> "missed", accounts |-> q.accounts]
        BY <2>1 DEF ViewStands
      <3>2. ViewStands(missed)
        BY <2>1, <3>1 DEF ViewStands
      <3> QED
        BY <2>1, <2>3, <3>2, CommunityRequestHolds DEF CommunityInv
    <2> QED
      BY <1>4, <2>2, <2>3 DEF ReadRanking
  <1>5. ASSUME NEW v \in ChartViewers, ComputeRanking(v) PROVE CommunityInv'
    <2> DEFINE q == viewed[v]
               made == [of |-> q.accounts, entries |-> Ranking(q.accounts), on |-> clock]
               computed == [at |-> "computed", accounts |-> q.accounts, made |-> made]
    <2>1. ViewStands(q) /\ q.at = "missed" /\ Ask(v, computed) /\ UNCHANGED rankings
      BY <1>5 DEF ComputeRanking, CommunityInv
    <2>2. MadeFor(made, q.accounts)
      BY <2>1, RankedAreEnough DEF MadeFor
    <2>3. ViewStands(computed)
      BY <2>1, <2>2 DEF ViewStands
    <2> QED
      BY <2>1, <2>3, CommunityRequestHolds DEF CommunityInv
  <1>6. ASSUME NEW v \in ChartViewers, KeepRanking(v) PROVE CommunityInv'
    <2> DEFINE q == viewed[v]
               ranked == [q EXCEPT !.at = "ranked"]
    <2>1. ViewStands(q) /\ q.at = "computed" /\ Ask(v, ranked)
      BY <1>6 DEF KeepRanking, CommunityInv
    <2>2. ranked = [at |-> "ranked", accounts |-> q.accounts, made |-> q.made]
      BY <2>1 DEF ViewStands
    <2>3. ViewStands(ranked)
      BY <2>1, <2>2 DEF ViewStands
    <2>4. MadeFor(q.made, q.accounts)
      BY <2>1 DEF ViewStands
    <2>5. \A k \in DOMAIN rankings' : MadeFor(rankings'[k].made, k)
      BY <1>6, <2>4 DEF KeepRanking, CommunityKey, CommunityInv
    <2> QED
      BY <2>1, <2>3, <2>5, CommunityRequestHolds
  <1>7. ASSUME NEW v \in ChartViewers, ShowPage(v) PROVE CommunityInv'
    <2> DEFINE q == viewed[v]
               shown == [at |-> "shown", accounts |-> q.accounts, made |-> q.made,
                         entries |-> q.made.entries \ gone]
    <2>1. ViewStands(q) /\ q.at = "ranked" /\ Ask(v, shown) /\ UNCHANGED rankings
      BY <1>7 DEF ShowPage, CommunityInv
    <2>2. ViewStands(shown)
      BY <2>1 DEF ViewStands
    <2> QED
      BY <2>1, <2>2, CommunityRequestHolds DEF CommunityInv
  <1>8. CASE UNCHANGED communityVars
    BY <1>8, CommunityChangesHold DEF communityVars
  <1> QED
    BY <1>1, <1>2, <1>3, <1>4, <1>5, <1>6, <1>7, <1>8 DEF CommunityChartsNext

LEMMA CommunityHolds == CommunityChartsSpec => []CommunityInv
  <1>1. CommunityChartsInit => CommunityInv
    BY CommunityBegins
  <1>2. CommunityInv /\ [CommunityChartsNext]_communityVars => CommunityInv'
    BY CommunityStepHolds
  <1> QED
    BY <1>1, <1>2, PTL DEF CommunityChartsSpec

LEMMA ShownAreCovered == CommunityInv => CoversTheFollowed
  <1> SUFFICES ASSUME CommunityInv, NEW v \in ChartViewers, viewed[v].at = "shown"
               PROVE  LET q == viewed[v] IN
                      /\ q.made.of = q.accounts
                      /\ Cardinality(q.accounts) <= MAX_COVERED
                      /\ q.entries # {} => Cardinality(q.accounts) >= MIN_CREDIT
    BY DEF CoversTheFollowed
  <1>1. ViewStands(viewed[v])
    BY DEF CommunityInv
  <1>2. viewed[v].accounts \subseteq Followed
    BY <1>1 DEF ViewStands
  <1>3. Cardinality(viewed[v].accounts) \in Nat
    BY <1>2, CommunityConstants, FS_Subset, FS_CardinalityType
  <1> QED
    BY <1>1, <1>3, CommunityConstants DEF ViewStands, MadeFor

(***************************************************************************)
(* TastePage.                                                              *)
(***************************************************************************)
TagRecords == [run : Nat \cup {-1}, on : BOOLEAN, play : Nat, skips : Nat, skip : Nat]

PageTypes ==
  /\ PageTypeOK
  /\ pageEvents \in 0 .. MaxPageEvents
  /\ landed <= pageEvents /\ lastSeen <= pageEvents
  /\ \A a \in Recommendable : skipped[a] <= pageEvents
  /\ page \in [at : {"idle", "setting", "version", "state"}, tag : TagRecords]
  /\ held = [tag |-> held.tag, body |-> held.body] /\ held.tag \in TagRecords
  /\ untold = [now |-> untold.now, between |-> untold.between]
  /\ untold.now \in BOOLEAN /\ untold.between \subseteq Recommendable
  /\ page.at \in {"version", "state"} => page.tag.run \in Nat /\ page.tag.run <= landed

\* Two skips are never of one moment.
SkipsApart ==
  \A a, b \in Recommendable : skipped[a] # 0 /\ skipped[a] = skipped[b] => a = b

\* What the tables held when a tag was made of them.
Snapshots == [skipped : [Recommendable -> Nat], expired : SUBSET Recommendable,
              played : SUBSET Recommendable, clock : Nat]

SkipsOf(times) == {a \in Recommendable : times[a] # 0}

TagOf(tag, g) ==
  /\ tag.play <= g.clock
  /\ tag.skips = Cardinality(SkipsOf(g.skipped))
  /\ tag.skip = Latest({g.skipped[a] : a \in SkipsOf(g.skipped)})
  /\ \A a \in Recommendable : g.skipped[a] <= g.clock

\* What the tables hold since: a skip is as it was, gone, or made since; and
\* where nothing happened that no tag tells, a moment of the same play is of the
\* same plays, a skip that stands is hidden as it was, and those made between
\* the tag and the list stand.
SinceTag(tag, g) ==
  /\ g.clock <= pageEvents
  /\ tag.play <= lastSeen
  /\ tag.run <= landed
  /\ \A a \in Recommendable : skipped[a] \in {0, g.skipped[a]} \/ skipped[a] > g.clock
  /\ ~untold.now =>
       /\ lastSeen = tag.play => played = g.played
       /\ \A a \in Recommendable :
             skipped[a] # 0 /\ skipped[a] = g.skipped[a] => (a \in expired <=> a \in g.expired)
       /\ \A a \in untold.between : skipped[a] > g.clock /\ a \notin expired
  /\ page.at = "state" =>
       \A a \in Recommendable : skipped[a] > g.clock => a \in untold.between

\* The body that is held is the list without what was hidden then and between.
Stood(g) == \A a \in Recommendable : g.skipped[a] # 0 => skipped[a] = g.skipped[a]
HiddenThen(g) == {a \in SkipsOf(g.skipped) : a \notin g.expired}

BodyThen(tag, g, es, between) ==
  LET served == tag.on /\ tag.run # 0 IN
  [run |-> tag.run, on |-> tag.on, has |-> served /\ es.has,
   list |-> IF served THEN es.list \ (HiddenThen(g) \cup between \cup g.played) ELSE {}]

BodyHeld(tag, g) ==
  page.at # "state" /\ ~untold.now /\ Stood(g) /\ lastSeen = tag.play /\ landed = tag.run
  => held.body = BodyThen(tag, g, entries, untold.between)

\* The tag of the body that is held, or is about to be.
LastTag == IF page.at = "state" THEN page.tag ELSE held.tag

TagStands(tag) ==
  tag.run # -1 => \E g \in Snapshots : TagOf(tag, g) /\ SinceTag(tag, g) /\ BodyHeld(tag, g)

PageInv == PageTypes /\ SkipsApart /\ TagStands(LastTag) /\ NotModifiedIsTrue

-----------------------------------------------------------------------------
LEMMA LatestOf ==
  ASSUME NEW T, T \subseteq Nat, IsFiniteSet(T)
  PROVE  /\ Latest(T) \in Nat
         /\ \A t \in T : t <= Latest(T)
         /\ T # {} => Latest(T) \in T
  <1>1. CASE T = {}
    BY <1>1 DEF Latest
  <1>2. CASE T # {}
    <2> DEFINE R == {r \in T \X T : r[1] > r[2]}
    <2>1. \A e \in T : <<e, e>> \notin R
      OBVIOUS
    <2>2. \A e, f, g \in T : <<e, f>> \in R /\ <<f, g>> \in R => <<e, g>> \in R
      OBVIOUS
    <2>3. PICK t \in T : \A u \in T : <<u, t>> \notin R
      <3> HIDE DEF R
      <3> QED
        BY <1>2, <2>1, <2>2, MinimalExists
    <2>4. ASSUME NEW u \in T PROVE u <= t
      <3>1. u \in Nat /\ t \in Nat
        OBVIOUS
      <3>2. ~(u > t)
        BY <2>3
      <3> QED
        BY <3>1, <3>2
    <2>5. Latest(T) = CHOOSE s \in T : \A u \in T : u <= s
      BY <1>2 DEF Latest
    <2>6. Latest(T) \in T /\ \A u \in T : u <= Latest(T)
      BY <2>4, <2>5
    <2> QED
      BY <1>2, <2>6
  <1> QED
    BY <1>1, <1>2

LEMMA LatestSkip ==
  ASSUME NEW times \in [Recommendable -> Nat]
  PROVE  LET last == Latest({times[a] : a \in SkipsOf(times)}) IN
         /\ last \in Nat
         /\ \A a \in Recommendable : times[a] <= last
         /\ last = 0 \/ \E a \in Recommendable : times[a] = last
  <1> DEFINE T == {times[a] : a \in SkipsOf(times)}
  <1>1. T \subseteq Nat
    BY DEF SkipsOf
  <1>2. IsFiniteSet(T)
    <2>1. SkipsOf(times) \in SUBSET Recommendable
      BY DEF SkipsOf
    <2>2. IsFiniteSet(SkipsOf(times))
      BY <2>1, PageConstants, FS_Subset
    <2> DEFINE f == [a \in SkipsOf(times) |-> times[a]]
    <2>3. f \in Surjection(SkipsOf(times), T)
      BY DEF Surjection
    <2> HIDE DEF f, T
    <2> QED
      BY <2>2, <2>3, FS_Surjection
  <1>3. Latest(T) \in Nat /\ (\A t \in T : t <= Latest(T)) /\ (T # {} => Latest(T) \in T)
    <2> HIDE DEF T
    <2> QED
      BY <1>1, <1>2, LatestOf
  <1>4. \A a \in Recommendable : times[a] <= Latest(T)
    <2> SUFFICES ASSUME NEW a \in Recommendable PROVE times[a] <= Latest(T)
      OBVIOUS
    <2>1. CASE times[a] = 0
      <3> HIDE DEF T
      <3> QED
        BY <1>3, <2>1
    <2>2. CASE times[a] # 0
      <3>1. times[a] \in T
        BY <2>2 DEF SkipsOf
      <3> HIDE DEF T
      <3> QED
        BY <1>3, <3>1
    <2> QED
      BY <2>1, <2>2
  <1>5. Latest(T) = 0 \/ \E a \in Recommendable : times[a] = Latest(T)
    <2>1. CASE T = {}
      <3> HIDE DEF T
      <3> QED
        BY <2>1 DEF Latest
    <2>2. CASE T # {}
      <3>1. \A t \in T : \E a \in Recommendable : times[a] = t
        BY DEF SkipsOf
      <3> HIDE DEF T
      <3> QED
        BY <1>3, <2>2, <3>1
    <2> QED
      BY <2>1, <2>2
  <1> HIDE DEF T
  <1> QED
    BY <1>3, <1>4, <1>5 DEF T

LEMMA SkipsFinite ==
  ASSUME NEW times \in [Recommendable -> Nat]
  PROVE  IsFiniteSet(SkipsOf(times)) /\ Cardinality(SkipsOf(times)) \in Nat
  <1>1. SkipsOf(times) \in SUBSET Recommendable
    BY DEF SkipsOf
  <1> QED
    BY <1>1, PageConstants, FS_Subset, FS_CardinalityType

LEMMA StateIs ==
  /\ Skips = SkipsOf(skipped)
  /\ State = [play |-> lastSeen, skips |-> Cardinality(SkipsOf(skipped)),
              skip |-> Latest({skipped[a] : a \in SkipsOf(skipped)})]
  <1>1. Skips = SkipsOf(skipped)
    BY DEF Skips, SkipsOf
  <1> QED
    BY <1>1 DEF State

\* A tag that is made again says that the skips are those it was made of.
LEMMA SameSkips ==
  ASSUME NEW g \in Snapshots, NEW tag, TagOf(tag, g), SinceTag(tag, g),
         skipped \in [Recommendable -> Nat],
         tag.skips = State.skips, tag.skip = State.skip
  PROVE  skipped = g.skipped
  <1>1. g.skipped \in [Recommendable -> Nat] /\ g.clock \in Nat
    BY DEF Snapshots
  <1>2. \A a \in Recommendable : skipped[a] \in {0, g.skipped[a]}
    <2> SUFFICES ASSUME NEW a \in Recommendable PROVE skipped[a] \in {0, g.skipped[a]}
      OBVIOUS
    <2>1. tag.skip \in Nat /\ skipped[a] <= tag.skip
      BY StateIs, LatestSkip
    <2>2. tag.skip <= g.clock
      <3>1. tag.skip = 0 \/ \E b \in Recommendable : g.skipped[b] = tag.skip
        BY <1>1, LatestSkip DEF TagOf
      <3> QED
        BY <1>1, <3>1 DEF TagOf
    <2>3. ~(skipped[a] > g.clock)
      BY <1>1, <2>1, <2>2
    <2> QED
      BY <2>3 DEF SinceTag
  <1>3. SkipsOf(skipped) \in SUBSET SkipsOf(g.skipped)
    BY <1>2 DEF SkipsOf
  <1>4. Cardinality(SkipsOf(skipped)) = Cardinality(SkipsOf(g.skipped))
    BY StateIs DEF TagOf
  <1>5. SkipsOf(skipped) = SkipsOf(g.skipped)
    BY <1>1, <1>3, <1>4, SkipsFinite, FS_Subset
  <1>6. \A a \in Recommendable : skipped[a] = g.skipped[a]
    BY <1>2, <1>5 DEF SkipsOf
  <1> QED
    BY <1>1, <1>6

-----------------------------------------------------------------------------
(* The request.                                                             *)

\* A step of the request that neither makes a tag nor reads a list.
LEMMA RequestGoesOn ==
  ASSUME PageInv, UNCHANGED <<tables, pageEvents, held, untold>>,
         PageTypes', NotModifiedIsTrue', page.at # "state", page'.at # "state"
  PROVE  PageInv'
  <1>1. SkipsApart'
    BY DEF PageInv, SkipsApart, tables
  <1>2. LastTag = held.tag /\ LastTag' = held.tag
    BY DEF LastTag
  <1>3. ASSUME held.tag.run # -1
        PROVE  \E g \in Snapshots : /\ TagOf(held.tag, g) /\ SinceTag(held.tag, g)'
                                    /\ BodyHeld(held.tag, g)'
    <2>1. PICK g \in Snapshots : TagOf(held.tag, g) /\ SinceTag(held.tag, g) /\ BodyHeld(held.tag, g)
      BY <1>2, <1>3 DEF PageInv, TagStands
    <2>2. SinceTag(held.tag, g)'
      BY <2>1 DEF SinceTag, tables
    <2>3. BodyHeld(held.tag, g)'
      BY <2>1 DEF BodyHeld, Stood, tables
    <2> QED
      BY <2>1, <2>2, <2>3
  <1>4. TagStands(LastTag)'
    BY <1>2, <1>3 DEF TagStands, TagOf
  <1> QED
    BY <1>1, <1>4 DEF PageInv

LEMMA ReadSettingHolds == ASSUME PageInv, ReadSetting PROVE PageInv'
  <1>1. page' = [at |-> "setting", tag |-> [NoTag EXCEPT !.on = on]]
    BY DEF ReadSetting, NoPage
  <1>2. UNCHANGED <<tables, pageEvents, held, answer, untold>> /\ page.at = "idle"
    BY DEF ReadSetting
  <1>3. PageTypes'
    BY <1>1, <1>2 DEF PageInv, PageTypes, PageTypeOK, Skips, tables, NoTag, TagRecords
  <1>4. NotModifiedIsTrue'
    BY <1>2 DEF PageInv, NotModifiedIsTrue
  <1> QED
    BY <1>1, <1>2, <1>3, <1>4, RequestGoesOn

LEMMA ReadVersionHolds == ASSUME PageInv, ReadVersion PROVE PageInv'
  <1>1. page' = [at |-> "version", tag |-> [page.tag EXCEPT !.run = landed]]
    BY DEF ReadVersion, PageInv, PageTypes
  <1>2. UNCHANGED <<tables, pageEvents, held, answer, untold>> /\ page.at = "setting"
    BY DEF ReadVersion
  <1>3. landed \in Nat
    BY DEF PageInv, PageTypes, PageTypeOK
  <1>4. PageTypes'
    BY <1>1, <1>2, <1>3 DEF PageInv, PageTypes, PageTypeOK, Skips, tables, TagRecords
  <1>5. NotModifiedIsTrue'
    BY <1>2 DEF PageInv, NotModifiedIsTrue
  <1> QED
    BY <1>1, <1>2, <1>4, <1>5, RequestGoesOn

\* A 304: the body is what the list would be, unless no tag could tell.
LEMMA HeldIsFresh ==
  ASSUME PageInv, page.at = "version", NEW tag, tag = held.tag, tag.run = page.tag.run,
         tag.play = State.play, tag.skips = State.skips, tag.skip = State.skip,
         ~untold.now, landed = tag.run
  PROVE  held.body = BodyOf(tag.on, tag.run)
  <1>1. tag.run # -1 /\ LastTag = tag
    BY DEF PageInv, PageTypes, LastTag
  <1>2. PICK g \in Snapshots : TagOf(tag, g) /\ SinceTag(tag, g) /\ BodyHeld(tag, g)
    BY <1>1 DEF PageInv, TagStands
  <1>3. skipped \in [Recommendable -> Nat] /\ expired \subseteq Skips
    BY PageConstants DEF PageInv, PageTypes, PageTypeOK
  <1>4. skipped = g.skipped
    BY <1>2, <1>3, SameSkips
  <1>5. lastSeen = tag.play
    BY StateIs
  <1>6. played = g.played
    BY <1>2, <1>5 DEF SinceTag
  <1>7. untold.between = {}
    <2> SUFFICES ASSUME NEW a \in untold.between PROVE FALSE
      OBVIOUS
    <2>1. a \in Recommendable
      BY DEF PageInv, PageTypes
    <2>2. skipped[a] > g.clock /\ skipped[a] <= g.clock /\ skipped[a] \in Nat /\ g.clock \in Nat
      BY <1>2, <1>3, <1>4, <2>1 DEF SinceTag, TagOf, Snapshots
    <2> QED
      BY <2>2
  <1>8. Hidden = HiddenThen(g)
    <2>1. \A a \in SkipsOf(skipped) : a \in expired <=> a \in g.expired
      BY <1>2, <1>4 DEF SinceTag, SkipsOf
    <2> QED
      BY <1>4, <2>1, StateIs DEF Hidden, HiddenThen
  <1>9. held.body = BodyThen(tag, g, entries, {})
    BY <1>2, <1>4, <1>5, <1>7 DEF BodyHeld, Stood
  <1> QED
    BY <1>6, <1>8, <1>9 DEF BodyThen, BodyOf

\* A new tag: the tables are as they are.
LEMMA TagIsMade ==
  ASSUME PageInv, page.at = "version", UNCHANGED <<tables, pageEvents, held, answer>>,
         NEW tag \in TagRecords, tag.run = page.tag.run,
         tag.play = State.play, tag.skips = State.skips, tag.skip = State.skip,
         page' = [at |-> "state", tag |-> tag], untold' = [now |-> FALSE, between |-> {}]
  PROVE  PageInv'
  <1>1. skipped \in [Recommendable -> Nat] /\ lastSeen \in Nat /\ pageEvents \in Nat
    BY PageConstants DEF PageInv, PageTypes, PageTypeOK
  <1>2. PageTypes'
    BY DEF PageInv, PageTypes, PageTypeOK, Skips, tables
  <1>3. SkipsApart' /\ NotModifiedIsTrue'
    BY DEF PageInv, SkipsApart, NotModifiedIsTrue, tables
  <1>4. LastTag' = tag
    BY DEF LastTag
  <1>5. PICK g \in Snapshots : g = [skipped |-> skipped, expired |-> expired, played |-> played,
                                    clock |-> pageEvents]
    BY <1>1 DEF PageInv, PageTypes, PageTypeOK, Snapshots, Skips
  <1>6. TagOf(tag, g)
    BY <1>1, <1>5, StateIs DEF TagOf, PageInv, PageTypes
  <1>7. SinceTag(tag, g)'
    <2>1. \A a \in Recommendable : ~(skipped[a] > pageEvents)
      BY <1>1 DEF PageInv, PageTypes
    <2>2. tag.run <= landed /\ tag.play = lastSeen
      BY StateIs DEF PageInv, PageTypes
    <2> QED
      BY <1>1, <1>5, <2>1, <2>2 DEF SinceTag, tables
  <1>8. BodyHeld(tag, g)'
    BY DEF BodyHeld
  <1>9. TagStands(LastTag)'
    BY <1>4, <1>6, <1>7, <1>8 DEF TagStands, TagOf
  <1> QED
    BY <1>2, <1>3, <1>9 DEF PageInv

LEMMA ReadStateHolds == ASSUME PageInv, ReadState PROVE PageInv'
  <1> DEFINE tag == [page.tag EXCEPT !.play = State.play, !.skips = State.skips,
                                     !.skip = State.skip]
  <1>1. page.at = "version" /\ UNCHANGED <<tables, pageEvents, held>>
    BY DEF ReadState
  <1>2. skipped \in [Recommendable -> Nat] /\ lastSeen \in Nat
    BY PageConstants DEF PageInv, PageTypes, PageTypeOK
  <1>3. State \in [play : Nat, skips : Nat, skip : Nat]
    BY <1>2, StateIs, LatestSkip, SkipsFinite
  <1>4. /\ tag \in TagRecords /\ tag.run = page.tag.run /\ tag.on = page.tag.on
        /\ tag.play = State.play /\ tag.skips = State.skips /\ tag.skip = State.skip
    BY <1>3 DEF PageInv, PageTypes, TagRecords
  <1>5. ASSUME tag = held.tag PROVE PageInv'
    <2>1. /\ answer' = [status |-> 304, held |-> held.body, fresh |-> BodyOf(tag.on, tag.run),
                        blind |-> untold.now \/ landed # tag.run]
          /\ page' = NoPage /\ UNCHANGED untold
      BY <1>5 DEF ReadState
    <2> HIDE DEF tag
    <2>2. ~untold.now /\ landed = tag.run => held.body = BodyOf(tag.on, tag.run)
      BY <1>1, <1>4, <1>5, HeldIsFresh
    <2>3. NotModifiedIsTrue'
      BY <2>1, <2>2 DEF NotModifiedIsTrue
    <2>4. PageTypes'
      BY <1>1, <2>1 DEF PageInv, PageTypes, PageTypeOK, Skips, tables, NoPage, NoTag, TagRecords
    <2> QED
      BY <1>1, <2>1, <2>3, <2>4, RequestGoesOn DEF NoPage
  <1>6. ASSUME tag # held.tag PROVE PageInv'
    <2>1. /\ page' = [at |-> "state", tag |-> tag]
          /\ untold' = [now |-> FALSE, between |-> {}] /\ UNCHANGED answer
      BY <1>6 DEF ReadState
    <2> HIDE DEF tag
    <2>2. PICK made : made = tag
      OBVIOUS
    <2> QED
      BY <1>1, <1>4, <2>1, <2>2, TagIsMade
  <1> QED
    BY <1>5, <1>6

LEMMA ReadListHolds == ASSUME PageInv, ReadList PROVE PageInv'
  <1>1. /\ page.at = "state" /\ page' = NoPage
        /\ held' = [tag |-> page.tag, body |-> BodyOf(page.tag.on, page.tag.run)]
        /\ UNCHANGED <<tables, pageEvents, untold>> /\ answer'.status = 200
    BY DEF ReadList
  <1>2. page.tag \in TagRecords
    BY DEF PageInv, PageTypes
  <1>3. PageTypes'
    BY <1>1, <1>2 DEF PageInv, PageTypes, PageTypeOK, Skips, tables, NoPage, NoTag, TagRecords
  <1>4. SkipsApart' /\ NotModifiedIsTrue'
    BY <1>1 DEF PageInv, SkipsApart, NotModifiedIsTrue, tables
  <1>5. PICK tag : tag = page.tag
    OBVIOUS
  <1>6. LastTag = tag /\ LastTag' = tag
    BY <1>1, <1>5 DEF LastTag, NoPage
  <1>7. ASSUME tag.run # -1
        PROVE  \E g \in Snapshots : TagOf(tag, g) /\ SinceTag(tag, g)' /\ BodyHeld(tag, g)'
    <2>1. PICK g \in Snapshots : TagOf(tag, g) /\ SinceTag(tag, g)
      BY <1>6, <1>7 DEF PageInv, TagStands
    <2>2. SinceTag(tag, g)'
      BY <1>1, <2>1 DEF SinceTag, tables, NoPage
    <2>3. ASSUME ~untold.now, Stood(g), lastSeen = tag.play
          PROVE  BodyOf(tag.on, tag.run) = BodyThen(tag, g, entries, untold.between)
      <3>1. skipped \in [Recommendable -> Nat] /\ untold.between \subseteq Recommendable
        BY PageConstants DEF PageInv, PageTypes, PageTypeOK
      <3>2. played = g.played
        BY <2>1, <2>3 DEF SinceTag
      <3>3. g.clock \in Nat
        BY DEF Snapshots
      <3>4. \A a \in Recommendable :
               a \in Hidden <=> a \in HiddenThen(g) \/ a \in untold.between
        BY <1>1, <2>1, <2>3, <3>1, <3>3
           DEF SinceTag, Hidden, HiddenThen, SkipsOf, Skips, Stood
      <3>5. Hidden = HiddenThen(g) \cup untold.between
        <4>1. Hidden \subseteq Recommendable /\ HiddenThen(g) \subseteq Recommendable
          BY DEF Hidden, HiddenThen, SkipsOf, Skips
        <4> QED
          BY <3>1, <3>4, <4>1
      <3> QED
        BY <3>2, <3>5 DEF BodyOf, BodyThen
    <2>4. BodyHeld(tag, g)'
      <3>1. ASSUME ~untold.now', Stood(g)', lastSeen' = tag.play
            PROVE  held'.body = BodyThen(tag, g, entries', untold'.between)
        <4>1. ~untold.now /\ Stood(g) /\ lastSeen = tag.play
          BY <1>1, <3>1 DEF Stood, tables
        <4>2. held'.body = BodyOf(tag.on, tag.run)
          BY <1>1, <1>5
        <4>3. entries' = entries /\ untold' = untold
          BY <1>1 DEF tables
        <4> QED
          BY <2>3, <4>1, <4>2, <4>3
      <3> QED
        BY <3>1 DEF BodyHeld
    <2> QED
      BY <2>1, <2>2, <2>4
  <1>8. TagStands(LastTag)'
    BY <1>6, <1>7 DEF TagStands, TagOf
  <1> QED
    BY <1>3, <1>4, <1>8 DEF PageInv

-----------------------------------------------------------------------------
(* What happens beside it.                                                  *)

LEMMA BesideHolds ==
  ASSUME PageInv, Beside, PageTypes', SkipsApart',
         \A tag \in TagRecords, g \in Snapshots :
            TagOf(tag, g) /\ SinceTag(tag, g) => SinceTag(tag, g)',
         \A tag \in TagRecords, g \in Snapshots :
            /\ TagOf(tag, g) /\ SinceTag(tag, g) /\ page.at # "state" /\ ~untold'.now
            /\ Stood(g)' /\ lastSeen' = tag.play /\ landed' = tag.run
            => /\ ~untold.now /\ Stood(g) /\ lastSeen = tag.play /\ landed = tag.run
               /\ entries' = entries /\ untold'.between = untold.between
  PROVE  PageInv'
  <1>1. NotModifiedIsTrue'
    BY DEF PageInv, NotModifiedIsTrue, Beside
  <1>2. PICK tag \in TagRecords : tag = LastTag
    BY DEF LastTag, PageInv, PageTypes
  <1>3. LastTag' = tag
    BY <1>2 DEF LastTag, Beside
  <1>4. ASSUME tag.run # -1
        PROVE  \E g \in Snapshots : TagOf(tag, g) /\ SinceTag(tag, g)' /\ BodyHeld(tag, g)'
    <2>1. PICK g \in Snapshots : TagOf(tag, g) /\ SinceTag(tag, g) /\ BodyHeld(tag, g)
      BY <1>2, <1>4 DEF PageInv, TagStands
    <2>2. SinceTag(tag, g)'
      BY <2>1
    <2>3. ASSUME page'.at # "state", ~untold'.now, Stood(g)', lastSeen' = tag.play,
                 landed' = tag.run
          PROVE  held'.body = BodyThen(tag, g, entries', untold'.between)
      <3>1. page' = page /\ held' = held
        BY DEF Beside
      <3>2. /\ ~untold.now /\ Stood(g) /\ lastSeen = tag.play /\ landed = tag.run
            /\ entries' = entries /\ untold'.between = untold.between
        BY <2>1, <2>3, <3>1
      <3>3. held.body = BodyThen(tag, g, entries, untold.between)
        BY <2>1, <2>3, <3>1, <3>2 DEF BodyHeld
      <3> QED
        BY <3>1, <3>2, <3>3
    <2>4. BodyHeld(tag, g)'
      BY <2>3 DEF BodyHeld
    <2> QED
      BY <2>1, <2>2, <2>4
  <1>5. TagStands(LastTag)'
    BY <1>3, <1>4 DEF TagStands, TagOf
  <1> QED
    BY <1>1, <1>5 DEF PageInv

LEMMA TypesAre ==
  ASSUME PageTypes
  PROVE  /\ landed \in Nat /\ lastSeen \in Nat /\ pageEvents \in Nat
         /\ skipped \in [Recommendable -> Nat] /\ expired \subseteq Recommendable
         /\ \A a \in Recommendable : skipped[a] <= pageEvents
BY PageConstants DEF PageTypes, PageTypeOK, Skips

LEMMA RunLandsHolds == ASSUME PageInv, RunLands PROVE PageInv'
  <1>0. PageTypes
    BY DEF PageInv
  <1>1. /\ pageEvents < MaxPageEvents /\ pageEvents' = pageEvents + 1 /\ landed' = landed + 1
        /\ Beside /\ UNCHANGED <<on, skipped, expired, played, lastSeen, untold>>
        /\ entries' \in [has : BOOLEAN, list : SUBSET Recommendable]
    <2>1. PICK list \in SUBSET (Recommendable \ played) :
             entries' = [has |-> on /\ list # {}, list |-> IF on THEN list ELSE {}]
      BY DEF RunLands
    <2> QED
      BY <2>1 DEF RunLands, Event
  <1>2. PageTypes'
    BY <1>0, <1>1, TypesAre, PageConstants DEF PageTypes, PageTypeOK, Skips, Beside
  <1>3. SkipsApart'
    BY <1>1 DEF PageInv, SkipsApart
  <1>4. ASSUME NEW tag \in TagRecords, NEW g \in Snapshots, SinceTag(tag, g)
        PROVE  SinceTag(tag, g)' /\ landed' # tag.run
    <2>1. g.clock \in Nat /\ tag.run \in Int
      BY DEF Snapshots, TagRecords
    <2> QED
      BY <1>0, <1>1, <1>4, <2>1, TypesAre DEF SinceTag, Beside
  <1> QED
    BY <1>1, <1>2, <1>3, <1>4, BesideHolds

\* A play, late or not: what was played with the latest play unchanged is told
\* by nothing.
LEMMA PlaysHold ==
  ASSUME PageInv, NEW a \in Recommendable, Play(a) \/ LatePlay(a) PROVE PageInv'
  <1>0. PageTypes
    BY DEF PageInv
  <1>1. /\ pageEvents < MaxPageEvents /\ pageEvents' = pageEvents + 1
        /\ Beside /\ UNCHANGED <<on, landed, entries, skipped, expired>>
        /\ played' = played \cup {a}
        /\ \/ lastSeen' = pageEvents + 1 /\ untold' = untold
           \/ lastSeen' = lastSeen /\ untold' = [untold EXCEPT !.now = TRUE]
    BY DEF Play, LatePlay, Event, Untold, Now
  <1>2. /\ untold' = [now |-> untold'.now, between |-> untold.between]
        /\ untold'.now \in BOOLEAN /\ untold'.now \in {untold.now, TRUE}
        /\ lastSeen' \in Nat /\ lastSeen' <= pageEvents + 1
        /\ untold'.now \/ lastSeen' = pageEvents + 1
        /\ lastSeen <= lastSeen'
    <2>0. /\ untold = [now |-> untold.now, between |-> untold.between] /\ untold.now \in BOOLEAN
          /\ lastSeen \in Nat /\ pageEvents \in Nat /\ lastSeen <= pageEvents
      BY <1>0, TypesAre DEF PageTypes
    <2>1. CASE lastSeen' = pageEvents + 1 /\ untold' = untold
      BY <2>0, <2>1
    <2>2. CASE lastSeen' = lastSeen /\ untold' = [untold EXCEPT !.now = TRUE]
      <3>1. untold' = [now |-> TRUE, between |-> untold.between]
        BY <2>0, <2>2
      <3>2. untold'.now = TRUE /\ untold'.between = untold.between
        BY <3>1
      <3>3. untold' = [now |-> untold'.now, between |-> untold.between]
        BY <3>1, <3>2
      <3> QED
        BY <2>0, <2>2, <3>2, <3>3
    <2> QED
      BY <1>1, <2>1, <2>2
  <1>3. PageTypes'
    <2>1. PageTypeOK'
      BY <1>0, <1>1, <1>2, TypesAre, PageConstants DEF PageTypes, PageTypeOK, Skips, Beside
    <2> QED
      BY <1>0, <1>1, <1>2, <2>1, TypesAre, PageConstants DEF PageTypes, Beside
  <1>4. SkipsApart'
    BY <1>1 DEF PageInv, SkipsApart
  <1>5. ASSUME NEW tag \in TagRecords, NEW g \in Snapshots, SinceTag(tag, g)
        PROVE  SinceTag(tag, g)' /\ (~untold'.now => lastSeen' # tag.play)
    <2>1. g.clock \in Nat /\ tag.play \in Nat /\ g.clock <= pageEvents /\ tag.play <= lastSeen
      BY <1>5 DEF Snapshots, TagRecords, SinceTag
    <2>2. g.clock <= pageEvents' /\ tag.play <= lastSeen'
      BY <1>0, <1>1, <1>2, <2>1, TypesAre
    <2>3. ~untold'.now => lastSeen' # tag.play /\ ~untold.now
      BY <1>0, <1>1, <1>2, <2>1, TypesAre DEF PageTypes
    <2>4. SinceTag(tag, g)'
      BY <1>1, <1>2, <1>5, <2>2, <2>3 DEF SinceTag, Beside
    <2> QED
      BY <2>3, <2>4
  <1> QED
    BY <1>1, <1>3, <1>4, <1>5, BesideHolds

\* What a skip does: the newest MAX_SKIPS stand, this one among them.
LEMMA SkipIs ==
  ASSUME PageTypes, SkipsApart, NEW a \in Recommendable, Skip(a)
  PROVE  /\ skipped' \in [Recommendable -> Nat]
         /\ skipped'[a] = pageEvents + 1
         /\ \A b \in Recommendable : b # a => skipped'[b] \in {0, skipped[b]}
         /\ Cardinality(SkipsOf(skipped')) <= MAX_SKIPS
  <1> DEFINE with == [skipped EXCEPT ![a] = Now]
             rows == {b \in Recommendable : with[b] # 0}
             newer(b) == {c \in rows : with[c] > with[b]}
             R == {r \in rows \X rows : with[r[1]] > with[r[2]]}
  <1>1. skipped' = [b \in Recommendable |->
                      IF b \in rows /\ Cardinality(newer(b)) < MAX_SKIPS THEN with[b] ELSE 0]
    BY DEF Skip
  <1>2. /\ skipped \in [Recommendable -> Nat] /\ pageEvents \in Nat
        /\ \A b \in Recommendable : skipped[b] <= pageEvents
    BY TypesAre
  <1>3. /\ with \in [Recommendable -> Nat] /\ with[a] = pageEvents + 1
        /\ \A b \in Recommendable : b # a => with[b] = skipped[b]
        /\ \A b \in Recommendable : with[b] <= pageEvents + 1
    BY <1>2 DEF Now
  <1>4. \A b, c \in rows : with[b] = with[c] => b = c
    <2> SUFFICES ASSUME NEW b \in rows, NEW c \in rows, with[b] = with[c] PROVE b = c
      OBVIOUS
    <2>0. b \in Recommendable /\ c \in Recommendable /\ with[b] # 0
      OBVIOUS
    <2> HIDE DEF with, rows
    <2>1. CASE b = a \/ c = a
      BY <1>2, <1>3, <2>0, <2>1
    <2>2. CASE b # a /\ c # a
      BY <1>3, <2>0, <2>2 DEF SkipsApart
    <2> QED
      BY <2>1, <2>2
  <1>5. rows \in SUBSET Recommendable /\ a \in rows
    BY <1>2, <1>3
  <1>6. IsFiniteSet(rows)
    <2> HIDE DEF rows
    <2> QED
      BY <1>5, PageConstants, FS_Subset
  <1>7. newer(a) = {}
    <2> SUFFICES ASSUME NEW c \in rows, with[c] > with[a] PROVE FALSE
      OBVIOUS
    <2> HIDE DEF with
    <2> QED
      BY <1>2, <1>3
  <1>8. skipped'[a] = pageEvents + 1
    <2> HIDE DEF with, rows
    <2>1. Cardinality(newer(a)) < MAX_SKIPS
      BY <1>7, FS_EmptySet, PageConstants
    <2> HIDE DEF newer
    <2> QED
      BY <1>1, <1>3, <1>5, <2>1
  <1>9. SkipsOf(skipped') = FirstBy(rows, R, MAX_SKIPS)
    <2>1. \A b \in rows : newer(b) = {c \in rows : <<c, b>> \in R}
      <3> HIDE DEF with, rows
      <3> QED
        OBVIOUS
    <2>2. FirstBy(rows, R, MAX_SKIPS) = {b \in rows : Cardinality(newer(b)) < MAX_SKIPS}
      <3> HIDE DEF with, rows, newer, R
      <3> QED
        BY <2>1 DEF FirstBy
    <2>3. \A b \in Recommendable : skipped'[b] # 0 <=> b \in rows /\ Cardinality(newer(b)) < MAX_SKIPS
      <3>1. \A b \in rows : with[b] # 0
        OBVIOUS
      <3> HIDE DEF with, rows, newer
      <3> QED
        BY <1>1, <3>1
    <2> HIDE DEF with, rows, newer, R
    <2> QED
      BY <1>5, <2>2, <2>3 DEF SkipsOf
  <1>10. Cardinality(FirstBy(rows, R, MAX_SKIPS)) <= MAX_SKIPS
    <2> HIDE DEF with
    <2>1. \A e \in rows : <<e, e>> \notin R
      BY <1>3
    <2>2. \A e, f, g \in rows : <<e, f>> \in R /\ <<f, g>> \in R => <<e, g>> \in R
      BY <1>3, <1>5
    <2>3. \A e, f \in rows : e = f \/ <<e, f>> \in R \/ <<f, e>> \in R
      BY <1>3, <1>4, <1>5
    <2>4. MAX_SKIPS \in Nat
      BY PageConstants
    <2> HIDE DEF rows, R
    <2> QED
      BY <1>6, <2>1, <2>2, <2>3, <2>4, FirstAtMost
  <1>11. skipped' \in [Recommendable -> Nat]
         /\ \A b \in Recommendable : b # a => skipped'[b] \in {0, skipped[b]}
    <2> HIDE DEF with, rows, newer
    <2> QED
      BY <1>1, <1>3
  <1> HIDE DEF with, rows, newer, R
  <1> QED
    BY <1>8, <1>9, <1>10, <1>11

\* A step that takes skips away or makes one new, and changes neither list
\* nor plays.
LEMMA SkipsChange ==
  ASSUME PageInv, Beside, UNCHANGED <<on, landed, entries, played, lastSeen>>,
         pageEvents' \in {pageEvents, pageEvents + 1}, pageEvents' \in 0 .. MaxPageEvents,
         skipped' \in [Recommendable -> Nat], Cardinality(SkipsOf(skipped')) <= MAX_SKIPS,
         NEW New \in SUBSET Recommendable, \A a, b \in New : a = b,
         \A a \in New : skipped'[a] = pageEvents + 1 /\ a \notin expired' /\ pageEvents' # pageEvents,
         \A a \in Recommendable \ New : skipped'[a] \in {0, skipped[a]},
         expired' \subseteq SkipsOf(skipped'),
         \A a \in Recommendable \ New : skipped'[a] # 0 /\ ~untold'.now =>
             (a \in expired' <=> a \in expired),
         untold' = [now |-> untold'.now, between |-> untold'.between], untold'.now \in BOOLEAN,
         untold.now => untold'.now,
         ~untold'.now => \A a \in untold.between :
             skipped[a] # 0 /\ a \notin expired => skipped'[a] # 0 /\ a \notin expired',
         untold'.between = untold.between \cup (IF page.at = "state" THEN New ELSE {})
  PROVE  PageInv'
  <1>0. PageTypes
    BY DEF PageInv
  <1>1. /\ skipped \in [Recommendable -> Nat] /\ pageEvents \in Nat /\ pageEvents' \in Nat
        /\ \A a \in Recommendable : skipped[a] <= pageEvents
        /\ landed \in Nat /\ lastSeen \in Nat
    BY <1>0, TypesAre, PageConstants
  <1>2. \A a \in Recommendable : skipped'[a] <= pageEvents'
    <2> SUFFICES ASSUME NEW a \in Recommendable PROVE skipped'[a] <= pageEvents'
      OBVIOUS
    <2>1. CASE a \in New
      BY <1>1, <2>1
    <2>2. CASE a \notin New
      BY <1>1, <2>2
    <2> QED
      BY <2>1, <2>2
  <1>3. SkipsApart'
    <2> SUFFICES ASSUME NEW a \in Recommendable, NEW b \in Recommendable,
                        skipped'[a] # 0, skipped'[a] = skipped'[b]
                 PROVE  a = b
      BY DEF SkipsApart
    <2>1. \A c \in Recommendable \ New : skipped'[c] <= pageEvents
      BY <1>1
    <2>2. CASE a \in New \/ b \in New
      BY <1>1, <2>1, <2>2
    <2>3. CASE a \notin New /\ b \notin New
      BY <2>3 DEF PageInv, SkipsApart
    <2> QED
      BY <2>2, <2>3
  <1>4. PageTypeOK'
    <2>1. Skips' = SkipsOf(skipped')
      BY DEF Skips, SkipsOf
    <2>2. skipped' \in [Recommendable -> 0 .. MaxPageEvents]
      BY <1>1, <1>2, PageConstants
    <2> QED
      BY <1>0, <2>1, <2>2 DEF PageTypes, PageTypeOK, Beside
  <1>5. landed' <= pageEvents' /\ lastSeen' <= pageEvents'
    BY <1>0, <1>1 DEF PageTypes
  <1>6. untold'.between \subseteq Recommendable
    BY <1>0 DEF PageTypes
  <1>7. PageTypes'
    BY <1>0, <1>2, <1>4, <1>5, <1>6 DEF PageTypes, Beside
  <1>8. ASSUME NEW tag \in TagRecords, NEW g \in Snapshots, TagOf(tag, g), SinceTag(tag, g)
        PROVE  SinceTag(tag, g)'
    <2>1. /\ g.clock \in Nat /\ g.clock <= pageEvents /\ g.skipped \in [Recommendable -> Nat]
          /\ \A a \in Recommendable : g.skipped[a] <= g.clock
      BY <1>8 DEF Snapshots, SinceTag, TagOf
    <2>2. g.clock <= pageEvents'
      BY <1>1, <2>1
    <2>3. \A a \in New : skipped'[a] > g.clock /\ skipped'[a] # g.skipped[a]
      BY <1>1, <2>1
    <2>4. \A a \in Recommendable : skipped'[a] \in {0, g.skipped[a]} \/ skipped'[a] > g.clock
      BY <1>8, <2>3 DEF SinceTag
    <2>5. ASSUME ~untold'.now, NEW a \in Recommendable, skipped'[a] # 0,
                 skipped'[a] = g.skipped[a]
          PROVE  a \in expired' <=> a \in g.expired
      BY <1>8, <2>3, <2>5 DEF SinceTag
    <2>6. ASSUME ~untold'.now, NEW a \in untold'.between
          PROVE  skipped'[a] > g.clock /\ a \notin expired'
      <3>1. CASE a \in New
        BY <2>3, <3>1
      <3>2. CASE a \notin New
        <4>1. a \in untold.between /\ a \in Recommendable
          BY <1>6, <2>6, <3>2
        <4>2. skipped[a] > g.clock /\ a \notin expired
          BY <1>8, <2>6, <4>1 DEF SinceTag
        <4>3. skipped'[a] # 0 /\ a \notin expired'
          BY <1>1, <2>1, <2>6, <4>1, <4>2
        <4> QED
          BY <3>2, <4>1, <4>2, <4>3
      <3> QED
        BY <3>1, <3>2
    <2>7. ASSUME page.at = "state", NEW a \in Recommendable, skipped'[a] > g.clock
          PROVE  a \in untold'.between
      <3>1. CASE a \in New
        BY <2>7, <3>1
      <3>2. CASE a \notin New
        <4>1. skipped[a] > g.clock
          BY <2>1, <2>7, <3>2
        <4> QED
          BY <1>8, <2>7, <4>1 DEF SinceTag
      <3> QED
        BY <3>1, <3>2
    <2>8. /\ tag.play <= lastSeen' /\ tag.run <= landed'
          /\ ~untold'.now /\ lastSeen' = tag.play => played' = g.played
      BY <1>8 DEF SinceTag
    <2>9. page' = page
      BY DEF Beside
    <2> QED
      BY <2>2, <2>4, <2>5, <2>6, <2>7, <2>8, <2>9 DEF SinceTag
  <1>9. ASSUME NEW tag \in TagRecords, NEW g \in Snapshots, TagOf(tag, g), SinceTag(tag, g),
               page.at # "state", ~untold'.now, Stood(g)'
        PROVE  ~untold.now /\ Stood(g) /\ untold'.between = untold.between
    <2>1. /\ g.clock \in Nat /\ g.clock <= pageEvents /\ g.skipped \in [Recommendable -> Nat]
          /\ \A a \in Recommendable : g.skipped[a] <= g.clock
      BY <1>9 DEF Snapshots, SinceTag, TagOf
    <2>2. \A a \in New : skipped'[a] # g.skipped[a]
      BY <1>1, <2>1
    <2>3. ASSUME NEW a \in Recommendable, g.skipped[a] # 0 PROVE skipped[a] = g.skipped[a]
      <3>1. skipped'[a] = g.skipped[a]
        BY <1>9, <2>3 DEF Stood
      <3> QED
        BY <2>2, <2>3, <3>1
    <2> QED
      BY <1>9, <2>3 DEF Stood
  <1> QED
    BY <1>3, <1>7, <1>8, <1>9, BesideHolds

LEMMA SkipHolds == ASSUME PageInv, NEW a \in Recommendable, Skip(a) PROVE PageInv'
  <1>0. PageTypes /\ SkipsApart
    BY DEF PageInv
  <1>1. /\ pageEvents < MaxPageEvents /\ pageEvents' = pageEvents + 1
        /\ Beside /\ UNCHANGED <<on, landed, entries, played, lastSeen>>
        /\ expired' = expired \ {b \in Recommendable : b = a \/ skipped'[b] = 0}
        /\ untold' = [now |-> untold.now \/ \E b \in untold.between : skipped'[b] = 0,
                      between |-> untold.between \cup
                                    (IF page.at = "state" THEN {a} ELSE {})]
    BY DEF Skip, Event
  <1>2. /\ skipped' \in [Recommendable -> Nat] /\ skipped'[a] = pageEvents + 1
        /\ \A b \in Recommendable : b # a => skipped'[b] \in {0, skipped[b]}
        /\ Cardinality(SkipsOf(skipped')) <= MAX_SKIPS
    BY <1>0, SkipIs
  <1>3. /\ pageEvents \in Nat /\ MaxPageEvents \in Nat /\ expired \subseteq Recommendable
    BY <1>0, TypesAre, PageConstants
  <1>4. /\ untold'.now = (untold.now \/ \E b \in untold.between : skipped'[b] = 0)
        /\ untold'.between = untold.between \cup (IF page.at = "state" THEN {a} ELSE {})
    BY <1>1
  <1>5. untold' = [now |-> untold'.now, between |-> untold'.between] /\ untold'.now \in BOOLEAN
    BY <1>1, <1>4
  <1>6. expired' \subseteq SkipsOf(skipped')
    BY <1>1, <1>3 DEF SkipsOf
  <1>7. \A b \in Recommendable \ {a} : skipped'[b] # 0 => (b \in expired' <=> b \in expired)
    BY <1>1
  <1>8. ~untold'.now => \A b \in untold.between :
          skipped[b] # 0 /\ b \notin expired => skipped'[b] # 0 /\ b \notin expired'
    BY <1>1, <1>4
  <1>9. untold.now => untold'.now
    BY <1>4
  <1>10. pageEvents' \in 0 .. MaxPageEvents /\ pageEvents' # pageEvents
    BY <1>1, <1>3
  <1>11. a \notin expired'
    BY <1>1
  <1>12. PICK New \in SUBSET Recommendable : New = {a}
    OBVIOUS
  <1>13. \A b \in New : skipped'[b] = pageEvents + 1 /\ b \notin expired' /\ pageEvents' # pageEvents
    BY <1>2, <1>10, <1>11, <1>12
  <1>14. /\ \A b \in Recommendable \ New : skipped'[b] \in {0, skipped[b]}
         /\ \A b \in Recommendable \ New : skipped'[b] # 0 /\ ~untold'.now =>
               (b \in expired' <=> b \in expired)
         /\ untold'.between = untold.between \cup (IF page.at = "state" THEN New ELSE {})
         /\ \A b, c \in New : b = c
    BY <1>2, <1>4, <1>7, <1>12
  <1> QED
    BY <1>1, <1>2, <1>5, <1>6, <1>8, <1>9, <1>10, <1>13, <1>14, SkipsChange

\* What goes and what stays of the skips that are kept.
LEMMA FewerSkips ==
  ASSUME PageTypes, skipped' \in [Recommendable -> Nat],
         \A a \in Recommendable : skipped'[a] \in {0, skipped[a]}
  PROVE  Cardinality(SkipsOf(skipped')) <= MAX_SKIPS
  <1>1. SkipsOf(skipped') \in SUBSET SkipsOf(skipped)
    BY DEF SkipsOf
  <1>2. Cardinality(SkipsOf(skipped)) <= MAX_SKIPS
    BY StateIs DEF PageTypes, PageTypeOK
  <1>3. IsFiniteSet(SkipsOf(skipped)) /\ Cardinality(SkipsOf(skipped)) \in Nat
    BY TypesAre, SkipsFinite
  <1>4. /\ Cardinality(SkipsOf(skipped')) <= Cardinality(SkipsOf(skipped))
        /\ Cardinality(SkipsOf(skipped')) \in Nat
    BY <1>1, <1>3, SkipsFinite, FS_Subset
  <1> QED
    BY <1>2, <1>3, <1>4, PageConstants

LEMMA NoneIsNew ==
  ASSUME PageInv, Beside, UNCHANGED <<on, landed, entries, played, lastSeen>>,
         pageEvents' \in {pageEvents, pageEvents + 1}, pageEvents' \in 0 .. MaxPageEvents,
         skipped' \in [Recommendable -> Nat],
         \A a \in Recommendable : skipped'[a] \in {0, skipped[a]},
         expired' \subseteq SkipsOf(skipped'),
         \A a \in Recommendable : skipped'[a] # 0 /\ ~untold'.now =>
             (a \in expired' <=> a \in expired),
         untold' = [now |-> untold'.now, between |-> untold.between], untold'.now \in BOOLEAN,
         untold.now => untold'.now,
         ~untold'.now => \A a \in untold.between :
             skipped[a] # 0 /\ a \notin expired => skipped'[a] # 0 /\ a \notin expired'
  PROVE  PageInv'
  <1>1. Cardinality(SkipsOf(skipped')) <= MAX_SKIPS
    BY FewerSkips DEF PageInv
  <1>2. PICK New \in SUBSET Recommendable : New = {}
    OBVIOUS
  <1>3. untold'.between = untold.between
    OBVIOUS
  <1>4. /\ untold'.between = untold.between \cup (IF page.at = "state" THEN New ELSE {})
        /\ untold' = [now |-> untold'.now, between |-> untold'.between]
    BY <1>2, <1>3
  <1>5. /\ \A a, b \in New : a = b
        /\ \A a \in New : skipped'[a] = pageEvents + 1 /\ a \notin expired' /\ pageEvents' # pageEvents
        /\ \A a \in Recommendable \ New : skipped'[a] \in {0, skipped[a]}
        /\ \A a \in Recommendable \ New : skipped'[a] # 0 /\ ~untold'.now =>
             (a \in expired' <=> a \in expired)
    BY <1>2
  <1> QED
    BY <1>1, <1>4, <1>5, SkipsChange

LEMMA UnskipHolds == ASSUME PageInv, NEW a \in Recommendable, Unskip(a) PROVE PageInv'
  <1>0. PageTypes
    BY DEF PageInv
  <1>1. /\ pageEvents < MaxPageEvents /\ pageEvents' = pageEvents + 1
        /\ Beside /\ UNCHANGED <<on, landed, entries, played, lastSeen>>
        /\ skipped' = [skipped EXCEPT ![a] = 0] /\ expired' = expired \ {a}
        /\ untold' = IF a \in untold.between THEN [untold EXCEPT !.now = TRUE] ELSE untold
    BY DEF Unskip, Event
  <1>2. /\ pageEvents \in Nat /\ MaxPageEvents \in Nat /\ expired \subseteq SkipsOf(skipped)
        /\ skipped \in [Recommendable -> Nat]
    BY <1>0, TypesAre, StateIs, PageConstants DEF PageTypes, PageTypeOK
  <1>3. /\ untold = [now |-> untold.now, between |-> untold.between] /\ untold.now \in BOOLEAN
    BY <1>0 DEF PageTypes
  <1>4. /\ untold' = [now |-> untold'.now, between |-> untold.between] /\ untold'.now \in BOOLEAN
        /\ untold.now => untold'.now /\ (a \in untold.between => untold'.now)
        /\ ~untold'.now => a \notin untold.between
    <2>1. CASE a \in untold.between
      <3>1. untold' = [now |-> TRUE, between |-> untold.between]
        BY <1>1, <1>3, <2>1
      <3>2. untold'.now = TRUE
        BY <3>1
      <3> QED
        BY <2>1, <3>1, <3>2
    <2>2. CASE a \notin untold.between
      BY <1>1, <1>3, <2>2
    <2> QED
      BY <2>1, <2>2
  <1>5. skipped' \in [Recommendable -> Nat] /\ \A b \in Recommendable : skipped'[b] \in {0, skipped[b]}
    BY <1>1, <1>2
  <1>6. /\ expired' \subseteq SkipsOf(skipped')
        /\ \A b \in Recommendable : skipped'[b] # 0 => (b \in expired' <=> b \in expired)
    BY <1>1, <1>2 DEF SkipsOf
  <1>7. ~untold'.now => \A b \in untold.between :
          skipped[b] # 0 /\ b \notin expired => skipped'[b] # 0 /\ b \notin expired'
    <2>1. untold.between \subseteq Recommendable
      BY <1>0 DEF PageTypes
    <2> QED
      BY <1>1, <1>2, <1>4, <2>1
  <1>8. pageEvents' \in 0 .. MaxPageEvents
    BY <1>1, <1>2
  <1>9. untold.now => untold'.now
    BY <1>4
  <1> QED
    BY <1>1, <1>4, <1>5, <1>6, <1>7, <1>8, <1>9, NoneIsNew

\* Where the tag is told to be blind.
LEMMA UntoldIs ==
  ASSUME PageTypes, Untold
  PROVE  /\ untold'.now = TRUE /\ untold'.now \in BOOLEAN
         /\ untold' = [now |-> untold'.now, between |-> untold.between]
  <1>1. untold' = [now |-> TRUE, between |-> untold.between]
    BY DEF PageTypes, Untold
  <1> QED
    BY <1>1

LEMMA SkipExpiresHolds == ASSUME PageInv, NEW a \in Recommendable, SkipExpires(a) PROVE PageInv'
  <1>0. PageTypes
    BY DEF PageInv
  <1>1. /\ pageEvents < MaxPageEvents /\ pageEvents' = pageEvents + 1 /\ Beside
        /\ UNCHANGED <<on, landed, entries, skipped, played, lastSeen>>
        /\ expired' = expired \cup {a} /\ a \in SkipsOf(skipped) /\ Untold
    BY StateIs DEF SkipExpires, Event, Hidden
  <1>2. /\ pageEvents \in Nat /\ MaxPageEvents \in Nat /\ expired \subseteq SkipsOf(skipped)
        /\ skipped \in [Recommendable -> Nat]
    BY <1>0, TypesAre, StateIs, PageConstants DEF PageTypes, PageTypeOK
  <1>3. /\ untold'.now = TRUE /\ untold'.now \in BOOLEAN
        /\ untold' = [now |-> untold'.now, between |-> untold.between]
    BY <1>0, <1>1, UntoldIs
  <1>4. pageEvents' \in 0 .. MaxPageEvents /\ expired' \subseteq SkipsOf(skipped')
    BY <1>1, <1>2
  <1> QED
    BY <1>1, <1>2, <1>3, <1>4, NoneIsNew

LEMMA PurgeSkipsHolds == ASSUME PageInv, PurgeSkips PROVE PageInv'
  <1>0. PageTypes
    BY DEF PageInv
  <1>1. /\ Beside /\ UNCHANGED <<on, landed, entries, played, lastSeen, pageEvents, untold>>
        /\ skipped' = [a \in Recommendable |-> IF a \in expired THEN 0 ELSE skipped[a]]
        /\ expired' = {}
    BY DEF PurgeSkips
  <1>2. /\ pageEvents \in 0 .. MaxPageEvents /\ skipped \in [Recommendable -> Nat]
        /\ untold = [now |-> untold.now, between |-> untold.between] /\ untold.now \in BOOLEAN
        /\ untold.between \subseteq Recommendable
    BY <1>0, TypesAre DEF PageTypes
  <1>3. /\ skipped' \in [Recommendable -> Nat]
        /\ \A a \in Recommendable : skipped'[a] \in {0, skipped[a]}
        /\ \A a \in Recommendable : skipped'[a] # 0 => (a \in expired' <=> a \in expired)
    BY <1>1, <1>2
  <1>4. \A a \in untold.between :
          skipped[a] # 0 /\ a \notin expired => skipped'[a] # 0 /\ a \notin expired'
    BY <1>1, <1>2
  <1>5. untold' = [now |-> untold'.now, between |-> untold.between] /\ untold'.now \in BOOLEAN
    BY <1>1, <1>2
  <1> QED
    BY <1>1, <1>2, <1>3, <1>4, <1>5, NoneIsNew

LEMMA TurnOffHolds == ASSUME PageInv, TurnOff PROVE PageInv'
  <1>0. PageTypes
    BY DEF PageInv
  <1>1. /\ pageEvents < MaxPageEvents /\ pageEvents' = pageEvents + 1 /\ Beside
        /\ UNCHANGED <<landed, skipped, expired, played, lastSeen>>
        /\ on' = FALSE /\ entries' = [has |-> FALSE, list |-> {}] /\ Untold
    BY DEF TurnOff, Event
  <1>2. /\ untold'.now = TRUE /\ untold'.now \in BOOLEAN
        /\ untold' = [now |-> untold'.now, between |-> untold.between]
    BY <1>0, <1>1, UntoldIs
  <1>3. untold'.between = untold.between
    BY <1>2
  <1>4. PageTypes'
    <2>1. entries' \in [has : BOOLEAN, list : SUBSET Recommendable] /\ on' \in BOOLEAN
      BY <1>1
    <2>2. Skips' = Skips
      BY <1>1 DEF Skips
    <2>3. PageTypeOK'
      BY <1>0, <1>1, <2>1, <2>2 DEF PageTypes, PageTypeOK, Beside
    <2> QED
      BY <1>0, <1>1, <1>2, <1>3, <2>3, TypesAre, PageConstants DEF PageTypes, Beside
  <1>5. SkipsApart'
    BY <1>1 DEF PageInv, SkipsApart
  <1>6. ASSUME NEW tag \in TagRecords, NEW g \in Snapshots, SinceTag(tag, g)
        PROVE  SinceTag(tag, g)'
    <2>1. g.clock \in Nat /\ g.clock <= pageEvents
      BY <1>6 DEF Snapshots, SinceTag
    <2>2. g.clock <= pageEvents'
      BY <1>0, <1>1, <2>1, TypesAre
    <2> QED
      BY <1>1, <1>2, <1>3, <1>6, <2>2 DEF SinceTag, Beside
  <1> QED
    BY <1>1, <1>2, <1>4, <1>5, <1>6, BesideHolds

LEMMA TurnOnHolds == ASSUME PageInv, TurnOn PROVE PageInv'
  <1>0. PageTypes
    BY DEF PageInv
  <1>1. /\ pageEvents < MaxPageEvents /\ pageEvents' = pageEvents + 1 /\ Beside /\ on' = TRUE
        /\ UNCHANGED <<landed, entries, skipped, expired, played, lastSeen, untold>>
    BY DEF TurnOn, Event
  <1>2. PageTypes'
    <2>1. PageTypeOK'
      BY <1>0, <1>1 DEF PageTypes, PageTypeOK, Skips, Beside
    <2> QED
      BY <1>0, <1>1, <2>1, TypesAre, PageConstants DEF PageTypes, Beside
  <1>3. SkipsApart'
    BY <1>1 DEF PageInv, SkipsApart
  <1>4. ASSUME NEW tag \in TagRecords, NEW g \in Snapshots, SinceTag(tag, g)
        PROVE  SinceTag(tag, g)'
    <2>1. g.clock \in Nat /\ g.clock <= pageEvents
      BY <1>4 DEF Snapshots, SinceTag
    <2>2. g.clock <= pageEvents'
      BY <1>0, <1>1, <2>1, TypesAre
    <2> QED
      BY <1>1, <1>4, <2>2 DEF SinceTag, Beside
  <1>5. ASSUME NEW g \in Snapshots PROVE Stood(g)' <=> Stood(g)
    BY <1>1 DEF Stood
  <1> QED
    BY <1>1, <1>2, <1>3, <1>4, <1>5, BesideHolds

-----------------------------------------------------------------------------
LEMMA PageStarts == PageInit => PageInv
  <1> SUFFICES ASSUME PageInit PROVE PageInv
    OBVIOUS
  <1> USE DEF PageInit
  <1>1. Skips = {} /\ Cardinality(Skips) = 0
    BY FS_EmptySet DEF Skips
  <1>2. PageTypeOK
    BY <1>1, PageConstants DEF PageTypeOK, NoPage
  <1>3. PageTypes
    BY <1>2, PageConstants DEF PageTypes, NoPage, NoTag, NoBody, TagRecords
  <1>4. SkipsApart /\ TagStands(LastTag) /\ NotModifiedIsTrue
    BY DEF SkipsApart, TagStands, LastTag, NoPage, NoTag, NotModifiedIsTrue
  <1> QED
    BY <1>3, <1>4 DEF PageInv

LEMMA PageStep == PageInv /\ [PageNext]_pageVars => PageInv'
  <1> SUFFICES ASSUME PageInv, [PageNext]_pageVars PROVE PageInv'
    OBVIOUS
  <1>1. ASSUME UNCHANGED pageVars PROVE PageInv'
    <2>1. UNCHANGED <<on, landed, entries, skipped, expired, played, lastSeen, pageEvents, page,
                      held, answer, untold>>
      BY <1>1 DEF pageVars, tables
    <2>2. PageTypes' /\ SkipsApart' /\ NotModifiedIsTrue'
      BY <2>1 DEF PageInv, PageTypes, PageTypeOK, Skips, SkipsApart, NotModifiedIsTrue
    <2>3. \A tag \in TagRecords, g \in Snapshots : SinceTag(tag, g) => SinceTag(tag, g)'
      BY <2>1 DEF SinceTag
    <2>4. \A g \in Snapshots : Stood(g)' => Stood(g)
      BY <2>1 DEF Stood
    <2>5. Beside
      BY <2>1 DEF Beside
    <2> QED
      BY <1>1, <2>1, <2>2, <2>3, <2>4, <2>5, BesideHolds
  <1>2. ASSUME PageNext PROVE PageInv'
    <2>1. CASE ReadSetting
      BY <2>1, ReadSettingHolds
    <2>2. CASE ReadVersion
      BY <2>2, ReadVersionHolds
    <2>3. CASE ReadState
      BY <2>3, ReadStateHolds
    <2>4. CASE ReadList
      BY <2>4, ReadListHolds
    <2>5. CASE RunLands
      BY <2>5, RunLandsHolds
    <2>6. CASE PurgeSkips
      BY <2>6, PurgeSkipsHolds
    <2>7. CASE TurnOff
      BY <2>7, TurnOffHolds
    <2>8. CASE TurnOn
      BY <2>8, TurnOnHolds
    <2>9. ASSUME NEW a \in Recommendable,
                 Play(a) \/ LatePlay(a) \/ Skip(a) \/ Unskip(a) \/ SkipExpires(a)
          PROVE  PageInv'
      BY <2>9, PlaysHold, SkipHolds, UnskipHolds, SkipExpiresHolds
    <2> QED
      BY <1>2, <2>1, <2>2, <2>3, <2>4, <2>5, <2>6, <2>7, <2>8, <2>9 DEF PageNext
  <1> QED
    BY <1>1, <1>2

LEMMA PageHolds == PageSpec => []PageInv
  <1> QED
    BY PageStarts, PageStep, PTL DEF PageSpec

(***************************************************************************)
(* KeptPages.                                                              *)
(***************************************************************************)
\* Pages that were kept tell the truth, for any listens, tracks, ranges and
\* requests for charts, any viewers, accounts, caps and lives of the cache, and
\* any artists recommended and skipped (handlers/charts.rs,
\* handlers/similarity.rs).
THEOREM KeptPagesAreTrue ==
  ChartPagesSpec /\ CommunityChartsSpec /\ PageSpec => []KeptPagesHold
  <1>1. ChartInv => PlaysShow
    BY AnsweredShow
  <1>2. CommunityInv => CoversTheFollowed
    BY ShownAreCovered
  <1>3. PageInv => PageTypeOK /\ NotModifiedIsTrue
    BY DEF PageInv, PageTypes
  <1>4. ChartInv /\ CommunityInv /\ PageInv => KeptPagesHold
    BY <1>1, <1>2, <1>3 DEF KeptPagesHold
  <1> QED
    BY <1>4, ChartsHold, CommunityHolds, PageHolds, PTL
=============================================================================
