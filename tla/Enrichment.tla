----------------------------- MODULE Enrichment -----------------------------
(* The catalog's enrichment: one job per entity, emptied by one worker that *)
(* asks MusicBrainz and the image providers, swept and reset by a           *)
(* maintenance loop, and the review that takes a MusicBrainz match back.    *)
(* The entities are one artist, one of its albums and one of its tracks.    *)
EXTENDS Integers, FiniteSets

CONSTANTS
    Recordings,     \* recordings MusicBrainz may answer with for the track
    RecordingLength,\* their lengths, 0 for none
    Redirects,      \* pairs of recordings: a lookup of the first answers with the second
    Shared,         \* recordings that may be the match of another track
    Catalogs,       \* the sets of entities a behaviour may begin with
    ClaimBatch,     \* CLAIM_BATCH
    MaxAttempts,    \* MAX_ATTEMPTS
    MaxFaults,      \* bound: provider failures, database errors (a taken mbid too), crashes
    MaxRequests     \* bound: refreshes and reviews people ask for

None == "none"
Entities == {"artist", "album", "track"}

ASSUME EnrichmentConstants ==
    /\ None \notin Recordings
    /\ RecordingLength \in [Recordings -> Nat]
    /\ Redirects \subseteq Recordings \X Recordings
    /\ Catalogs \subseteq SUBSET Entities
    /\ MaxAttempts \in Nat \ {0}

Ingest == 2   Backfill == 1   Refresh == 3

VARIABLES
    catalog,    \* the entities whose rows exist
    ejob,       \* ejob[e]: the row of enrichment_jobs, or NoJob
    stamp,      \* stamp[e]: enriched_at is "null", "fresh", or "old" (30 days)
    known,      \* known[e]: whether it has an mbid and an image; the track's
                \* mbid is match
    match,      \* the track's mbid
    lengths,    \* the track's three lengths, 0 for NULL
    asked,      \* the length sources asked: lastfm_checked_at, deezer_checked_at
    releases,   \* mb_release_titles IS NOT NULL
    rejected,   \* track_mbid_rejections
    hint,       \* mbid_hint
    enricher,   \* the worker between two awaits
    efaults, requests,
    owed,       \* history: entities with a forced refresh not yet run
    adoptable   \* history: recordings rejected while a pass had its context read, and
                \* rejected ones a lookup of another recording answered with

enrichVars == <<catalog, ejob, stamp, known, match, lengths, asked, releases,
                rejected, hint, enricher, efaults, requests, owed, adoptable>>
row == <<catalog, stamp, known, match, lengths, asked, releases, rejected, hint>>

NoJob == [status |-> "absent", priority |-> 0, attempts |-> 0, force |-> FALSE,
          due |-> FALSE, aged |-> FALSE]
Pending(priority, force) ==
    [NoJob EXCEPT !.status = "pending", !.priority = priority, !.force = force,
                  !.due = TRUE]
Idle == [at |-> "idle", batch |-> {}, entity |-> None, job |-> NoJob,
         seen |-> None, hint |-> None, skip |-> {}, wasLong |-> FALSE, relKnown |-> FALSE,
         found |-> None]

Finished == {"done", "failed"}
Sources == {"musicbrainz", "catalog", "deezer"}

EnrichInit ==
    /\ catalog \in Catalogs
    /\ ejob = [e \in Entities |-> NoJob]
    /\ stamp = [e \in Entities |-> "null"]
    /\ known = [e \in Entities |-> {}]
    /\ match = None
    /\ lengths = [s \in Sources |-> 0]
    /\ asked = {}
    /\ releases = FALSE
    /\ rejected = {}
    /\ hint \in {None} \cup (IF "track" \in catalog THEN Recordings ELSE {})
    /\ enricher = Idle
    /\ efaults = 0 /\ requests = 0
    /\ owed = {} /\ adoptable = {}

-----------------------------------------------------------------------------
(* The enqueues. Each INSERT does nothing, or resets, where a row exists.   *)

\* A scrobble refers to the entities: those never enriched get a job, unless
\* there is a row of any status.
EnqueueForIngest ==
    /\ \E e \in catalog : stamp[e] = "null" /\ ejob[e] = NoJob
    /\ ejob' = [e \in Entities |->
          IF e \in catalog /\ stamp[e] = "null" /\ ejob[e] = NoJob
          THEN Pending(Ingest, FALSE) ELSE ejob[e]]
    /\ UNCHANGED <<row, enricher, efaults, requests, owed, adoptable>>

\* Somebody asks for a forced refresh of e; a job that is running is reset too.
RequestRefresh(e) ==
    /\ e \in catalog
    /\ requests < MaxRequests
    /\ requests' = requests + 1
    /\ ejob' = [ejob EXCEPT ![e] = Pending(Refresh, TRUE)]
    /\ owed' = owed \cup {e}
    /\ UNCHANGED <<row, enricher, efaults, adoptable>>

\* The maintenance loop: entities never enriched that have no row.
EnqueueBackfill ==
    /\ \E e \in catalog : stamp[e] = "null" /\ ejob[e] = NoJob
    /\ ejob' = [e \in Entities |->
          IF e \in catalog /\ stamp[e] = "null" /\ ejob[e] = NoJob
          THEN Pending(Backfill, FALSE) ELSE ejob[e]]
    /\ UNCHANGED <<row, enricher, efaults, requests, owed, adoptable>>

\* An entity enriched 30 days ago that still lacks something.
Incomplete(e) ==
    IF e = "track"
    THEN \/ stamp[e] = "old" /\ (match = None \/ lengths["catalog"] = 0)
         \/ match # None /\ ~releases /\ stamp[e] # "null"
    ELSE stamp[e] = "old" /\ known[e] # {"mbid", "image"}

\* The sweep for incomplete entities: a new job, or a finished one reset.
EnqueueResweep ==
    /\ \E e \in catalog : Incomplete(e) /\ ejob[e].status \in Finished \cup {"absent"}
    /\ ejob' = [e \in Entities |->
          IF e \in catalog /\ Incomplete(e) /\ ejob[e].status \in Finished \cup {"absent"}
          THEN Pending(Backfill, FALSE) ELSE ejob[e]]
    /\ UNCHANGED <<row, enricher, efaults, requests, owed, adoptable>>

\* Done jobs of a week ago are deleted, failed ones stay.
DeleteDoneJobs ==
    /\ \E e \in Entities : ejob[e].status = "done" /\ ejob[e].aged
    /\ ejob' = [e \in Entities |-> IF ejob[e].status = "done" /\ ejob[e].aged
                                   THEN NoJob ELSE ejob[e]]
    /\ UNCHANGED <<row, enricher, efaults, requests, owed, adoptable>>

\* Jobs running for 15 minutes are taken for a dead worker's.
ResetStuckJobs ==
    /\ \E e \in Entities : ejob[e].status = "running" /\ ejob[e].aged
    /\ ejob' = [e \in Entities |->
          IF ejob[e].status = "running" /\ ejob[e].aged
          THEN [ejob[e] EXCEPT !.status = "pending", !.due = TRUE, !.aged = FALSE]
          ELSE ejob[e]]
    /\ UNCHANGED <<row, enricher, efaults, requests, owed, adoptable>>

-----------------------------------------------------------------------------
(* One pass of the worker.                                                  *)

DueJobs == {e \in Entities : ejob[e].status = "pending" /\ ejob[e].due}

\* A batch: the highest priorities first, as many as the limit admits. What is
\* returned is the row as claimed.
ClaimDueJobs ==
    /\ enricher.at = "idle"
    /\ \E batch \in SUBSET DueJobs :
          /\ batch # {}
          /\ Cardinality(batch) <= ClaimBatch
          /\ \/ batch = DueJobs
             \/ /\ Cardinality(batch) = ClaimBatch
                /\ \A e \in batch, f \in DueJobs \ batch : ejob[e].priority >= ejob[f].priority
          /\ ejob' = [e \in Entities |->
                IF e \in batch THEN [ejob[e] EXCEPT !.status = "running", !.aged = FALSE]
                ELSE ejob[e]]
          /\ enricher' = [Idle EXCEPT !.at = "batch",
                                      !.batch = {<<e, ejob[e].attempts, ejob[e].force>> : e \in batch}]
    /\ UNCHANGED <<row, efaults, requests, owed, adoptable>>

\* The jobs of the batch are processed one after the other.
NextOfBatch(next) == IF next.batch = {} THEN Idle ELSE [Idle EXCEPT !.at = "batch", !.batch = next.batch]

\* get_artist_ctx, get_album_ctx, get_track_ctx: the entity as it is now.
ReadContext(c) ==
    LET e == c[1] IN
    /\ enricher.at = "batch"
    /\ c \in enricher.batch
    /\ enricher' = [enricher EXCEPT
          !.at = IF e \in catalog THEN "ask" ELSE "done",
          !.batch = @ \ {c}, !.entity = e,
          !.job = [NoJob EXCEPT !.attempts = c[2], !.force = c[3]],
          !.seen = IF e = "track" THEN match ELSE None,
          !.hint = IF e = "track" THEN hint ELSE None,
          !.skip = IF e = "track" THEN rejected ELSE {},
          !.wasLong = e = "track" /\ lengths["musicbrainz"] # 0,
          !.relKnown = e = "track" /\ releases]
    /\ UNCHANGED <<row, ejob, efaults, requests, owed, adoptable>>

\* lookup_recording: MusicBrainz may answer with the recording that took the
\* place of the one asked for.
LookupRecording(r) == {r} \cup {s \in Recordings : <<r, s>> \in Redirects}

\* find_recording: a lookup of the hint unless it was rejected, or a search that
\* leaves the rejected ones out.
FindRecording(hinted, skip) ==
    (Recordings \ skip) \cup
    (IF hinted \in {None} \cup skip THEN {} ELSE LookupRecording(hinted))

Adopts(r) == adoptable' = adoptable \cup ({r} \cap enricher.skip)

\* enrich_track asks MusicBrainz: a search, a lookup of the recording it has,
\* or nothing when nothing is missing. A provider may answer with an error
\* that is worth a retry (failed) or with nothing.
AskTrack ==
    /\ enricher.at = "ask" /\ enricher.entity = "track"
    /\ \/ /\ enricher.seen = None
          /\ \E r \in {None} \cup FindRecording(enricher.hint, enricher.skip) :
                /\ enricher' = [enricher EXCEPT !.found = r,
                                                !.at = IF r = None THEN "finish" ELSE "metadata"]
                /\ Adopts(r)
          /\ UNCHANGED <<match, releases>>
       \/ /\ enricher.seen # None
          /\ ~enricher.wasLong \/ ~enricher.relKnown
          /\ \/ /\ \E r \in LookupRecording(enricher.seen) :
                      enricher' = [enricher EXCEPT !.found = r, !.at = "metadata"] /\ Adopts(r)
                /\ UNCHANGED releases
             \* MusicBrainz has it no longer: no release, not asked again
             \/ /\ releases' = (releases \/ match = enricher.seen)
                /\ enricher' = [enricher EXCEPT !.at = "finish"]
                /\ UNCHANGED adoptable
          /\ UNCHANGED match
       \/ /\ enricher.seen # None /\ enricher.wasLong /\ enricher.relKnown
          /\ enricher' = [enricher EXCEPT !.at = "finish"]
          /\ UNCHANGED <<match, releases, adoptable>>
    /\ UNCHANGED <<catalog, stamp, known, lengths, asked, rejected, hint, ejob,
                   efaults, requests, owed>>

Fill(old, new) == IF old = 0 THEN new ELSE old

\* apply_track_metadata: an mbid and lengths fill what is NULL, whatever was
\* rejected meanwhile. Where another track has the mbid, the UPDATE fails and is
\* run again with the lengths only.
ApplyTrackMetadata ==
    /\ enricher.at = "metadata"
    /\ \/ /\ match' = IF match = None /\ "track" \in catalog THEN enricher.found ELSE match
          /\ UNCHANGED efaults
       \/ /\ match = None /\ "track" \in catalog /\ enricher.found \in Shared
          /\ efaults < MaxFaults
          /\ efaults' = efaults + 1 /\ UNCHANGED match
    /\ lengths' = IF "track" \notin catalog THEN lengths
                  ELSE [lengths EXCEPT
                          !["catalog"] = Fill(@, RecordingLength[enricher.found]),
                          !["musicbrainz"] = Fill(@, RecordingLength[enricher.found])]
    /\ enricher' = [enricher EXCEPT !.at = "releases"]
    /\ UNCHANGED <<catalog, stamp, known, asked, releases, rejected, hint, ejob,
                   requests, owed, adoptable>>

\* record_releases, kept only if the recording is still the track's; then the
\* artist and the album learn their mbids from the recording.
RecordReleases ==
    /\ enricher.at = "releases"
    /\ releases' = (releases \/ match = enricher.found)
    /\ \E learned \in SUBSET ({"artist", "album"} \cap catalog) :
          known' = [e \in Entities |-> known[e] \cup (IF e \in learned THEN {"mbid"} ELSE {})]
    /\ enricher' = [enricher EXCEPT !.at = "finish"]
    /\ UNCHANGED <<catalog, stamp, match, lengths, asked, rejected, hint, ejob,
                   efaults, requests, owed, adoptable>>

\* enrich_artist: the mbid if it lacks one, images if it lacks one or is
\* forced; what the providers answered fills the row.
EnrichArtist ==
    /\ enricher.at = "ask" /\ enricher.entity = "artist"
    /\ \E found \in SUBSET {"mbid", "image"} :
          known' = IF "artist" \in catalog THEN [known EXCEPT !["artist"] = @ \cup found] ELSE known
    /\ enricher' = [enricher EXCEPT !.at = "finish"]
    /\ UNCHANGED <<catalog, stamp, match, lengths, asked, releases, rejected, hint, ejob,
                   efaults, requests, owed, adoptable>>

\* enrich_album: the release, then a cover: the archive by release, by its
\* group, then Deezer. A cover by release needs an mbid.
EnrichAlbum ==
    /\ enricher.at = "ask" /\ enricher.entity = "album"
    /\ \E found \in SUBSET {"mbid", "image"} :
          known' = IF "album" \in catalog THEN [known EXCEPT !["album"] = @ \cup found] ELSE known
    /\ enricher' = [enricher EXCEPT !.at = "finish"]
    /\ UNCHANGED <<catalog, stamp, match, lengths, asked, releases, rejected, hint, ejob,
                   efaults, requests, owed, adoptable>>

\* A provider fails for the moment, or the database does: the pass goes on to
\* retry_or_fail.
PassFails ==
    /\ enricher.at \in {"ask", "metadata", "releases"}
    /\ efaults < MaxFaults
    /\ efaults' = efaults + 1
    /\ enricher' = [enricher EXCEPT !.at = "retry"]
    /\ UNCHANGED <<row, ejob, requests, owed, adoptable>>

\* mark_enriched: the first of the two statements after a clean pass. It may
\* fail, which is logged and passed over.
MarkEnriched ==
    /\ enricher.at = "finish"
    /\ \/ /\ stamp' = IF enricher.entity \in catalog
                      THEN [stamp EXCEPT ![enricher.entity] = "fresh"] ELSE stamp
          /\ UNCHANGED efaults
       \/ efaults < MaxFaults /\ efaults' = efaults + 1 /\ UNCHANGED stamp
    /\ enricher' = [enricher EXCEPT !.at = "done"]
    /\ UNCHANGED <<catalog, known, match, lengths, asked, releases, rejected, hint, ejob,
                   requests, owed, adoptable>>

\* The row of the worker's own job, if it is still running.
StillRunning(e) == ejob[e].status = "running"

\* Variant: the statement goes by the job's id alone.
CompleteAny(e) == [ejob EXCEPT ![e].status = "done", ![e].aged = FALSE]

\* complete_job's UPDATE
CompleteRow(e) ==
    IF StillRunning(e) THEN [ejob EXCEPT ![e].status = "done", ![e].aged = FALSE] ELSE ejob

PassOver == enricher' = NextOfBatch(enricher)
Repaid == IF enricher.job.force /\ StillRunning(enricher.entity)
          THEN owed \ {enricher.entity} ELSE owed

CompleteJob ==
    /\ enricher.at = "done"
    /\ ejob' = CompleteRow(enricher.entity)
    /\ owed' = Repaid
    /\ PassOver
    /\ UNCHANGED <<row, efaults, requests, adoptable>>

\* retry_or_fail: the attempts it claimed with decide.
RescheduleJob ==
    /\ enricher.at = "retry"
    /\ enricher.job.attempts + 1 < MaxAttempts
    /\ ejob' = IF StillRunning(enricher.entity)
               THEN [ejob EXCEPT ![enricher.entity].status = "pending",
                                 ![enricher.entity].attempts = @ + 1,
                                 ![enricher.entity].due = FALSE]
               ELSE ejob
    /\ PassOver
    /\ UNCHANGED <<row, efaults, requests, owed, adoptable>>

FailJob ==
    /\ enricher.at = "retry"
    /\ enricher.job.attempts + 1 >= MaxAttempts
    /\ ejob' = IF StillRunning(enricher.entity)
               THEN [ejob EXCEPT ![enricher.entity].status = "failed",
                                 ![enricher.entity].attempts = @ + 1,
                                 ![enricher.entity].aged = FALSE]
               ELSE ejob
    /\ owed' = Repaid
    /\ PassOver
    /\ UNCHANGED <<row, efaults, requests, adoptable>>

\* The worker dies: what it had claimed stays running until it is reset.
EnricherCrash ==
    /\ enricher.at # "idle"
    /\ efaults < MaxFaults
    /\ efaults' = efaults + 1
    /\ enricher' = Idle
    /\ UNCHANGED <<row, ejob, requests, owed, adoptable>>

-----------------------------------------------------------------------------
(* Lengths from other sources, and the review.                              *)

\* tracks_missing_length and record_lastfm_length: asked once while no source
\* has a length; the answer fills the catalog's. The list was read before.
RecordLastfmLength ==
    /\ "track" \in catalog
    /\ "lastfm" \notin asked
    /\ lengths = [s \in Sources |-> 0]
    /\ \E length \in 0 .. 1 :
          lengths' = [lengths EXCEPT !["catalog"] = Fill(@, length)]
    /\ asked' = asked \cup {"lastfm"}
    /\ UNCHANGED <<catalog, stamp, known, match, releases, rejected, hint, ejob,
                   enricher, efaults, requests, owed, adoptable>>

\* One at least 1.5 times the other; within 10 % of each other.
Disagree(a, b) == IF a < b THEN b * 2 >= a * 3 ELSE a * 2 >= b * 3
Agree(a, b) == IF a < b THEN (b - a) * 10 <= b ELSE (a - b) * 10 <= a

Disputed == /\ lengths["catalog"] # 0 /\ lengths["musicbrainz"] # 0
            /\ Disagree(lengths["catalog"], lengths["musicbrainz"])

\* tracks_for_deezer_length and record_deezer_length: tracks with no length, or
\* whose lengths are in dispute.
RecordDeezerLength ==
    /\ "track" \in catalog
    /\ "deezer" \notin asked
    /\ \/ lengths["catalog"] = 0 /\ lengths["musicbrainz"] = 0
       \/ Disputed
    /\ \E length \in 0 .. 1 :
          lengths' = [lengths EXCEPT !["deezer"] = IF length = 0 THEN @ ELSE length]
    /\ asked' = asked \cup {"deezer"}
    /\ UNCHANGED <<catalog, stamp, known, match, releases, rejected, hint, ejob,
                   enricher, efaults, requests, owed, adoptable>>

\* requeue_length_checks, requeue_deezer_checks: asked again after a month.
RequeueLengthChecks ==
    /\ asked' = asked \ ((IF lengths["catalog"] = 0 /\ lengths["musicbrainz"] = 0
                          THEN {"lastfm"} ELSE {})
                         \cup (IF /\ lengths["deezer"] = 0
                                  /\ \/ lengths["catalog"] = 0 /\ lengths["musicbrainz"] = 0
                                     \/ Disputed
                               THEN {"deezer"} ELSE {}))
    /\ asked' # asked
    /\ UNCHANGED <<catalog, stamp, known, match, lengths, releases, rejected, hint, ejob,
                   enricher, efaults, requests, owed, adoptable>>

\* outlier(..): the source the two others contradict.
OddOne(odd) == LET others == {lengths[s] : s \in Sources \ {odd}} IN
               /\ \A s \in Sources : lengths[s] # 0
               /\ \A a, b \in others : Agree(a, b)
               /\ \A a \in others : Disagree(lengths[odd], a)

\* `worker tracks mb-review --apply` on a track it listed: the match is taken
\* back and never to be adopted again, and the track is queued.
UnlinkMusicBrainz ==
    /\ "track" \in catalog
    /\ requests < MaxRequests
    /\ OddOne("musicbrainz")
    /\ requests' = requests + 1
    /\ rejected' = IF match = None THEN rejected ELSE rejected \cup {match}
    /\ match' = None
    /\ lengths' = [lengths EXCEPT !["musicbrainz"] = 0]
    /\ releases' = FALSE
    /\ hint' = IF hint = match THEN None ELSE hint
    /\ ejob' = IF ejob["track"].status \in Finished \cup {"absent"}
               THEN [ejob EXCEPT !["track"] = Pending(Backfill, FALSE)] ELSE ejob
    /\ adoptable' = IF enricher.entity = "track" /\ match # None
                     THEN adoptable \cup {match} ELSE adoptable
    /\ UNCHANGED <<catalog, stamp, known, asked, enricher, efaults, owed>>

-----------------------------------------------------------------------------
(* The clock, and rows that go away.                                        *)

BackoffEnds(e) ==
    /\ ejob[e].status = "pending" /\ ~ejob[e].due
    /\ ejob' = [ejob EXCEPT ![e].due = TRUE]
    /\ UNCHANGED <<row, enricher, efaults, requests, owed, adoptable>>

JobAges(e) ==
    /\ ejob[e].status \in {"running", "done"} /\ ~ejob[e].aged
    /\ ejob' = [ejob EXCEPT ![e].aged = TRUE]
    /\ UNCHANGED <<row, enricher, efaults, requests, owed, adoptable>>

StampAges(e) ==
    /\ stamp[e] = "fresh"
    /\ stamp' = [stamp EXCEPT ![e] = "old"]
    /\ UNCHANGED <<catalog, known, match, lengths, asked, releases, rejected, hint, ejob,
                   enricher, efaults, requests, owed, adoptable>>

\* An erase takes an entity nobody else played; its job stays.
EntityGoes(e) ==
    /\ e \in catalog
    /\ efaults < MaxFaults
    /\ efaults' = efaults + 1
    /\ catalog' = catalog \ {e}
    /\ stamp' = [stamp EXCEPT ![e] = "null"]
    /\ known' = [known EXCEPT ![e] = {}]
    /\ IF e = "track"
       THEN /\ match' = None /\ releases' = FALSE /\ rejected' = {} /\ hint' = None
            /\ asked' = {} /\ lengths' = [s \in Sources |-> 0]
       ELSE UNCHANGED <<match, releases, rejected, hint, asked, lengths>>
    /\ UNCHANGED <<ejob, enricher, requests, owed, adoptable>>

-----------------------------------------------------------------------------
EnricherStep ==
    \/ ClaimDueJobs
    \/ \E c \in enricher.batch : ReadContext(c)
    \/ AskTrack \/ ApplyTrackMetadata \/ RecordReleases
    \/ EnrichArtist \/ EnrichAlbum
    \/ MarkEnriched \/ CompleteJob \/ RescheduleJob \/ FailJob

EnrichClock == \E e \in Entities : BackoffEnds(e) \/ JobAges(e)

EnrichNext ==
    \/ EnqueueForIngest \/ EnqueueBackfill \/ EnqueueResweep
    \/ DeleteDoneJobs \/ ResetStuckJobs
    \/ EnricherStep \/ PassFails \/ EnricherCrash
    \/ RecordLastfmLength \/ RecordDeezerLength \/ RequeueLengthChecks
    \/ UnlinkMusicBrainz
    \/ EnrichClock
    \/ \E e \in Entities : RequestRefresh(e) \/ StampAges(e) \/ EntityGoes(e)

EnrichSpec == EnrichInit /\ [][EnrichNext]_enrichVars

-----------------------------------------------------------------------------
Statuses == {"absent", "pending", "running", "done", "failed"}
Jobs == [status : Statuses, priority : 0 .. 3, attempts : 0 .. MaxAttempts,
         force : BOOLEAN, due : BOOLEAN, aged : BOOLEAN]
Enrichers ==
    [at : {"idle", "batch", "ask", "metadata", "releases", "finish", "done", "retry"},
     batch : SUBSET (Entities \X (0 .. MaxAttempts) \X BOOLEAN),
     entity : Entities \cup {None}, job : Jobs, seen : Recordings \cup {None},
     hint : Recordings \cup {None}, skip : SUBSET Recordings, wasLong : BOOLEAN, relKnown : BOOLEAN,
     found : Recordings \cup {None}]

EnrichTypeOK ==
    /\ catalog \subseteq Entities
    /\ ejob \in [Entities -> Jobs]
    /\ stamp \in [Entities -> {"null", "fresh", "old"}]
    /\ known \in [Entities -> SUBSET {"mbid", "image"}]
    /\ match \in Recordings \cup {None} /\ hint \in Recordings \cup {None}
    /\ rejected \subseteq Recordings /\ adoptable \subseteq Recordings
    /\ lengths \in [Sources -> Nat]
    /\ asked \subseteq {"lastfm", "deezer"}
    /\ releases \in BOOLEAN
    /\ enricher \in Enrichers
    /\ efaults \in Nat /\ requests \in Nat
    /\ owed \subseteq Entities

\* A forced refresh that was asked for stays a forced job until a forced pass
\* completed or gave up, although a pass that began before it, a sweep, a
\* review or a reset of stuck jobs may write the row meanwhile.
RefreshNotForgotten ==
    \A e \in owed : ejob[e].force /\ ejob[e].status \in {"pending", "running"}

\* A recording the review took back is never the track's again.  The code
\* doesn't keep this where the pass that adopts it had read the track before the
\* review, nor where MusicBrainz answers with it to a lookup of the hint or of
\* the recording the track had: find_recording compares the hint with what was
\* rejected, and not the answer.
RejectedStaysOut ==
    match \in rejected => match \in adoptable

\* Types; a forced refresh is not forgotten, and a recording that was taken
\* back is not the track's again (enrichment.rs).
EnrichmentHolds == EnrichTypeOK /\ RefreshNotForgotten /\ RejectedStaysOut

=============================================================================
