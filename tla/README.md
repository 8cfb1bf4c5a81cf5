# A TLA+ verification of scrobblr

scrobblr stores what people listen to (scrobbles), imports their Last.fm
history, labels each day of a user as counted or not, weighs the days, and
ranks artists and tracks by those weights. The API and one worker process share
a PostgreSQL database; operators run worker commands beside both. Almost every
hard behaviour of the system is therefore the same kind: short transactions of
several processes on the same rows, queues that are emptied before the work is
done, leases, sweeps that repair what was lost, and statements that each see
what was committed when they began.

This directory models the parts where those behaviours decide whether data is
right: the Last.fm import, the labels and weights of days, the erase of an
account beside the rankings, and, one module each, the smaller state machines
around them, from the match of a play against what is stored to who may see a
profile. TLC checks all of it on small instances; TLAPS proves, for every instance,
the safety of the import, of labels and weights, of the erase, of follows,
blocks and loves, of tags and their counts, of bios and their moderation, of
uploaded images and their likes, of sessions and tokens, of what scrobblers
submit, of who sees a profile and what is playing on it, of walks over paged
lists, of enrichment and of similarity runs. Paths below are relative to
`src/crates/` unless they say otherwise.

## 1. Inventory

### 1.1 The import of a Last.fm history

*State.* A row of `scrobble_imports` per job: status, lease (token and end),
cursor over the pages, attempts, progress counters, the pending range of plays
not handed on yet, the cursor of loved tracks. One active job per user (a
partial unique index). In memory of a process: the copy of the row its claim
returned.

*Operations.* The API requests and cancels (`api/src/handlers/imports.rs`). The
worker loops over `claim_next`, fetches up to a slice of pages, commits each
page with the cursor (`record_page`), runs a checkpoint now and then, and ends
the slice with `finish`, `fail`, `defer` or `release`. With nothing to claim it
runs the checkpoints that ended jobs left behind. An operator's `worker import`
claims one given job.

*Interactions.* It inserts scrobbles beside live ingest, queues days for
classification, and queues catalog entities for enrichment.

*Hard.* A lease that runs out on a slow process; a death between a page and its
checkpoint; a cancel while a page is in flight; statements that match on the
token alone; failures counted across slices; the cap across several jobs.

*Correct when* a holder never works from a stale copy, a done import is
complete, what is imported is handed on exactly because it was stored, progress
is exact, the cap holds, an ended job stays ended, and every import ends.

### 1.2 Labels and weights of days

*State.* `scrobbles` (ids from a sequence, given before the commit),
`classification_queue`, `scrobble_classification_days` with its flags,
`ranking_queue`, `ranking_days`, the activity aggregate.

*Operations.* Ingest stores a scrobble under the user's advisory lock, then
marks its day, best-effort. The classifier removes days from the queue,
commits, and classifies each in a transaction under the day's lock; a day's
labels depend on the tail of the day before. The weigher does the same for
weights. Two sweeps queue what looks out of date. `worker classification
reclassify` classifies a range beside the worker. Enrichment sets a track's
length later, which changes labels.

*Hard.* Every queue is emptied before the work; two days depend on each other;
ids are not committed in order; the view of labels compares ids.

*Correct when* a label is never shown for a scrobble that no classification
saw, nothing queued is forgotten, weights come from the labels they are stamped
with, a changed tail reaches the next day, and the sweeps bring everything up
to date and then stop finding work.

### 1.3 Account deletion and the rankings

*State.* `users.delete_after` and `erase_started_at`, the account's rows in
every table, the materialized aggregates, `ranking_snapshots` with its
`invalidated` flag.

*Operations.* A request schedules the deletion; a login restores it; the worker
claims due accounts under a lease, or an operator erases one at once. `erase`
deletes scrobbles in chunks under a guard that excludes the aggregates'
refresh, marks the snapshots, deletes labels and weights in batches, and
deletes the user row and marks again in a last transaction. Meanwhile
`refresh_snapshots` replaces whole rankings and the weigher writes weights.

*Hard.* Two erasers; a death in the middle; the marks against a refresh in
flight; a weigher or an aggregate refresh that read the account before.

*Correct when* a restorable account is whole, nothing of an erased one comes
back, each snapshot that counts it is marked, a claimed erase ends, and the
rankings forget the account in the end.

### 1.4 The rest of the system

| Part | State and operations | Hard behaviour | Correct when |
|---|---|---|---|
| Page walk and play matching (`shared/src/lastfm.rs`, `import.rs`) | a cursor of segments and pages; a page of plays against stored ones | the history grows and shrinks while walked; a live scrobble at the same time; page boundaries | no play of the window is skipped, no listen is stored twice |
| Live ingest (`db/.../scrobbles.rs`) | duplicate window under a lock, now playing | retries, an import at the same time | a listen is stored once |
| Spotify poller (`worker/src/connected_accounts.rs`) | tokens, a cursor that moves forward | reconnection during a poll, a failure in mid-batch | the cursor passes no play that was not recorded |
| Names (`db/.../tracks.rs`, `imports.rs`) | artists, albums, tracks found or created by name | a page's uncommitted rows, two finders of one name | two passes find or make any name, what is known is not overwritten |
| Album attribution (`db/.../albums.rs`) | votes, a queue with due times, a decision | a vote while the track is decided, accounts that come of age | with nothing queued the album is the one the votes choose |
| Enrichment (`db/.../enrichment.rs`) | jobs pending, running, done, failed | forced refresh of a running job, stuck jobs reset, a match taken back | a forced refresh runs after it was asked for, what was rejected stays out |
| Rules of labels and weights (`shared/src/classification.rs`, `ranking.rs`) | pure, play by play | a lookback, charges trimmed afterwards, caps | nobody counts more than real time allows, the honest count whole |
| Coordination (`shared/src/coordination.rs`, `db/.../coordination.rs`) | a detection over groups; factors of days, stored in one transaction | two runs over different days, a change of mode | factors are of one run, votes follow them, no honest account loses its voice |
| Similarity (`db/.../similarity.rs`) | a long run, stored in one transaction; a page with a tag | what was loaded is old when stored | nobody who opted out is stored; a 304 means nothing changed |
| Charts (`api/src/handlers/charts.rs`) | pages and rankings kept for a while | the version is read before the page | what is kept shows every earlier play, and this viewer's follows |
| Follows, blocks, loves (`db/.../users.rs`, `blocks.rs`, `loves.rs`) | pairs, caps under locks | block against follow, import against love | no follow across a block, the caps hold |
| Tags (`db/.../tags.rs`) | taggings, a queue, counts | a tag while the worker recounts | with nothing queued the counts are the tags |
| Bios, moderation (`db/.../bios.rs`, `moderation.rs`) | revisions, the shown one, hiding, suspensions | an edit or an import while a moderator hides | a hidden revision is not shown |
| Uploads (`db/.../community.rs`, `worker/src/uploads.rs`) | files, rows that refer to them, likes, a collector | files and rows change one after the other | no referenced file is deleted, counts are the likes |
| Sessions and tokens (`db/.../auth.rs`, `api/src/middleware/auth.rs`) | sessions, a cache in Redis, hashed tokens | login against deletion, cache against logout | no credential outlives what ended it, but for the cache's lifetime |
| Scrobbler protocols (`api/src/compat/`) | authorizations asked, granted, exchanged once; a daily allowance | lost answers, retries, midnight | one session per grant, the limit holds, what was told is stored |
| Visibility (`api/src/middleware/visibility.rs`) | private, blocked, closing; each request asks in its own order | a change between two statements of a request | all doors agree, a block is not told |
| Live streams (`api/src/live.rs`) | listeners, a channel, closing messages | a check before listening, slow streams | a stream ends with the right to see, and shows what plays |
| Lists (`shared/src/cursor.rs`, `db/.../feed.rs`) | none kept: a reader's cursor | entries come, go and come late | an entry that stays is seen once |
| Limits (`api/src/limits.rs`) | counters with an expiry | a success during attempts | a limit is never passed |
| Supervision (`worker/src/main.rs`, `heartbeat.rs`) | loops restarted on panic | a loop that dies silently | every loop runs or is reported |
| Migrations (`db/src/migrate.rs`) | applied versions | two processes at startup | each applied once, in order |
| Search, export | read-only | nothing kept across requests | not a state machine |

`PROJECT.json` lists every part with its files and, under `hazards`, what in
this code is hard to test, at its line, with the property that would catch it.

## 2. Modules

| Module | What it is |
|---|---|
| `ImportJobs` | the import's rows and processes, one action per statement or transaction |
| `ImportContract` | what the API promises of a job, the abstract specification |
| `ImportRetries` | `ImportJobs` with a history variable that counts failures in a row |
| `MCImportJobs` | the instances of histories and users |
| `ImportJobsProofs` | theorems about `ImportJobs` |
| `DayLabels`, `MCDayLabels` | ingest, classification, weights and their sweeps for one user |
| `DayLabelsProofs` | theorems about `DayLabels` |
| `AccountErasure`, `MCAccountErasure` | one account's erase beside the aggregates, the weigher and the rankings |
| `AccountErasureProofs` | theorems about `AccountErasure` |
| `HistoryWalk` | the walk over a Last.fm history, the match of its pages, a live scrobble beside it |
| `Polls` | one Spotify connection and its poller |
| `Intake` | these two side by side, and what they come to together |
| `Catalog` | names found or created by live submissions and by pages of imports |
| `AlbumVotes` | votes, the queue and the decision of one track's album |
| `Enrichment` | the job queue, a pass over an entity, the length loops, the review |
| `Labelling` | the rules of labels and weights, computed play by play |
| `Detection`, `Coordination` | what one run of the coordination detection finds; the runs and what they store |
| `Attribution` | `Catalog`, `AlbumVotes` and `Coordination` side by side, and what they come to together |
| `PlaysProofs` | a theorem about `Intake`, two about `Attribution` |
| `Taste` | the similarity run beside settings and erasures |
| `TastePage` | one account's page of recommendations |
| `ChartPages`, `CommunityCharts` | a user's own charts as they are kept; the chart of the followed accounts |
| `KeptPages` | these and `TastePage` side by side, and what they come to together |
| `DerivedProofs` | a theorem about `Enrichment`, one about `Taste`, one about `KeptPages` |
| `Social` | follows, blocks, removed followers, loves |
| `Tags` | the tags of one entity and their counts |
| `Bios` | revisions of bios and the moderator's commands |
| `Images` | avatars, candidates, likes, files and their collector |
| `CommunityProofs` | a theorem about each of these four |
| `Sessions` | sessions, API tokens, the cache |
| `Scrobblers` | credentials of the compatible protocols, submissions and the allowance |
| `CredentialsProofs` | a theorem about each of these two |
| `Profiles`, `LiveStreams` | who sees a profile through which request; streams of what is playing |
| `Sight` | these two side by side, and what they come to together |
| `Paging` | a reader who walks a list page by page |
| `SightProofs` | a theorem about `Sight`, one about `Paging` |
| `MCPlays`, `MCAccounts` | the components above, side by side, for model checking |

Operators whose comment begins with "Variant:" are no part of a specification:
each is a plausible mistake in the code, kept beside the definition it would
replace, and shows which property notices it.

### 2.1 ImportJobs

`row[j]` is the row of `scrobble_imports`. Its token names the process that
holds the lease (a process has one live claim at a time, so the process stands
for the random token); `leased` and `due` stand for the comparison of
`leased_until` and `next_attempt_at` with the clock; `older` keeps the order of
`updated_at`, which `claim_next` sorts by. `pending` is the set of times inside
`[pending_from, pending_to]`. `store[u][p]` says whether a play is missing, was
scrobbled live, or which job inserted it. `queued` remembers what each consumer
was handed since the play was stored. `wk[w]` is a process between two awaits:
the copy of the row it works from, where it is, and what follows its
checkpoint.

| Code | Actions |
|---|---|
| `create`, `cancel` | `Create`, `Cancel` |
| `claim_next`, `claim` | `ClaimNext`, `Claim` (the command) |
| `record_loves`, `skip_loves` | `LovesRecorded`, `LovesLost`, `LovesSkipped` |
| `fetch_pages`, `record_page` with `insert_plays` | `PageRecorded`, `PageLost`, `CapReached`, `SliceOver` |
| `handle_error` | `Refused`, `RateLimited`, `Transient` |
| `checkpoint`: `pending_range`, two enqueues, `clear_pending` | `ReadPending`, `QueueClassification`, `QueueEnrichment`, `ClearPending`, `CheckpointError` |
| `finish`, `fail`, `defer`, `release` | `Finish`, `Fail`, `Defer`, `Release` |
| `unfinished_checkpoints` | `ReadLeftovers`, `NextLeftover` |
| the clock, a death, Ctrl-C | `BecomesDue`, `LeaseExpires`, `LeaseOutrun`, `Crash`, `Interrupt` |

A page is a set of plays and the history of a job is fixed: how pages are
addressed and how a page is matched with stored rows is the subject of
`HistoryWalk`. "Last.fm answers" is a nondeterministic choice among the
answers the client tells apart.

### 2.2 DayLabels

One user's days. A scrobble takes its id from `serial` when it is inserted and
is visible when it commits (`stage`). What the rules compute is left to
`Labelling`; a day's labels are the scrobbles they were computed from, the tail of the
day before, the tracks that had no length, and the ruleset. That is exactly
what decides whether labels are current. `classify_user_day` is three actions,
`ReadDay`, `WriteDay` and `CommitDay`: the lock and the read of the rows, the
statements in the middle (the queueing of the weigher's day, which does nothing
if the day is queued already, and the read of the next day's lookback), and the
commit. `weigh_user_day` is `ReadLabels` and `WriteWeights`. `Stale` and
`Unweighed` are the conditions of the two `enqueue_stale`, and `HasLabel` is
the view `scrobble_labels`. Whether a classified day queues the next is settled
at the statement that would insert it (`queuesNext`), not at the commit: an entry
that is there then and taken before the commit is not put back. Weights are kept
for the days from `FirstRetained` on (`retained_from`). `commands` counts the operators' reclassifications,
as a bound and because `TailReachesNextDay` is about the worker alone.
`LabelsAreReal` and `WeightsFollowLabels` are about days that no import adds to
(`LiveOnly`): an import's scrobble may take a lower id and commit later, which
is a finding, not a promise of the model.

### 2.3 AccountErasure

`er[e]` is where an eraser is in `erase`; each stage is a statement or a
transaction of the code: `LockAggregates`, `EraseChunk`, `CleanAggregates`,
`Mark`/`MarkRow`/`Marked`, `DeleteLabels`, `DeleteWeights`, `DeleteNone`,
`DeleteRow`, `CommitErase`. `DeleteNone` is a batch whose rows another eraser had
deleted first: it finds none, and the loop ends with rows still there.
`refresh[p]` is the transaction of `refresh_snapshots` in
flight, `weigher` and `policy` those of the weigher and of the aggregates'
refresh. Row locks are modelled as PostgreSQL takes them under READ COMMITTED:
an UPDATE visits the rows that were there when it began; it waits for a row
that another transaction has deleted and passes over it once that commits; the
rows inserted in its place are not visited. `marks` is the set of rows still to
visit, and `passed` and `overtaken` are history variables that only properties
read.

### 2.4 What happens to plays: the parts of MCPlays

* `HistoryWalk`. `profile` is the history on Last.fm, `scrobbles` the stored
  rows, `walk` the import between two statements. `FetchPage` is a request and
  `Cursor::advance` (pages, segments, the restart of a segment), `ReadStored`
  and `RecordPage` are the two statements of `insert_plays` around `new_plays`,
  `StartWalk` computes `reimport_from`, `CheckDuplicate` and `InsertScrobble`
  are `ingest_scrobble` under its lock. `HearTrack` and `DeletePlay` are the
  user and Last.fm. A play that a deletion moved behind the cursor is in
  `shifted`. `NewPlays` states what the loop of `new_plays` comes to: which
  live scrobble each play of a page takes, given those the plays before it took.
* `Polls`. `link` is the row of `connected_accounts`, `poll.link` the copy the
  poll works from; `Connect`, `Disconnect`, `Revoke`, `ListAccounts`,
  `FetchPlays`, `TokenRejected`, `RefreshToken`, `RefreshRejected`,
  `IngestItem`, `IngestFails`, `MarkPolled`, `PlayingTold`, `PollLost`. An answer
  is any part of what Spotify keeps, for a play may reach it late, even after a
  later one; and a poll may refresh twice, for the plays and, once the cursor is
  written, for what is playing.
* `Catalog`. `rows` is what is committed, `tx[i]` what a page of an import has
  inserted and not committed; a live submission that meets such a row waits
  (`find_or_create_*`: look, insert, look again). A write to a track that is there
  comes only if the track lacks something the play has (`Gains`).
* `AlbumVotes`. `dueAt` is the queue row, `ClaimDue`/`DecideTrack`/
  `CommitDecision` the worker's transaction, `BackfillDecides`/`BackfillSettles`
  the operator's. `Choose` is `albums::choose` with its two margins. `ReadVote` and
  `VoteByRead` are the statement of `record_vote`, which compares with the row of its
  snapshot and leaves a row alone that came in since. A factor changes by
  `StoreFactors`, which queues the track, and by `FactorLapses`, when a suspicious day
  leaves the window votes weigh by, which queues nothing.
* `Enrichment`. `ejob[e]` is the row of `enrichment_jobs`; a pass is
  `ClaimDueJobs`, `ReadContext`, `AskTrack`, `ApplyTrackMetadata`,
  `RecordReleases` (or `EnrichArtist`, `EnrichAlbum`), `MarkEnriched`,
  `CompleteJob`, or `PassFails` and `RescheduleJob` or `FailJob`; beside it
  `RequestRefresh`, `ResetStuckJobs`, the sweeps, `RecordLastfmLength`,
  `RecordDeezerLength` and `UnlinkMusicBrainz`. A lookup of a recording may be
  answered with another it was merged into (`Redirects`), and a recording that is the
  match of another track (`Shared`) leaves this one's length and match alone.
* `Labelling`. One step is one call: `Label` is `classify` over a user's plays,
  `LabelTrimmed` the same from the lookback alone, `Weigh` is `weigh`. The
  initial states are the inputs.
* `Detection`. `ExamineGroup` is one turn of the loop of `detect` over the
  groups, `GatherCohorts` what follows the loop. Factors, purities and shares
  are thousandths, truncated as the code truncates them. `TakeWindows` is
  RECURSIVE, so nothing is proved about this module.
* `Coordination`. `days[u][d]` is the row of `coordination_days`, `running` a
  run that has loaded; `StoreRun` is `store` with the modes, `RestartWith` a
  worker with another mode, `PurgeRuns`, `EraseSuspect`.
* `Taste`. `run` is between its reads (`ReadAccounts`, `ReadCredits`,
  `ReadHistories`) and inside the transaction of `store`
  (`StoreRecommendations`, `StoreNeighbours`, `CommitRun`); `change` is
  `set_setting` between its statements; `BreakDeadlock` is PostgreSQL.
  What the vectors say is any choice.
* `TastePage`. `page` is a request between its four reads, `held` the tag and
  the body of the client, `RunLands`, `Play`, `Skip`, `PurgeSkips` what happens
  beside it.
* `ChartPages`, `CommunityCharts`. `charting` and `viewed` are requests between
  statements; `pages` and `rankings` what is kept and until when; labels,
  aggregates and follows change in between.

### 2.5 What accounts do and see: the parts of MCAccounts

* `Social`. `request[s]` is a handler with its transaction: the checks before
  it (`Opens`), `TakeOwnLock`, `TakePairLock`, the reads, the write. `Unlove`,
  `Unfollow` and `Unblock` take no lock, as in the code.
* `Tags`. `tagTx[r]` is a request's transaction, `recount` the worker's, and
  what each read before it waited is kept in it: `QueueEntity` is the
  `ON CONFLICT DO NOTHING`, `TakeDue` the DELETE of the queue row, `Recount`
  the count, `PurgeLooks`/`PurgeDeletes` the purge of unused names.
* `Bios`. Each writer asks (`Ask`), locks the bio's row (`Begin`) and commits;
  `importing` and `command` are the enrichment's import and the moderator's
  command with the same structure. `HideLook` and `HideRestore` are the
  statements of `hide` after its UPDATE.
* `Images`. `upload[r]` is what a request has still to do: write the row of the
  file it stored, delete the file it replaced, promote the winner; an account may
  have several. A commit whose answer got lost (`WriteUnheard`) leaves the row, and
  the request deletes the file it stored (`DeleteUnheard`).
  `clearing` is the erasure between its statements: the likes its
  UPDATE saw (`EraseReads`), the uploads read after it (`EraseTakes`), the row
  (`EraseRow`), the files no row refers to (`ClearLook`, `ClearDelete`). Until it
  commits, the candidates it has updated are locked (`Locked`), and the account's
  own requests may run beside it, for a stale login leaves a session (`Sessions`).
  `gc` is the collector (`GcList`, `GcLook`, `GcDelete`); `Stop` and `EraseLost`
  are processes that stop half way.
* `Sessions`. `caller[r]` is a request between the cache, the row and the cache
  again; a logout and `ScheduleAccountDeletion` delete rows first and entries
  after (`RemoveEntry`, which Redis may refuse).
* `Scrobblers`. `call[r]` is a submission between `authenticate`, `Reserve`,
  `StoreNext` and `Release`, `outbox` what the client keeps until it is told.
* `Profiles`. `asking` is a request with the reasons that hid the profile from
  the viewer at every moment since it began; the doors are all the requests of
  the native API and of the two protocols that show something of a profile,
  each with its own order of checks.
* `LiveStreams`. `stream[v]` is a request from its first check (`AskStream`)
  over `Listen`, `Reread`, `Recheck`, `ShowCurrent` to `OpenStream`; `bus` is
  the Redis channel, `player[p]` an update between its two statements, `republish` the
  enrichment worker between the read of what is playing (`ReadPlaying`) and its
  publish (`Republish`). `HubLoses` is the hub's own subscription, which lags, closes
  or reconnects.
* `Paging`. `walk` is a reader and its cursor; `page` one page that takes
  several statements (the feed's windows, the numbered pages).

`MCAccounts` extends all of its parts: `Social`, `Sessions`, `Tags`, `Images`,
`Bios`, `Scrobblers`, `Sight` (with `Profiles` and `LiveStreams`) and `Paging`.
`MCPlays` extends `Enrichment`, `Taste`, `KeptPages` (with `ChartPages`,
`CommunityCharts` and `TastePage`), `Intake` (with `HistoryWalk` and `Polls`) and
`Attribution` (with `Catalog`, `AlbumVotes` and `Coordination`), and instantiates
`Labelling` and `Detection`. TLC evaluates the
assumptions of what is extended. Neither composes anything: the components named in one
of them share no state that the models keep (an account erased in `Images` is
not the account of `Tags`). A behaviour is that of one
component, chosen in its initial state (`part`); the variables of the others
stay as they begin. The states of the run are the sum of the states of its components, and
an invariant of the run is a conjunction of invariants of components. Where
components do interact (the labels and the weigher, the erase and the rankings,
the import and the live scrobble, follows and blocks) they are in one module.

## 3. What TLC checks

| Run | Instance | Properties | Distinct states |
|---|---|---|---|
| `imports_safety` | one account, two successive imports, the worker and a command, 2 pages, cap 1, one fault | `TypeOK`, `Counted`, `CapHolds`, `EndedStays`, `KeepsContract` | 1.4 million |
| `imports_takeover` | one import of 3 pages, two of which share a second, two workers, two faults | `HolderInStep`, `CompleteWhenDone`, `HandedOver`, `CursorForward` | 339,000 |
| `imports_liveness` | two users' imports, one worker, slices of one page, one fault, fair | `ImportsEnd`, `LeftoversHanded`, `EveryImportGetsItsTurn` | 189,000 |
| `imports_retries` | one import, two attempts | `GivesUpAfterConsecutiveFailures`: violated | |
| `labels` | any two of three live scrobbles on neighbouring days, one in the tail of the first; nothing fails; a reclassify command beside the worker when both are of one day; weights are kept for the later day | `TypeOK`, `LabelsAreReal`, `ToldIsLabelled`, `TailReachesNextDay`, `WeightsFollowLabels` | 178,000 |
| `labels_settle` | a live and an imported scrobble, one fault or new thresholds, fair | `LabelsSettle`, `QueuesDrain` | 343,000 |
| `labels_lookback` | two days, one restart, fair | `LookbackSettles`: violated | |
| `erasure` | two days, the worker and the command, one fault | `TypeOK`, `RestorableIsWhole`, `NothingComesBack`, `MarkedUnlessPassed` | 3.2 million |
| `erasure_ends` | one day, the worker and the command, one fault, fair | `EraseEnds`, `RankingsForget` | 352,000 |
| `erasure_marked` | one day, the worker alone, nothing fails | `ErasedIsMarked`: violated | |
| `plays` | the twelve parts of 2.4 | `EveryPlayOnce`, `AttributionHolds`, `EnrichmentHolds`, `FairWeights`, `StepsHold`, `TasteHolds`, `KeptPagesHold` | 1.4 million |
| `accounts` | the nine parts of 2.5 | `BlocksAndCapsHold`, `TagsHold`, `BiosHold`, `ImagesHold`, `CredentialsEnd`, `SubmissionsHold`, `SightHolds`, `WalkSeesAll` | 1.1 million |

The properties of `plays` and `accounts` join the invariants of their
components:

| Property | Component and its invariants | Distinct states |
|---|---|---|
| `EveryPlayOnce` | `HistoryWalk`: `EveryPlayStored`, `NoListenTwice`; `Polls`: `NothingSkipped` | 155,000; 166,000 |
| `AttributionHolds` | `Catalog`: `NamesHold` (`TwoPassesSuffice`, `RequeuedOnce`, `TracksCredited`); `AlbumVotes`: `AlbumFollowsVotes`; `Coordination`: `FactorsAreOfOneRun` | 169,000; 167,000; 142,000 |
| `EnrichmentHolds` | `Enrichment`: `RefreshNotForgotten`, `RejectedStaysOut` | 221,000 |
| `FairWeights` | `Labelling`: `LabelsAreFair` (`CountedFits`, `HonestCounts`, `LookbackIsEnough`, `DayIsCapped`); `Detection`: `HonestKeepTheirVoice` | 50,000; 460 |
| `StepsHold` | `Coordination`: `FactorChangesAreTold`; `Catalog`: `FirstStands` (action properties) | as above |
| `TasteHolds` | `Taste`: `OptedOutIsGone`, `ErasedAreRecounted` | 94,000 |
| `KeptPagesHold` | `ChartPages`: `PlaysShow`; `CommunityCharts`: `CoversTheFollowed`; `TastePage`: `NotModifiedIsTrue` | 46,000; 60,000; 138,000 |
| `BlocksAndCapsHold` | `Social`: `NoFollowAcrossBlock`, `CapsHold`, `RemovedStaysOut` | 114,000 |
| `TagsHold` | `Tags`: `TagCapsHold`, `CountsFollowTags` | 63,000 |
| `BiosHold` | `Bios`: `BiosTypeOK`, `HiddenIsNotShown` | 164,000 |
| `ImagesHold` | `Images`: `CountsAreLikes`, `ReferencedAreStored` | 205,000 |
| `CredentialsEnd` | `Sessions`: `EndedStaysEnded`, `DeletionEndsCredentials` | 105,000 |
| `SubmissionsHold` | `Scrobblers`: `DailyLimitHolds`, `ToldIsStored`, `OneSessionPerToken` | 151,000 |
| `SightHolds` | `Profiles`: `DoorsAgree`, `BlockedFindNobody`; `LiveStreams`: `StreamsEndWithSight`, `ShowsWhatPlays` | 104,000; 97,000 |
| `WalkSeesAll` | `Paging`: `WalkSeesAll` | 94,000 |

Each is joined by the component's type invariant where it has one. Several of
these invariants name what they except, in history variables that only they
read: a play a deletion moved behind the cursor (`shifted`), a credential of a
login or request that was let in before, and what was made with it (`strays`), a cache entry a lookup filled after the
row was gone (`overtaken`), a change of setting that overlapped a store
(`overran`), a tag that relied on a queue row the recount had taken
(`unqueued`), a weight that drifted with time (`drifted`), a candidate whose like
an account gave or took back while it was erased (`miscounted`), a closing message
that was lost (`missed`), updates that ran at once, ran beside the worker's republish
of an older play or were lost (`crossed`), a slow stream whose
buffer let its newest update go for a closing message to another viewer (`behind`), a
detection stored later than the day after it loaded (`Overdue`), a counted voter whose
suspicious day left the window since the track was last decided (`lapsed`), a
recording rejected while a pass had read the track, or the answer to a lookup of
another (`adoptable`), a file deleted because its row's commit was not heard of
(`unheard`), a play Spotify told of only after a later one (`excused`). In the import,
`HandedOver` excepts a play of the second in which a newer page of its job ended
(`Tied`). Each exception
is a behaviour the code has; that the invariant holds says that there is no
other.

### Why the bounds are enough

*Imports.* A takeover needs a process that lost its lease and one that took it:
two processes. A stale write needs a page before the takeover, one after it and
one to come: three pages. Two of them share a second, so that a checkpoint's range
can be left as it was by a page beside it. Two faults let the lease pass away and back, or pass
and then die. A user's jobs interfere only through the store and the cap, and a
job cannot begin while another is active, so two jobs of one user are enough for
the cap, and two users for the order of turns. The cap of 1 with a page of one
play reaches and passes the cap; `MaxAttempts` 1 or 2 reaches the give-up.
`SlicePages` 1 ends a slice after every page; 3 walks the history in one slice.
`LivePlays` lets the newest play be there before the import or not.

*Labels.* A day depends on its own scrobbles and on the tail before it, so two
neighbouring days are every dependency there is. Two scrobbles are the least
with an order of ids, and two of one day beside a command the least in which two
classifiers and the weigher hold the same day; the theorems of section 4 have no
such bound. One
fault is a restart, an error, a lost mark or a restart with other thresholds.

*Erase.* One snapshot is enough because no statement relates two of them; two
kinds because a refresh reads the weights twice. A batch of one over two days
puts a batch boundary, and so every interleaving, between any two deletions.

*Plays.* The Last.fm history has pages of one play and segments of one page, so
that two listens cross both boundaries, two of them may share a second, one
arrives during the walk, and a second import follows the first. Two votes, of
accounts that may both be too young, tie and outweigh. An artist, an album or a
track makes every kind of job; two recordings let the wrong one be taken back.
`Labelling` starts from every sequence of up to three plays on seven instants
around the window's ends: two fill the budget and the third overruns it. The
inputs of `Detection` are a crowd of six among twenty accounts with every
combination of common age, address, network, client, timing and taste, in two
groups of theirs and a third. A window of two days over three days lets two runs
overlap by one; two listeners name each other. Four events beside a request for
recommendations are the fewest that put a skip out and take back the one that put
it out. Two live submissions and a page
of two plays meet over one track.

*Accounts.* Every lock of `Social` is over one account or a pair: two accounts
that act on each other and a third that is followed or blocked, two requests at
once, caps of one. A tag's race is between a request and the recount: two
taggers, two names, two requests. A bio's writers are two editors, the import
and one moderator. Two accounts, two keys and two requests let an upload replace
another, be liked and be collected beside an erasure; four requests, erasures and
collections are begun in a behaviour. Two requests race with a login and a deletion; the cache lives
one tick and a session two. Two credentials do not reach a token made with a
session that a stale login made; the theorem does (section 4). One grant is exchanged by two clients; an allowance
of one play is reached by the first and passed by the retry or the second. A
slow stream's buffer holds one update. Two updates and one republish are the least
with which an older play is published after a newer one.
A page holds two of up to three entries, two of which may share a moment, so that a boundary falls between them.

`CHECK_DEADLOCK FALSE` appears where the system may really stop: all scrobbles
stored and labelled, the account gone, or the bounded events used up.

### Fairness

Each fair specification asks for no more than the code's loops give. The
worker's loops are supervised and restarted (`worker/src/main.rs`), so a step
they can take is taken (`WF` on `DaemonStep`, `ClaimDays`, `Weighing`,
`ClaimDue`, `Sweep`, `SweepWeights`); a command that was started goes on while
it lives; the clock runs (`LeaseExpires`, `BecomesDue`); a transaction begun
commits or fails. Nobody has to request, cancel, restore, scrobble, interrupt
or fail. Faults are bounded in number, not in time. `ImportsEnd` and
`LeftoversHanded` also assume that Last.fm stops rate limiting at some point,
and say so in the formula: a rate limit defers a job without counting an
attempt, so an endless one is an endless import by design.
`EveryImportGetsItsTurn` does not need that assumption. `plays` and `accounts`
check safety only and assume no fairness.

### What the violated runs show

Each states what a comment of the code promises; each counterexample is a short
behaviour of the code as it is.

* `imports_retries`: `attempts` is documented as consecutive failures
  (`worker/src/lastfm_import/mod.rs:41`), and `record_page` resets it in the
  row, but not in the process's copy, from which `handle_error` counts on. A
  failure, a page and another failure within one slice count as two.
* `labels_lookback`: a day queued only because the tail before it moved, and
  lost by a restart after the claim, is queued by no sweep: no sweep compares
  `lookback_count`. With a reclassify command beside the worker the same end
  is reached without any failure (each of two neighbouring days read before the
  other wrote), which is why `TailReachesNextDay` is about behaviours without a command.
* `erasure_marked`: a refresh that read the weights before they were deleted
  and commits while the last UPDATE waits for its rows leaves a new snapshot
  that counts the account, unmarked, until its next scheduled refresh.
  `MarkedUnlessPassed` shows that this, a weigher in between and a crash are the
  only ways, and `RankingsForget` that all of them heal.

### Statements the code does not keep

These are in the modules, each with the comment of the code that makes it, and
no run checks them, because a run of theirs would end at its counterexample. To
see one, make it the INVARIANT (`PagesAgree`: the PROPERTY) of a configuration
of its module alone, with the constants that `MCPlays` or `MCAccounts` gives the
module; TLC finds each in seconds. `PROJECT.json` quotes the comments under `findings`.

| Statement | What happens instead |
|---|---|
| `DayLabels!LabelsAreReal`, with an imported play | the view takes every id up to the day's highest classified id for classified; an import's lower id commits later and shows as counted |
| `Tags!TagsStayOn` | the purge deletes a name that an add found and has not committed with |
| `Bios!PeopleOverImports` | an import that waited for the bio's row looks at "no edits" in the snapshot from before the wait, and is shown over the edit |
| `Bios!HiddenTextIsGone` | hide takes no lock on the bio: a revert to a revision of the same text escapes its UPDATE |
| `Images!ShownIsStored` | the uploader's erasure falls between the read of the winner and its promotion |
| `Images!EveryLikeCounted` | the erasure takes off the likes its UPDATE saw, and a like the account gives or takes back before its row goes is never set right |
| `Scrobblers!DeletionEndsScrobblers` | a password login that read the account, or a grant traded, before the deletion makes its credential after it |
| `Scrobblers!OnlyRecordedCount` | a batch that passes the limit counts the plays it refuses, and only granted plays are given back |
| `CommunityCharts!PagesAgree` | two requests that both find no ranking each compute one, and the second replaces the first between two pages of a reader |
| `Profiles!PrivateStaysPrivate` | a request that was let in before the profile turned private reads the plays after |
| `Paging!RecentSeesAll` | plays of one second are cut in two by a page that continues before that second |
| `Catalog!PagesDoNotDeadlock`, with two pages that bring the same names in opposite orders | two pages insert new names in the orders of their plays and wait for each other |

Other exceptions are conjuncts of the checked properties, by the history
variables named above (`OptedOutIsGone`, `ErasedAreRecounted`,
`NotModifiedIsTrue`, `NothingSkipped`, `DeletionEndsCredentials`,
`CountsFollowTags`, `CountsAreLikes`, `NoListenTwice`, `FactorsAreOfOneRun`,
`AlbumFollowsVotes`, `RejectedStaysOut`), and each is a finding too. Those of
`HandedOver`, `ShowsWhatPlays`, `ReferencedAreStored` and `FactorChangesAreTold` are
under `hazards` instead, for no comment of the code promises otherwise.

## 4. What TLAPS proves

The theorems hold for every value of the constants that satisfies the named
assumptions, which TLC evaluates in every run of the module:
`ConstantsAssumption`, `HistoryAssumption` and `ActorsAssumption` of
`ImportJobs`, `ErasureAssumption`, `LabelsAssumption`, `SocialAssumption`,
`SessionsAssumption`, `TagsAssumption`, `ImagesAssumption`, `BiosAssumption`,
`ScrobblersConstants`, `ProfilesConstants`, `LiveConstants`, `PagingConstants`,
`EnrichmentConstants`, `TasteConstants`, `ChartConstants`, `CommunityConstants`,
`PageConstants`, `CatalogConstants`, `AlbumConstants`, `CoordinationConstants`,
`WalkConstants`, `PollsConstants`. They say that bounds are natural numbers, that
sets of plays, days, tracks or accounts are finite, that maps like `DayOf` are maps,
that a submission names its artist and that a page has a play; nothing about how
many there are.

`ImportJobsProofs`:

* `TypeCorrect`. `TypeOK` alone is not inductive, for a process at work must
  have a job in hand; `JobInHand` says so.
* `HolderStaysInStep` and `DoneIsComplete`, from one inductive invariant,
  `HistoryInv`. That a done import is complete is a fact about what a process
  knew when it decided to finish, so the invariant carries three things: only
  running jobs are leased; all plays on pages before the stored cursor are
  stored (`WalkedIsStored`); and a process that is about to finish holds that
  knowledge even after it lost the lease (`DoneIsKnown`). `HolderInStep` is the
  part that turns the process's copy into the row.
* `CursorsMoveForward` and `EndedStaysEnded`: action properties, one step per
  action, from the same invariant. They need it because `record_page` writes
  what the process computed, which follows the row only while the token
  matches.
* `ImportsKeepContract`: `ImportJobs` implements `ImportContract`. The stored
  status is the abstract status; every action is one of the abstract actions or
  changes nothing abstract. Finishing needs `DoneIsKnown`.

`ImportJobsProofs` goes on with what becomes of the plays, first
`PlaysAreHandedOver`. `clear_pending` clears the range it read if the row still has
that range. A page recorded between the read and the clear by a process that took
over leaves the range as it was if its plays lie inside it, and they are forgotten.
The invariant (`HandoverInv`) says which plays these can be: a play still missing is
older than every range of the job, stored or read (`MissingIsOlder`,
`MissingIsOlderThanRead`), but for one of the second in which a newer page ended
(`Older`). So a play is forgotten only if it is tied to a newer page in that way, the
one exception `HandedOver` makes. Nothing in the code rules it out; `imports_takeover`
has such a tie, and TLC finds the play forgotten when the exception is dropped.

Then `ImportsAreCounted` and `CapIsKept`. The cap is compared
with what a process remembers: the count of the user's other imports when the
job was leased. The inductive invariant (`CountInv`) says that this memory stays
exact while the lease is held (`BeforeIsExact`), because a user has one active
import (`OneActiveImport`), and that the counters are the plays stored
(`Counted`, `StoredByOwnImport`). That the counters of several jobs add up is a
bijection between their counts and the plays (`CountsArePlays`), so the proof
needs no induction over the number of jobs.

`DayLabelsProofs`:

* `TypeCorrect`, with `InHand`: who is at work has a day and rows in hand.
* `LabelsStayReal`. The view compares ids only. `IdsInOrder`: among live
  scrobbles a lower id is never still open when a higher one is taken, so who
  reads the day has every lower id of what it read (`ReadInOrder`), and so have
  the labels.
* `ToldStaysLabelled`. A queued scrobble passes from the queue to a claim, to a
  transaction that has read it, to the labels, and each step is one of those
  four places to the next. What the lock gives (`LockInv`): one transaction a
  day at a time, over labels that are still what it read.
* `WeightsStayTrue`. A day classified while it was queued queues nothing of its
  own; `QueuedStays` says that the entry it relied on is still there, or in the
  weigher's hands waiting for the lock, when the labels commit.
* `TailsReachNextDay`. The code compares the *number* of a lookback's scrobbles
  with the new tail. That is enough because a lookback never names more than
  the tail read now (`TailsAreRead`): subsets of equal size are equal
  (`StillTails`). An entry for the next day that was there at the statement, so that
  none was inserted, is there at the commit: only the worker takes entries, and it is
  the one that classifies. The argument needs the worker to classify alone, which the
  property says (`commands = 0`); with a command beside it the statement is false.

`AccountErasureProofs`:

* `TypeCorrect`.
* `RestoredWhole`: an eraser at work means the account is claimed (`Busy`), and
  a login restores no claimed account.
* `ErasedForGood`, from `CleanInv`: while the guard is held no aggregate
  refresh is at work; from `CleanAggregates` on, scrobbles and aggregates are
  gone and a refresh in flight has read none; with the row gone the foreign
  keys keep everything out.
* `ErasureIsMarked`, from `MarksInv`, for erases that nothing failed and no
  weigher overtook: labels are deleted only by erasers; no weights are left
  when the row is deleted; whatever a snapshot or a refresh counts is still
  there or known to an eraser, which has the mark ahead of it or behind it. A batch
  that finds nothing ends its loop with rows left; these are rows another eraser is
  deleting (`StillDeletes`).

`CommunityProofs`, first `Social`: `BlocksAndCapsStand`. None of its three invariants is inductive,
because a transaction writes by what it read some steps before. `SocialInv` says
which transactions exclude each other (`Apart`: the same account's lock, the
same pair's lock) and what each one that has read relies on until it writes
(`Promise`): no block either way, no removal in its cooldown, room under the
cap. `Unlove`, `Unfollow` and `Unblock` take no lock and only remove rows, so
they break no promise (`RowsLeave`); that is the reason the code may leave their
locks out.

`CredentialsProofs`, first `Sessions`: `CredentialsDoEnd`. `SessionsInv` says that ids are not given
twice (`EndedForGood`), that an entry never outlasts its lookup by more than
`SESSION_CACHE_SECS` (`CachedAWhile`), that an ended session is looked up by
nobody any more unless a lookup held its row (`Faded`), and that whoever still
makes a credential of an account whose deletion was asked for is stale
(`Stale`). The proof attempt found the exception of `DeletionEndsCredentials`
to be too narrow: a stale login makes a session, and a request let in with that
session makes an API token while the deletion is scheduled. That takes three
credentials, one more than the run has. `strays` now names what is made with a
stray credential, and TLC confirmed the statement with three as well.

`CommunityProofs`, `Tags`: `TagsDoHold`. A tag is written some statements after the caps were
counted. What was counted stays an upper bound because only one transaction at a
time puts a tag on, which `Capped` says for any two requests, and because what
the others do only removes tags (`FewerTags`). The counts are right when nothing
is queued because of what holds while something is: whoever changes what the
tags weigh finds the queue row there, inserts it, or is noted by the recount
that has taken it (`Enqueued`, `Recounting`), so what the worker is about to
write is either what the tags weigh or known to be old.

`CommunityProofs`, `Images`: `ImagesDoHold`. Every deletion of a file works from a look that
is some steps old, so that it deletes nothing referenced is a fact about what
references can still come: a key is generated once, and is in one place at a
time, an avatar, a candidate or the hand of one request, and in a request's hand
it is no old file (`OnePlace`). Hence what a request has replaced, and what the
collector or the erasure found without a reference, stays without one (`Doomed`);
what the erasure has listed before its row is gone goes with that row. The counts are the likes because
the erasure's two moments, the likes its UPDATE saw and the row that takes them
away, disagree only over candidates it has not locked or that are in `miscounted`
(`Taking`). A request that does not hear of its commit deletes a file its row refers
to. No other request has that key in hand (`Unhearing`), and `unheard` names it.

`CommunityProofs`, `Bios`: `BiosDoHold`. `hide` chooses what the bio shall show instead before
it waits for the bio's row, so the choice is some steps old when it is written.
It is still right because nothing takes visibility away in between: only one
moderator's command runs at a time, no edit, revert or import touches a revision
that is there, and the command's own rows were left out of the choice
(`RestoresGood`). Hence `restore` always finds the revision it was given, and its
answer for a revision that is no longer to be seen is never taken from `hide`.
The proof shows how much rests on the one moderator: a second `hide` beside the
first could hide what the first is about to restore, `restore` would answer
`NoSuchRevision`, and `hide` (`db/src/queries/moderation.rs:302`) commits without
looking at the answer. No comment of the code speaks of two moderators, and the
model has one. That marking and restoring commit together makes the statement
true in every state, while a command is at work too. What `suspend --undo` puts
back is restored for what was shown when it began; the proof needs that these
are finitely many bios.

`CredentialsProofs`, `Scrobblers`: `ScrobblersAreSafe`. The counter of a day in
Redis and the rows of the plays are in step only when nobody is between them, so
the invariant counts what every request in progress holds: what it may still
store, and the duplicates it will give back (`Counted`). What is charged and
held was counted, and what is charged and may still be is within the limit; the
sum over the requests is the size of one set of pairs (`PlaysIn`), so that the
proof needs no induction over them. A request that goes over, finds a duplicate
or stops moves a play from one part of the sum to another or out of it. A client
is told of a play only after it left what is still to be stored (`CallStands`).
An authorization is exchanged in one DELETE ... RETURNING, so a token has one
session at most.

`SightProofs`: `SightIsRight`. Of `Profiles`, it says that an answer a request gives for
a reason had that reason at some moment while it ran, and that it shows a profile
only if no reason held throughout. `held` only loses reasons when the profile
changes, so a reason that a request once looked for and did not find is in none
of what held throughout, whatever has changed before and since (`HeldStands`);
each place in a request's order of checks says which reasons are left to look for
(`Stage`). The other way round, a request beside which nothing changed (`steady`)
has read what still stands.

Of `LiveStreams`, the invariant follows the messages of each viewer from the
transaction that owes them, over the channel, to the stream's buffer: a stream
whose viewer has lost sight has its end in one of these places (`EndComes`), and a
stream that does not show the newest update has that update in one of them
(`NewestComes`), unless it was lost or the worker published an older play after it,
which `crossed` names: the republish reads what is playing and publishes what it read
later, with nothing that orders it among the updates.
The proof attempt found an exception that `ShowsWhatPlays` did not
have: a buffer that is full lets its oldest message go, and with a second viewer
that message can be the newest update, let go for a closing message that is not
this viewer's. TLC found the behaviour with two viewers; `behind` names it now, and the
run has two.

`SightProofs`, `Paging`: `WalksSeeAll`. What a walk has seen is a beginning of the
list as it would be without what was added or taken out behind its back, so an
entry that stood throughout is seen before the walk ends. Each kind of list says
where it reads on (`KeysetStands`, `WindowsStand`, `RecentStands`, `CutoffStands`,
`NumberedStands`): after the last entry shown, from the window the feed has
widened to, before a second, at the moment the first page was cut off, or by a
count. They all rest on one fact about the newest n entries of a finite set
(`NewestAll`: fewer than n are all there are), which the proof draws from the
well-foundedness of strict inclusion, since an induction over n is out of reach.

`DerivedProofs`, `Enrichment`: `EnrichmentIsSafe`. `complete_job` matches the id and the
status alone, so everything rests on what the worker's copy of a job says about
the row: a row that is still running is as it was when the worker claimed it
(`AsClaimed`), because whoever writes it meanwhile, a refresh, a sweep, a review
or the reset of stuck jobs, takes it out of that status. Hence a pass that
completes a row completes the force it was claimed with, and none that came
later. What was rejected stays out because a pass keeps what it read of the
rejections and of the match (`PassKnows`), and what it found is no rejected
recording (`FoundKnown`), but for one rejected since and one that a lookup of another
recording was answered with, which `adoptable` names.

`DerivedProofs`, `Taste`: `TasteIsSafe`. A run computes on what it loaded long ago; `store`
filters by the settings in each of its statements. Between them the invariant
says that what the transaction has inserted honours every account, but those
whose change overlapped it (`InsertsHonour`), and that a change has deleted, of
the stored results its DELETEs could see, what its new setting does not allow,
statement by statement (`DeletesReach`). An erasure takes the weights first and
for good (`WeightsGo`), so an account that a run counted and that is found
without weights was erased once already, which `unmarked` names.

`DerivedProofs`, `KeptPages`: `KeptPagesAreTrue`. All three kinds of page rest on a question
about the past that is answered by something small.

* `ChartPages`: a page is kept under the number of listens of each label. What
  was scrobbled only grows, and the numbers add up to how many there are, so two
  moments with one version had scrobbled the same listens (`Tagged`), whatever was
  relabelled between. A page counts what the aggregates hold, or at least what is
  not late, less what was called a duplicate by then (`Shows`).
* `CommunityCharts`: a ranking is found under the accounts themselves, so that it
  is of them (`MadeFor`) needs no more than that nothing else is written under
  their key; that they are no more than allowed is the fact that fewer than n
  precede each of the first n (`FirstAtMost`).
* `TastePage`: a tag has the latest play, how many skips there are and the latest
  of them. There is a moment, that of the tag the client holds, to which the
  tables of now are compared (`SinceTag`): a skip is as it was then, or gone, or
  made since. A tag that is made again therefore says that no skip is new, since
  the latest is not, and that none is gone, since there are as many: the skips
  are the same (`SameSkips`), and so is the list (`BodyHeld`). The proof attempt
  found an exception that `NotModifiedIsTrue` did not have. With the table full, a
  skip made between the tag and the list can be put out by a later one, and that
  one taken back: the list the client holds then hides an artist that nothing
  hides any more, under the tag of before. TLC found the behaviour with a fourth
  event; `untold` names it now, and the run has four.

`PlaysProofs`, `Intake`: `PlaysComeInOnce`.

* `HistoryWalk`. What the walk is to bring, those plays of its window that were on
  Last.fm when it began and still are, is covered (stored, or taken for a live
  scrobble), in the page in hand, or still ahead of the cursor (`WalkStands`): in its
  segment, no newer than the oldest play seen, and at least as many plays from the top
  as the pages before have taken. A play that a user's listen adds only pushes it
  down; one that is deleted can pull it up over the cursor, and then it is in `shifted`
  or was fetched before. Places have no gap (`NoGap`), so an empty page, like the
  last by count, has nothing left behind it; and a new segment begins one second above
  the oldest play seen, so that plays of that second are walked again and not lost
  (`AdvanceIs`). Below a re-import's window is what the earlier one covered
  (`EarlierCovered`), which holds because a play comes to Last.fm at most
  `REIMPORT_OVERLAP` late. That nothing is stored twice rests on the order of the two
  ways in (`LiveFirst`): a scrobble that was there before the walk looked is among the
  rows it read, and if the play that matches it did not take it, another play of the
  track did, whose listen was within twice `LIVE_OVERLAP` (`RecordPairs`).
* `Polls`. Up to a link's cursor every play of its account is recorded, refused or
  excused (`BehindCursor`). A poll works from a copy, and two facts are about the
  account that its token reads: what came after the cursor it listed is in its answer,
  taken, newer than all of it, or excused (`Fetched`), and at the end what lies between that
  cursor and its own is taken (`GoneOver`). A row's cursor only grows while its id
  stays (`Listed`), so the later of the two leaves nothing behind; `excused` names
  the plays of another account that it passes, and those Spotify tells of after a later
  one. A play that is merely late is newer than the answer, and the next poll has it.

`PlaysProofs`, `Attribution`: `AttributionIsRight`, and `StepsAreRight` about single steps.

* `Catalog`. What is known only grows: rows are never removed, and a row never loses
  what it has. So a submission that looks a second time looks for a row that is
  there, committed by whoever made it wait (`Progresses`), and the second pass of a
  page sees, in the snapshot of its statement, all it wanted and did not make itself
  (`Collects`): nobody needs a third. What a page has of its own extends what is
  committed, because the rows two pages hold are disjoint (`PagesStand`); that is
  why a commit overwrites nothing that is known (`FirstStands`). A track was queued
  again only when it gained its hint, and it keeps that (`RequeuesRight`); whoever
  made a track has credited it, is at work, or died (`CreditsCome`).
* `AlbumVotes`. With nothing queued no decision would move the track (`Settled`). What
  the worker has decided stays what it would decide now (`StillRight`), because each
  change of what is counted queues the track, which waits for the lock that the
  worker holds until it commits; a move is the last one, for from the album it chose
  nothing else has the margin to win (`NoSecondMove`). An entry that waits for an
  account to come of age waits for the first one (`WaitsForTheFirst`). The one change
  that queues nothing is a suspicious day that leaves the window: nobody writes a row
  then, and the track keeps its album until something else queues it. `lapsed` says
  so, from then to the worker's next decision. The operator's
  backfill holds no lock, and `outrun` says what comes of that.
* `Coordination`. Two runs may have loaded on different days and may be stored in
  either order; the rows in the last one's window are its own (`LastRunsRows`) since
  it clears what it does not write, and since what a detector loaded still
  stands when it stores, or is erased (`DetectionsStand`). That runs are numbered
  without a gap gives that the purge leaves the last (`RunsNumbered`). From the same
  invariant follows `FactorChangesAreTold`: the days votes weigh by are one more than
  a run's window, so the window of a run that loaded today or yesterday lies among
  them, and `store`, which compares an account's lowest factor over its window, sees
  every change that votes see (`StoreTells`). The proof attempt found its exception: a
  detection stored later than the day after it loaded also compares days that votes no
  longer weigh, and a low factor there hides the change from it. `Overdue` names that.

Only model-checked:

* every liveness property: fairness and ENABLED are out of the prover's reach;
* `FairWeights` of `MCPlays`. `Labelling` and `Detection` compute what they find by
  recursion over the plays, and that it is right for every history is an induction
  over data, for which the library's theorems take an operator that none of the
  provers can instantiate. `Detection` also has a RECURSIVE operator, and no theorem
  can be stated beside one.

## 5. What is not modelled, and the plan

Left out on purpose: HTTP parsing and answers, formatting, logging, the
providers' clients and rate limiters, search and the export archive (read-only,
nothing kept), the supervisor and its heartbeats (assumed, as the restart of a
daemon), the migrations runner (one process at a time under a session lock), the
backup scripts. The vectors, cosines and mixes of `shared/src/similarity.rs` are
real arithmetic over all accounts: what they find is any choice among the
accounts a run read. Reports, comments and the moderation of tags are single
statements. `PROJECT.json` says for each part what is left out of it.

Known simplifications that a reader should have in mind: in `ImportJobs` a job's
history does not change while it is walked, and a stored play is one cell
(`HistoryWalk` has both, without leases and crashes); one user in `DayLabels`,
one account in `AccountErasure`; the erase's per-table batches over scrobbles
and the catalog's counters are one deletion of a day; times are ticks and small
sets, and the lives of caches, locks and leases a few of them; one moderator's
command at a time in `Bios`; in `HistoryWalk` the answer to a request is the page it
asked for; in `Taste` an erasure waits for a store in progress whether or not it
holds the account's rows; in `AccountErasure` nothing is scrobbled between the
read of a chunk and its delete, and the locks of the counters are not taken.

What comes next, in this order:

1. The counters of the catalog beside ingest, edits and the erase: the hazard at
   `db/src/queries/accounts.rs:320` has no property yet.
2. Liveness of the queues of `Enrichment`, `AlbumVotes` and `Tags` under the
   worker's fairness: what is queued is decided.
3. Abstract specifications: "a listen is stored once" for `HistoryWalk`, "a
   credential works until it is ended" for `Sessions`.
4. Two moderators' commands at once in `Bios`, with what `hide` does not look at.
