------------------------------- MODULE Images -------------------------------
(***************************************************************************)
(* Uploaded images: avatars, the candidates for one artist's image and the  *)
(* likes that choose among them (api/handlers/uploads.rs, users.rs and      *)
(* community.rs, db/queries/community.rs and users.rs), the files under     *)
(* UPLOAD_DIR (api/media, shared/storage.rs), what erasing an account takes *)
(* away (db/queries/accounts.rs) and `worker uploads gc`.  Files and rows   *)
(* are changed one after the other, and any process may stop in between.    *)
(***************************************************************************)
EXTENDS Integers, FiniteSets

CONSTANTS
  Uploaders,             \* the accounts
  Keys,                  \* the upload keys there may be, none used twice
  ImageRequests,         \* requests in flight at once, of any account
  MIN_VOTES_TO_DEFAULT,  \* likes that make a candidate the artist's image
  MaxStops,              \* bound: processes that stop half way
  MaxImageEvents         \* bound: requests, erasures and collections begun

ASSUME ImagesAssumption ==
  /\ IsFiniteSet(Uploaders)
  /\ {"none", "link", "provider"} \cap Keys = {}
  /\ MIN_VOTES_TO_DEFAULT \in Nat /\ MaxStops \in Nat /\ MaxImageEvents \in Nat

VARIABLES
  files,       \* the keys stored
  old,         \* those stored longer ago than gc's minimum age
  used,        \* the keys ever generated
  avatar,      \* [Uploaders -> users.image_url: a key, a link or none]
  candidates,  \* the keys in image_candidates
  earlier,     \* their order: pairs of candidates by created_at
  owner,       \* [Keys -> uploaded_by], of the candidates
  likes,       \* image_candidate_votes: pairs <<key, account>>
  count,       \* [Keys -> vote_count], of the candidates
  image,       \* artists.image_url
  imageLocked, \* artists.image_locked
  here,        \* the accounts not erased
  upload,      \* upload[r]: what a request has still to do
  clearing,    \* the erasure of an account
  gc,          \* what gc has listed
  stops, imageEvents,
  unheard,     \* history: keys in a row whose writer deleted the file, not hearing of its commit
  miscounted   \* history: candidates that an account being erased liked, or no longer did

imagesVars == <<files, old, used, avatar, candidates, earlier, owner, likes, count, image,
                imageLocked, here, upload, clearing, gc, stops, imageEvents, unheard,
                miscounted>>

Files == <<files, old, used, unheard>>
LikeRows == <<candidates, earlier, owner, likes, count, miscounted>>
ArtistRow == <<image, imageLocked>>
Sweeps == <<clearing, gc, stops>>

Rest == [at |-> "rest", by |-> "none", key |-> "none"]
NotClearing == [at |-> "rest", by |-> "none", likes |-> {}, keys |-> {}]
NotCollecting == [at |-> "rest", keys |-> {}]

ImagesInit ==
  /\ files = {} /\ old = {} /\ used = {} /\ candidates = {} /\ earlier = {} /\ likes = {}
  /\ avatar = [u \in Uploaders |-> "none"] /\ owner = [k \in Keys |-> "none"]
  /\ count = [k \in Keys |-> 0] /\ image = "none" /\ imageLocked = FALSE
  /\ here = Uploaders /\ upload = [r \in ImageRequests |-> Rest]
  /\ clearing = NotClearing /\ gc = NotCollecting /\ stops = 0 /\ imageEvents = 0
  /\ unheard = {} /\ miscounted = {}

UploadGoesOn(r, at, u, k) == upload' = [upload EXCEPT ![r] = [at |-> at, by |-> u, key |-> k]]
UploadDone(r) == upload' = [upload EXCEPT ![r] = Rest]
Delete(ks) == files' = files \ ks /\ old' = old \ ks /\ UNCHANGED <<used, unheard>>

(* ---- Uploads: the file first, then the row. ---- *)

\* Media::store, under a key of its own.
Store(r, u, kind) ==
  /\ upload[r].at = "rest" /\ u \in here
  /\ \E k \in Keys \ used :
       /\ files' = files \cup {k} /\ used' = used \cup {k}
       /\ UploadGoesOn(r, kind, u, k)
  /\ UNCHANGED <<old, unheard, avatar, here, LikeRows, ArtistRow, Sweeps>>

\* update_profile takes the previous image under the row's lock; PATCH
\* /v1/user/me sets a link the same way.
Replace(r, u, value) ==
  /\ u \in here
  /\ avatar' = [avatar EXCEPT ![u] = value]
  /\ IF avatar[u] \in Keys THEN UploadGoesOn(r, "replaced", "none", avatar[u]) ELSE UploadDone(r)
  /\ UNCHANGED <<here, Files, LikeRows, ArtistRow, Sweeps>>

SetAvatar(r) == upload[r].at = "avatar" /\ Replace(r, upload[r].by, upload[r].key)
SetLink(r, u) == upload[r].at = "rest" /\ avatar[u] # "link" /\ Replace(r, u, "link")

\* delete_replaced_avatar.
DeleteReplaced(r) ==
  /\ upload[r].at = "replaced"
  /\ Delete({upload[r].key}) /\ UploadDone(r)
  /\ UNCHANGED <<avatar, here, LikeRows, ArtistRow, Sweeps>>

\* The row could not be written, always so when the account is gone: its file goes.
DeleteUnwritten(r) ==
  /\ upload[r].at \in {"avatar", "candidate"}
  /\ IF upload[r].by \in here THEN stops < MaxStops /\ stops' = stops + 1 ELSE UNCHANGED stops
  /\ Delete({upload[r].key}) /\ UploadDone(r)
  /\ UNCHANGED <<avatar, here, LikeRows, ArtistRow, clearing, gc>>

\* The row is written, but the answer to its commit is lost: the handler takes it
\* for unwritten ...
CandidateRow(k, u) ==
  /\ candidates' = candidates \cup {k}
  /\ earlier' = earlier \cup {<<l, k>> : l \in candidates}
  /\ owner' = [owner EXCEPT ![k] = u]
  /\ likes' = likes \cup {<<k, u>>} /\ count' = [count EXCEPT ![k] = 1]
  /\ UNCHANGED miscounted

WriteUnheard(r) ==
  LET k == upload[r].key
      u == upload[r].by IN
    /\ u \in here /\ stops < MaxStops
    /\ \/ /\ upload[r].at = "avatar"
          /\ avatar' = [avatar EXCEPT ![u] = k] /\ UNCHANGED LikeRows
       \/ /\ upload[r].at = "candidate"
          /\ CandidateRow(k, u) /\ UNCHANGED avatar
    /\ UploadGoesOn(r, "unheard", "none", k) /\ stops' = stops + 1
    /\ UNCHANGED <<here, Files, ArtistRow, clearing, gc>>

\* ... and deletes the file the row refers to.
DeleteUnheard(r) ==
  LET k == upload[r].key IN
    /\ upload[r].at = "unheard"
    /\ files' = files \ {k} /\ old' = old \ {k} /\ unheard' = unheard \cup {k}
    /\ UploadDone(r)
    /\ UNCHANGED <<used, avatar, here, LikeRows, ArtistRow, Sweeps>>

\* The API stops: what the request had still to do is never done.
Stop(r) ==
  /\ upload[r].at # "rest" /\ stops < MaxStops
  /\ stops' = stops + 1 /\ UploadDone(r)
  /\ UNCHANGED <<avatar, here, Files, LikeRows, ArtistRow, clearing, gc>>

(* ---- Candidates and likes. ---- *)

\* A like of an account whose erasure has begun: an erasure that has read its
\* likes doesn't see it.
Unseen(u) == clearing.at \in {"reads", "taken"} /\ clearing.by = u

\* The rows whose counts the erasure has changed are locked until it commits.
LikesTaken(u, rows) == {l \in rows : l[2] = u /\ owner[l[1]] # u}
Locked(k) == clearing.at = "taken" /\ \E l \in clearing.likes : l[1] = k

\* add_image_candidate: with the uploader's own like.
AddCandidate(r) ==
  /\ upload[r].at = "candidate" /\ upload[r].by \in here
  /\ CandidateRow(upload[r].key, upload[r].by)
  /\ UploadGoesOn(r, "promotes", "none", "none")
  /\ UNCHANGED <<avatar, here, Files, ArtistRow, Sweeps>>

\* vote_image counts a like it inserted.
Vote(r, u, k) ==
  /\ upload[r].at = "rest" /\ u \in here /\ k \in candidates
  /\ IF <<k, u>> \in likes THEN UNCHANGED <<likes, count, miscounted>>
     ELSE /\ ~Locked(k)
          /\ likes' = likes \cup {<<k, u>>} /\ count' = [count EXCEPT ![k] = @ + 1]
          /\ miscounted' = IF Unseen(u) THEN miscounted \cup {k} ELSE miscounted
  /\ UploadGoesOn(r, "promotes", "none", "none")
  /\ UNCHANGED <<avatar, here, candidates, earlier, owner, Files, ArtistRow, Sweeps>>

\* unvote_image discounts a like it deleted.
Less(n) == IF n > 0 THEN n - 1 ELSE 0
Unvote(u, k) ==
  /\ <<k, u>> \in likes /\ ~Locked(k)
  /\ likes' = likes \ {<<k, u>>} /\ count' = [count EXCEPT ![k] = Less(@)]
  /\ miscounted' = IF Unseen(u) THEN miscounted \cup {k} ELSE miscounted
  /\ UNCHANGED <<avatar, here, candidates, earlier, owner, upload, Files, ArtistRow, Sweeps>>

\* promote_winning_image reads the most-liked candidate, the oldest of them ...
Wins(k) ==
  \A l \in candidates \ {k} :
    count[l] < count[k] \/ (count[l] = count[k] /\ <<k, l>> \in earlier)
ReadWinner(r) ==
  /\ upload[r].at = "promotes"
  /\ \/ \E k \in candidates :
          Wins(k) /\ count[k] >= MIN_VOTES_TO_DEFAULT /\ UploadGoesOn(r, "writes", "none", k)
     \/ /\ \A k \in candidates : Wins(k) => count[k] < MIN_VOTES_TO_DEFAULT
        /\ UploadDone(r)
  /\ UNCHANGED <<avatar, here, Files, LikeRows, ArtistRow, Sweeps>>

\* ... and writes it in a statement of its own.
Promote(r) ==
  /\ upload[r].at = "writes"
  /\ image' = upload[r].key /\ imageLocked' = TRUE
  /\ UploadDone(r)
  /\ UNCHANGED <<avatar, here, Files, LikeRows, Sweeps>>

\* Enrichment's image, unless the community chose one.
Enrich ==
  /\ ~imageLocked /\ image' = "provider"
  /\ UNCHANGED <<avatar, here, imageLocked, upload, Files, LikeRows, Sweeps>>

(* ---- Erasure.  Requests of the account's may still run beside it, with a  *)
(* session that a stale login made (Sessions).                          ---- *)

\* delete_user_row: the UPDATE that takes the likes off the others' candidates
\* sees the likes that were there when it began, ...
EraseReads(u) ==
  /\ clearing.at = "rest" /\ u \in here
  /\ clearing' = [NotClearing EXCEPT !.at = "reads", !.by = u, !.likes = LikesTaken(u, likes)]
  /\ UNCHANGED <<avatar, here, upload, gc, stops, Files, LikeRows, ArtistRow>>

Owned(u) == {k \in candidates : owner[k] = u}

\* ... and takes them off; the uploads are read after it ...
EraseTakes ==
  /\ clearing.at = "reads"
  /\ clearing' = [clearing EXCEPT !.at = "taken",
                                  !.keys = Owned(clearing.by) \cup ({avatar[clearing.by]} \cap Keys)]
  /\ UNCHANGED <<avatar, here, upload, gc, stops, Files, LikeRows, ArtistRow>>

Discounted(k) == IF <<k, clearing.by>> \in clearing.likes THEN Less(count[k]) ELSE count[k]

\* ... and the rows that refer to the account go with it.
EraseRow ==
  LET u == clearing.by
      gone == Owned(u) IN
    /\ clearing.at = "taken"
    /\ here' = here \ {u} /\ avatar' = [avatar EXCEPT ![u] = "none"]
    /\ candidates' = candidates \ gone
    /\ earlier' = {e \in earlier : e[1] \notin gone /\ e[2] \notin gone}
    /\ owner' = [k \in Keys |-> IF k \in gone THEN "none" ELSE owner[k]]
    /\ count' = [k \in Keys |-> IF k \in gone THEN 0 ELSE Discounted(k)]
    /\ likes' = {l \in likes : l[2] # u /\ l[1] \notin gone}
    /\ miscounted' = miscounted \ gone
    /\ clearing' = [clearing EXCEPT !.at = "looks", !.likes = {}]
    /\ UNCHANGED <<upload, gc, stops, Files, ArtistRow>>

Referenced == ({avatar[u] : u \in Uploaders} \cup {image} \cup candidates) \cap Keys

\* unreferenced, then the worker deletes the files no row refers to.
ClearLook ==
  /\ clearing.at = "looks"
  /\ clearing' = [clearing EXCEPT !.at = "deletes", !.keys = clearing.keys \ Referenced]
  /\ UNCHANGED <<avatar, here, upload, gc, stops, Files, LikeRows, ArtistRow>>

ClearDelete ==
  /\ clearing.at = "deletes"
  /\ Delete(clearing.keys) /\ clearing' = NotClearing
  /\ UNCHANGED <<avatar, here, upload, gc, stops, LikeRows, ArtistRow>>

\* The worker stops during the erasure; after the row is gone, nobody looks for
\* the files.
EraseLost ==
  /\ clearing.at # "rest" /\ stops < MaxStops
  /\ stops' = stops + 1 /\ clearing' = NotClearing
  /\ UNCHANGED <<avatar, here, upload, gc, Files, LikeRows, ArtistRow>>

(* ---- worker uploads gc --delete. ---- *)

\* A day passes; a request doesn't last one.
Age(k) ==
  /\ k \in files \ old
  /\ \A r \in ImageRequests :
       upload[r].at \in {"avatar", "candidate", "unheard"} => upload[r].key # k
  /\ old' = old \cup {k}
  /\ UNCHANGED <<avatar, here, upload, files, used, unheard, LikeRows, ArtistRow, Sweeps>>

GcList ==
  /\ gc.at = "rest" /\ files # {}
  /\ gc' = [at |-> "listed", keys |-> files]
  /\ UNCHANGED <<avatar, here, upload, clearing, stops, Files, LikeRows, ArtistRow>>

\* Variant of Orphans: the age of a file isn't looked at.
OrphansOfAnyAge(listed) == listed \ Referenced

Orphans(listed) == (listed \cap old) \ Referenced

\* The references are read after the listing, then the orphans are deleted.
GcLook ==
  /\ gc.at = "listed"
  /\ gc' = [at |-> "deletes", keys |-> Orphans(gc.keys)]
  /\ UNCHANGED <<avatar, here, upload, clearing, stops, Files, LikeRows, ArtistRow>>

GcDelete ==
  /\ gc.at = "deletes"
  /\ Delete(gc.keys) /\ gc' = NotCollecting
  /\ UNCHANGED <<avatar, here, upload, clearing, stops, LikeRows, ArtistRow>>

ImagesBegin ==
  \/ \E r \in ImageRequests, u \in Uploaders :
       \/ Store(r, u, "avatar") \/ Store(r, u, "candidate") \/ SetLink(r, u)
       \/ \E k \in Keys : Vote(r, u, k)
  \/ \E u \in Uploaders : EraseReads(u) \/ \E k \in Keys : Unvote(u, k)
  \/ GcList

ImagesGoOn ==
  \/ \E r \in ImageRequests :
       \/ SetAvatar(r) \/ DeleteReplaced(r) \/ DeleteUnwritten(r) \/ Stop(r)
       \/ WriteUnheard(r) \/ DeleteUnheard(r)
       \/ AddCandidate(r) \/ ReadWinner(r) \/ Promote(r)
  \/ EraseTakes \/ EraseRow \/ ClearLook \/ ClearDelete \/ EraseLost
  \/ GcLook \/ GcDelete
  \/ Enrich
  \/ \E k \in Keys : Age(k)

ImagesNext ==
  \/ ImagesBegin /\ imageEvents < MaxImageEvents /\ imageEvents' = imageEvents + 1
  \/ ImagesGoOn /\ UNCHANGED imageEvents

ImagesSpec == ImagesInit /\ [][ImagesNext]_imagesVars

(* ---- Properties. ---- *)

Uploads == [at : {"rest", "avatar", "candidate", "unheard", "replaced", "promotes", "writes"},
            by : Uploaders \cup {"none"}, key : Keys \cup {"none"}]

\* Types.  The foreign keys hold; and what is stored was generated.
ImagesTypeOK ==
  /\ old \subseteq files /\ files \subseteq used /\ used \subseteq Keys
  /\ avatar \in [Uploaders -> used \cup {"none", "link"}]
  /\ candidates \subseteq used /\ earlier \subseteq candidates \X candidates
  /\ owner \in [Keys -> Uploaders \cup {"none"}] /\ \A k \in candidates : owner[k] \in here
  /\ likes \subseteq candidates \X here
  /\ count \in [Keys -> Nat]
  /\ image \in used \cup {"none", "provider"} /\ imageLocked \in BOOLEAN
  /\ here \subseteq Uploaders
  /\ upload \in [ImageRequests -> Uploads]
  /\ clearing \in [at : {"rest", "reads", "taken", "looks", "deletes"},
                   by : Uploaders \cup {"none"}, likes : SUBSET (Keys \X Uploaders),
                   keys : SUBSET Keys]
  /\ gc \in [at : {"rest", "listed", "deletes"}, keys : SUBSET Keys]
  /\ stops \in 0 .. MaxStops /\ imageEvents \in 0 .. MaxImageEvents
  /\ unheard \subseteq used /\ miscounted \subseteq candidates

\* A candidate's count is the number of accounts that like it, whatever votes,
\* withdrawals and erasures came in which order; but for likes that an account
\* gave or withdrew while delete_user_row erased it.
CountsAreLikes ==
  \A k \in candidates \ miscounted : count[k] = Cardinality({u \in Uploaders : <<k, u>> \in likes})

\* Whatever uploads, replacements, erasures and gc do beside each other, an
\* avatar and a candidate some row refers to keep their file.  The code doesn't
\* keep this where the answer to the commit that wrote the row was lost.
ReferencedAreStored ==
  \A k \in Keys \ unheard : (k \in candidates \/ \E u \in Uploaders : avatar[u] = k) => k \in files

\* Types; a candidate's count is the number of its likes; and an avatar or a
\* candidate that a row refers to keeps its file, beside replacements, erasures
\* and the collection of orphans (community.rs, uploads.rs).
ImagesHold == ImagesTypeOK /\ CountsAreLikes /\ ReferencedAreStored

\* The artist's image keeps its file (promotion reads the winner and writes it
\* later: the uploader may be erased in between).
ShownIsStored == image \in Keys => image \in files

\* The counts are the likes also after an account liked while it was erased.
EveryLikeCounted ==
  \A k \in candidates : count[k] = Cardinality({u \in Uploaders : <<k, u>> \in likes})
=============================================================================
