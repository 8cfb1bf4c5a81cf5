------------------------------- MODULE Catalog -------------------------------
(* Artists, albums and tracks found or created by name: live submissions, a  *)
(* statement at a time, and pages of Last.fm imports, one transaction each,  *)
(* waiting on one another's uncommitted rows.                                *)
EXTENDS Integers, Sequences, FiniteSets, SequencesExt

CONSTANTS
    LiveWriters, PageWriters,
    Submissions,     \* [artist, album, track, length, hint, featured]: "" for none
    PagePlays,       \* PagePlays[i]: the page's plays, in its order
    MaxCrashes

ASSUME CatalogConstants ==
    /\ \A s \in Submissions : s.artist # ""
    /\ \A i \in PageWriters : DOMAIN PagePlays[i] \subseteq Nat /\ IsFiniteSet(DOMAIN PagePlays[i])
    /\ MaxCrashes \in Nat

VARIABLES
    rows,            \* rows[key]: what is committed under a key
    tx,              \* tx[i]: a page's transaction: its uncommitted rows
    live,            \* live[w]: a submission's progress
    credits,         \* pairs: track key, artist
    requeued,        \* requeued[key]: times a hint queued the track again
    crashes,
    uncredited       \* tracks whose writer died before crediting them

catalogVars == <<rows, tx, live, credits, requeued, crashes, uncredited>>

ArtistKey(a) == <<"artist", a>>
AlbumKey(a, t) == <<"album", a, t>>
TrackKey(a, t) == <<"track", a, t>>
IsTrack(k) == k[1] = "track"

NewRow(album, length, hint) ==
    [album |-> album, length |-> length, hint |-> hint, mbid |-> FALSE, enriched |-> FALSE]

NoTx == [at |-> "none"]

CatalogInit ==
    /\ rows = <<>> /\ credits = {} /\ requeued = <<>> /\ uncredited = {}
    /\ tx = [i \in PageWriters |-> NoTx]
    /\ live = [w \in LiveWriters |-> [at |-> "idle"]]
    /\ crashes = 0

\* Rows inserted or updated by a page and not committed: others wait.
HeldBy(i) == IF tx[i].at \in {"none", "over"} THEN {} ELSE DOMAIN tx[i].rows
Held(k) == \E i \in PageWriters : k \in HeldBy(i)

Stored(rs) == [k \in DOMAIN rs \cup DOMAIN rows |-> IF k \in DOMAIN rs THEN rs[k] ELSE rows[k]]

-----------------------------------------------------------------------------
(* Live submissions.                                                        *)

SubmissionKey(s, step) ==
    CASE step = "artist" -> ArtistKey(s.artist)
      [] step = "album" -> AlbumKey(s.artist, s.album)
      [] step = "track" -> TrackKey(s.artist, s.track)
      [] step = "featured" -> ArtistKey(s.featured)

Inserting(step) ==
    CASE step = "artist" -> "insert artist" [] step = "album" -> "insert album"
      [] step = "track" -> "insert track" [] step = "featured" -> "insert featured"

\* What resolve does after each of its steps, skipping what was not sent.
StepAfter(s, step) ==
    CASE step = "artist" -> IF s.album = "" THEN "track" ELSE "album"
      [] step = "album" -> "track"
      [] step \in {"track", "gain"} ->
                          IF s.hint = "" THEN (IF s.featured = "" THEN "credits" ELSE "featured")
                          ELSE "hint"
      [] step = "hint" -> IF s.featured = "" THEN "credits" ELSE "featured"
      [] step = "featured" -> "credits"

Advance(w, fields) ==
    /\ live' = [live EXCEPT ![w] = fields]
    /\ UNCHANGED <<tx, crashes, uncredited>>

Resolve(w) ==
    /\ live[w].at = "idle"
    /\ \E s \in Submissions :
          Advance(w, [at |-> "artist", s |-> s, pass |-> 1, created |-> FALSE])
    /\ UNCHANGED <<rows, credits, requeued>>

First(old, new) == IF old = "" THEN new ELSE old
Gained(row, album, length, hint) ==
    [row EXCEPT !.album = First(row.album, album), !.length = First(row.length, length),
                !.hint = First(row.hint, hint)]

\* A track that was there, as it was read, and what the submission knows of it
Gains(row, s) == Gained(row, s.album, s.length, "") # row

\* The statement's snapshot: what was committed when it began. A track of which
\* the submission knows no more is not written to.
Lookup(w) ==
    LET l == live[w]
        k == SubmissionKey(l.s, l.at)
    IN /\ l.at \in {"artist", "album", "track", "featured"}
       /\ IF k \in DOMAIN rows
          THEN Advance(w, [l EXCEPT !.at = IF l.at = "track" /\ Gains(rows[k], l.s) THEN "gain"
                                           ELSE StepAfter(l.s, l.at),
                                    !.pass = 1])
          ELSE Advance(w, [l EXCEPT !.at = Inserting(l.at)])
       /\ UNCHANGED <<rows, credits, requeued>>

\* Variant: giving up when another's insert came first.
NoSecondPass(pass) == "not found"

\* An insert that found the key taken meanwhile returns nothing; the second
\* pass sees it.
AfterConflict(pass) == IF pass = 1 THEN "again" ELSE "not found"

Insert(w, step, row) ==
    LET l == live[w]
        k == SubmissionKey(l.s, step)
    IN /\ l.at = Inserting(step) /\ ~Held(k)
       /\ IF k \in DOMAIN rows
          THEN /\ Advance(w, [l EXCEPT !.at = IF AfterConflict(l.pass) = "again" THEN step
                                              ELSE "not found",
                                       !.pass = @ + 1])
               /\ UNCHANGED rows
          ELSE /\ rows' = Stored([x \in {k} |-> row])
               /\ Advance(w, [l EXCEPT !.at = StepAfter(l.s, step), !.pass = 1,
                                       !.created = step = "track" \/ @])
       /\ UNCHANGED <<credits, requeued>>

FindOrCreateArtist(w) == Insert(w, "artist", NewRow("", "", ""))
FeaturedArtist(w) == Insert(w, "featured", NewRow("", "", ""))
FindOrCreateAlbum(w) == Insert(w, "album", NewRow("", "", ""))
FindOrCreateTrack(w) ==
    live[w].at # "idle" /\ Insert(w, "track", NewRow(live[w].s.album, live[w].s.length, ""))

\* An existing track gains only what it lacks.
Gain(w) ==
    LET l == live[w]
        k == TrackKey(l.s.artist, l.s.track)
    IN /\ l.at = "gain" /\ ~Held(k)
       /\ rows' = [rows EXCEPT ![k] = Gained(@, l.s.album, l.s.length, "")]
       /\ Advance(w, [l EXCEPT !.at = StepAfter(l.s, "gain")])
       /\ UNCHANGED <<credits, requeued>>

MayHint(row, hint) == ~row.mbid /\ row.hint = ""

RecordMbidHint(w) ==
    LET l == live[w]
        k == TrackKey(l.s.artist, l.s.track)
        takes == MayHint(rows[k], l.s.hint)
    IN /\ l.at = "hint" /\ ~Held(k)
       /\ rows' = IF takes THEN [rows EXCEPT ![k] = Gained(@, "", "", l.s.hint)] ELSE rows
       /\ requeued' = IF takes /\ rows[k].enriched
                      THEN [x \in DOMAIN requeued \cup {k} |->
                              IF x # k THEN requeued[x]
                              ELSE IF k \in DOMAIN requeued THEN requeued[k] + 1 ELSE 1]
                      ELSE requeued
       /\ Advance(w, [l EXCEPT !.at = StepAfter(l.s, "hint")])
       /\ UNCHANGED credits

RecordTrackCredits(w) ==
    LET l == live[w]
        k == TrackKey(l.s.artist, l.s.track)
    IN /\ l.at = "credits"
       /\ credits' = credits \cup ({k} \X ({l.s.artist, l.s.featured} \ {""}))
       /\ live' = [live EXCEPT ![w] = [at |-> "done"]]
       /\ uncredited' = uncredited \ {k}
       /\ UNCHANGED <<rows, tx, requeued, crashes>>

\* The process dies, or a statement fails: the submission is answered as
\* failed, what it committed stays.
LiveCrash(w) ==
    LET l == live[w] IN
    /\ crashes < MaxCrashes /\ crashes' = crashes + 1
    /\ l.at \notin {"idle", "done", "not found"}
    /\ live' = [live EXCEPT ![w] = [at |-> "done"]]
    /\ uncredited' = IF l.created THEN uncredited \cup {TrackKey(l.s.artist, l.s.track)}
                     ELSE uncredited
    /\ UNCHANGED <<rows, tx, credits, requeued>>

\* Enrichment decides a track: a match, or none.
MatchTrack(k) ==
    /\ k \in DOMAIN rows /\ IsTrack(k) /\ ~Held(k) /\ ~rows[k].enriched
    /\ \E matched \in BOOLEAN :
          rows' = [rows EXCEPT ![k].enriched = TRUE, ![k].mbid = matched]
    /\ UNCHANGED <<tx, live, credits, requeued, crashes, uncredited>>

-----------------------------------------------------------------------------
(* A page of an import.                                                     *)

PageKey(p, kind) ==
    CASE kind = "artists" -> ArtistKey(p.artist)
      [] kind = "albums" -> AlbumKey(p.artist, p.album)
      [] kind = "tracks" -> TrackKey(p.artist, p.track)

\* The plays that name a key no play before them names.
FirstPlays(i, kind) ==
    LET named == {n \in DOMAIN PagePlays[i] : kind = "albums" => PagePlays[i][n].album # ""}
        key(n) == PageKey(PagePlays[i][n], kind)
    IN {n \in named : \A m \in named : m < n => key(m) # key(n)}

\* Distinct keys in page order, the first spelling standing.
NthKey(i, kind, nth) ==
    LET firsts == FirstPlays(i, kind)
        place(n) == Cardinality({m \in firsts : m <= n})
    IN PageKey(PagePlays[i][CHOOSE n \in firsts : place(n) = nth], kind)
Wanted(i, kind) == [nth \in 1 .. Cardinality(FirstPlays(i, kind)) |-> NthKey(i, kind, nth)]

PlayOf(i, k, kind) ==
    PagePlays[i][CHOOSE n \in FirstPlays(i, kind) : PageKey(PagePlays[i][n], kind) = k]

RowOf(i, k, kind) ==
    IF kind = "tracks" THEN LET p == PlayOf(i, k, kind) IN NewRow(p.album, "", p.hint)
    ELSE NewRow("", "", "")

Page(i, fields) ==
    /\ tx' = [tx EXCEPT ![i] = fields]
    /\ UNCHANGED <<live, crashes, uncredited>>

\* A statement begins: its snapshot, and its rows in page order.
UpsertKind(i, t, kind, pass) ==
    [t EXCEPT !.at = kind, !.next = 1, !.pass = pass, !.sees = DOMAIN rows \cup DOMAIN t.rows]

BeginPage(i) ==
    /\ tx[i].at = "none"
    /\ Page(i, UpsertKind(i, [at |-> "", next |-> 1, pass |-> 1, sees |-> {}, rows |-> <<>>,
                              found |-> {}, created |-> {}], "artists", 1))
    /\ UNCHANGED <<rows, credits, requeued>>

\* One row of the statement: waiting for whoever inserted it and has not
\* committed; nothing if it is there.
UpsertRow(i, kind) ==
    LET t == tx[i]
        k == Wanted(i, kind)[t.next]
        taken == k \in DOMAIN rows \cup DOMAIN t.rows
    IN /\ t.at = kind /\ t.next <= Len(Wanted(i, kind))
       /\ \A j \in PageWriters \ {i} : k \notin HeldBy(j)
       /\ Page(i, IF taken THEN [t EXCEPT !.next = @ + 1]
                  ELSE [t EXCEPT !.next = @ + 1,
                                 !.rows = [x \in DOMAIN @ \cup {k} |->
                                             IF x = k THEN RowOf(i, k, kind) ELSE @[x]],
                                 !.found = @ \cup {k},
                                 !.created = @ \cup {k}])
       /\ UNCHANGED <<rows, credits, requeued>>

KindAfter(kind) == CASE kind = "artists" -> "albums" [] kind = "albums" -> "tracks"
                     [] kind = "tracks" -> "gains"

\* What it inserted and what its snapshot held; a second pass for the rest.
UpsertDone(i, kind) ==
    LET t == tx[i]
        found == t.found \cup t.sees
        all == \A n \in DOMAIN Wanted(i, kind) : Wanted(i, kind)[n] \in found
    IN /\ t.at = kind /\ t.next > Len(Wanted(i, kind))
       /\ Page(i, IF all THEN UpsertKind(i, [t EXCEPT !.found = found], KindAfter(kind), 1)
                  ELSE IF AfterConflict(t.pass) = "again"
                  THEN UpsertKind(i, [t EXCEPT !.found = found], kind, 2)
                  ELSE [t EXCEPT !.at = "not found", !.rows = <<>>])
       /\ UNCHANGED <<rows, credits, requeued>>

UpsertArtists(i) == UpsertRow(i, "artists") \/ UpsertDone(i, "artists")
UpsertAlbums(i) == UpsertRow(i, "albums") \/ UpsertDone(i, "albums")
UpsertTracks(i) == UpsertRow(i, "tracks") \/ UpsertDone(i, "tracks")

\* The tracks that were there gain what they lack; their rows are locked.
PageGains(i) ==
    LET t == tx[i]
        now == Stored(t.rows)
        ks == ToSet(Wanted(i, "tracks"))
        gained(k) == LET p == PlayOf(i, k, "tracks") IN
                     Gained(now[k], p.album, "", IF now[k].mbid THEN "" ELSE p.hint)
        changed == {k \in ks : gained(k) # now[k]}
    IN /\ t.at = "gains"
       /\ \A k \in changed, j \in PageWriters \ {i} : k \notin HeldBy(j)
       /\ Page(i, [t EXCEPT !.at = "commit",
                            !.rows = [k \in DOMAIN @ \cup changed |->
                                        IF k \in changed THEN gained(k) ELSE @[k]]])
       /\ UNCHANGED <<rows, credits, requeued>>

\* The credits of the tracks it created, and everything at once.
CommitPage(i) ==
    LET t == tx[i] IN
    /\ t.at = "commit"
    /\ rows' = Stored(t.rows)
    /\ credits' = credits \cup {<<k, k[2]>> : k \in {c \in t.created : IsTrack(c)}}
    /\ Page(i, [t EXCEPT !.at = "over", !.rows = <<>>])
    /\ UNCHANGED requeued

\* The page's transaction ends otherwise; it may be tried again.
AbortPage(i) ==
    /\ crashes < MaxCrashes /\ crashes' = crashes + 1
    /\ tx[i].at \notin {"none", "over", "not found"}
    /\ tx' = [tx EXCEPT ![i] = NoTx]
    /\ UNCHANGED <<rows, live, credits, requeued, uncredited>>

CatalogNext ==
    \/ \E w \in LiveWriters :
          \/ Resolve(w) \/ Lookup(w)
          \/ FindOrCreateArtist(w) \/ FindOrCreateAlbum(w) \/ FindOrCreateTrack(w)
          \/ FeaturedArtist(w) \/ Gain(w) \/ RecordMbidHint(w) \/ RecordTrackCredits(w)
          \/ LiveCrash(w)
    \/ \E k \in DOMAIN rows : MatchTrack(k)
    \/ \E i \in PageWriters :
          \/ BeginPage(i)
          \/ UpsertArtists(i) \/ UpsertAlbums(i) \/ UpsertTracks(i)
          \/ PageGains(i) \/ CommitPage(i) \/ AbortPage(i)

CatalogSpec == CatalogInit /\ [][CatalogNext]_catalogVars

-----------------------------------------------------------------------------
\* Two passes are enough: nobody fails for a name another is creating
\* (tracks.rs, "the second one sees it"; imports.rs, upsert_artists).
TwoPassesSuffice ==
    /\ \A w \in LiveWriters : live[w].at # "not found"
    /\ \A i \in PageWriters : tx[i].at # "not found"

\* A track goes back in the enrichment queue for a hint once, whoever sends
\* what (tracks.rs, "so a client can't make it look up a new id every
\* scrobble").
RequeuedOnce == \A k \in DOMAIN requeued : requeued[k] <= 1

\* A track is credited to its artist once those at work on it are done,
\* unless the writer that created it died.
TracksCredited ==
    \A k \in {x \in DOMAIN rows : IsTrack(x)} :
        \/ <<k, k[2]>> \in credits
        \/ k \in uncredited
        \/ \E w \in LiveWriters : live[w].at \notin {"idle", "done"}
                                  /\ TrackKey(live[w].s.artist, live[w].s.track) = k

NamesHold == TwoPassesSuffice /\ RequeuedOnce /\ TracksCredited

\* A step: what is known of a track is never overwritten, by whichever of two
\* writers comes second (tracks.rs, find_or_create_track).
FirstStands ==
    \A k \in DOMAIN rows :
        /\ k \in DOMAIN rows'
        /\ rows[k].album # "" => rows'[k].album = rows[k].album
        /\ rows[k].length # "" => rows'[k].length = rows[k].length
        /\ rows[k].hint # "" => rows'[k].hint = rows[k].hint

\* No two pages wait for each other (imports.rs, tally: "sorted so concurrent
\* batches lock rows in the same order").
Waits(i, j) ==
    /\ i # j
    /\ \E kind \in {"artists", "albums", "tracks"} :
          /\ tx[i].at = kind /\ tx[i].next <= Len(Wanted(i, kind))
          /\ Wanted(i, kind)[tx[i].next] \in HeldBy(j)
PagesDoNotDeadlock == \A i, j \in PageWriters : ~(Waits(i, j) /\ Waits(j, i))
=============================================================================
