----------------------------- MODULE HistoryWalk -----------------------------
(* One account's Last.fm history and the walk that imports it: pages        *)
(* addressed by number from the newest play, cut into segments, while plays *)
(* come and go on Last.fm and the same listens are scrobbled live. Leases,  *)
(* crashes and checkpoints are ImportJobs's.                                *)
EXTENDS Integers, FiniteSets

CONSTANTS
    Tracks,             \* numbers
    Unnamed,            \* of these, tracks whose names Last.fm garbles
    PAGE_LIMIT,         \* plays of a page
    PAGES_PER_SEGMENT,
    ToInclusive,        \* whether Last.fm's `to` includes its second
    LIVE_OVERLAP,
    DUPLICATE_WINDOW,
    REIMPORT_OVERLAP,
    MaxTime,            \* bound: seconds
    MaxListens,         \* bound: listens
    MaxWalks,           \* bound: imports
    MaxShifted,         \* bound: plays that deletions moved behind the cursor
    FirstSecond,        \* where the clock starts
    Hearable            \* bound: the listens there can be, <<time, track>>

ASSUME WalkConstants ==
    /\ Tracks \subseteq Nat /\ IsFiniteSet(Tracks)
    /\ PAGE_LIMIT \in Nat \ {0} /\ PAGES_PER_SEGMENT \in Nat \ {0} /\ ToInclusive \in BOOLEAN
    /\ LIVE_OVERLAP \in Nat /\ REIMPORT_OVERLAP \in Nat
    /\ MaxTime \in Nat /\ FirstSecond \in 1 .. MaxTime /\ MaxWalks \in Nat
    /\ Hearable \subseteq (1 .. MaxTime) \X Tracks

VARIABLES
    second,             \* the time
    profile,            \* plays on Last.fm: <<time, track>>
    scrobbles,          \* stored: <<time, track, imported>>
    listens,            \* what was played: [at, track, stamp] (stamp: live, 0: not)
    scrobbling,         \* the live scrobble in progress
    walk,               \* the import in progress
    windowTo,           \* window_to of the last import done, 0: none
    walks,
    present,            \* history: plays on Last.fm when the walk began
    fetchedPlays,       \* history: plays the walk was given
    shifted,            \* history: plays a deletion moved behind the cursor
    afterwards          \* history: listens scrobbled live in or after a walk

walkVars == <<second, profile, scrobbles, listens, scrobbling, walk, windowTo, walks,
              present, fetchedPlays, shifted, afterwards>>

NoWalk == [at |-> "none", from |-> 0, to |-> 0, segmentTo |-> 0, page |-> 1, oldest |-> 0,
           plays |-> {}, stored |-> {}, more |-> FALSE]
NoLive == [at |-> "none", time |-> 0, track |-> 0]

WalkInit ==
    /\ second = FirstSecond
    /\ profile = {} /\ scrobbles = {} /\ listens = {}
    /\ scrobbling = NoLive /\ walk = NoWalk
    /\ windowTo = 0 /\ walks = 0
    /\ present = {} /\ fetchedPlays = {} /\ shifted = {} /\ afterwards = {}

Before(p, q) == p[1] < q[1] \/ (p[1] = q[1] /\ p[2] < q[2])
Apart(t, u) == IF t < u THEN u - t ELSE t - u
Earliest(times) == CHOOSE t \in times : \A u \in times : t <= u
AtOnce(plays) == IF plays = {} THEN 0 ELSE Earliest({p[1] : p \in plays})

-----------------------------------------------------------------------------
(* Last.fm.                                                                 *)

\* recent_tracks: the plays between from and to, and those of a page.
InRange(plays, from, to) ==
    {p \in plays : p[1] >= from /\ p[1] < (IF ToInclusive THEN to + 1 ELSE to)}
Newer(p, plays) == Cardinality({q \in plays : Before(p, q)})
PageOfPlays(plays, n) == {p \in plays : Newer(p, plays) \div PAGE_LIMIT = n - 1}
TotalPages(plays) == (Cardinality(plays) + PAGE_LIMIT - 1) \div PAGE_LIMIT

\* A listen, reported to Last.fm at once, late or never, and scrobbled live
\* or not; players stamp the start or the end of a play.
HearTrack(t, track) ==
    /\ Cardinality(listens) < MaxListens
    /\ t <= second
    /\ \A l \in listens : <<l.at, l.track>> # <<t, track>>
    /\ t > second - REIMPORT_OVERLAP
    /\ \E told \in BOOLEAN, stamp \in {0, t + LIVE_OVERLAP} :
          /\ told \/ stamp # 0
          /\ listens' = listens \cup {[at |-> t, track |-> track, stamp |-> stamp]}
          /\ profile' = IF told THEN profile \cup {<<t, track>>} ELSE profile
    /\ UNCHANGED <<second, scrobbles, scrobbling, walk, windowTo, walks,
                   present, fetchedPlays, shifted, afterwards>>

\* The user deletes a play on Last.fm: the older ones move up a place, and
\* the first of them may pass behind the cursor. (Between two fetches it is
\* the same when; without a walk it is as if the play was never there.)
DeletePlay(p) ==
    /\ p \in profile /\ walk.at = "fetch" /\ Cardinality(shifted) < MaxShifted
    /\ profile' = profile \ {p}
    /\ LET range == InRange(profile', walk.from, walk.segmentTo)
           behind == {q \in range : Newer(q, range) < (walk.page - 1) * PAGE_LIMIT} IN
       shifted' = shifted \cup (behind \ fetchedPlays)
    /\ UNCHANGED <<second, scrobbles, listens, scrobbling, walk, windowTo, walks,
                   present, fetchedPlays, afterwards>>

Tick ==
    /\ second < MaxTime
    /\ second' = second + 1
    /\ UNCHANGED <<profile, scrobbles, listens, scrobbling, walk, windowTo, walks,
                   present, fetchedPlays, shifted, afterwards>>

-----------------------------------------------------------------------------
(* Live scrobbles, one at a time: ingest_scrobble takes a lock of the user. *)

\* The duplicate check
CheckDuplicate(l) ==
    /\ scrobbling = NoLive
    /\ l \in listens /\ l.stamp # 0
    /\ ~\E s \in scrobbles : s[2] = l.track /\ Apart(s[1], l.stamp) < DUPLICATE_WINDOW
    /\ scrobbling' = [at |-> "insert", time |-> l.stamp, track |-> l.track]
    /\ afterwards' = IF walk.at # "none" \/ \E s \in scrobbles : s[3]
                     THEN afterwards \cup {l} ELSE afterwards
    /\ UNCHANGED <<second, profile, scrobbles, listens, walk, windowTo, walks,
                   present, fetchedPlays, shifted>>

InsertScrobble ==
    /\ scrobbling.at = "insert"
    /\ scrobbles' = scrobbles \cup {<<scrobbling.time, scrobbling.track, FALSE>>}
    /\ scrobbling' = NoLive
    /\ UNCHANGED <<second, profile, listens, walk, windowTo, walks,
                   present, fetchedPlays, shifted, afterwards>>

-----------------------------------------------------------------------------
(* The walk.                                                                *)

\* create and reimport_from: a margin before the window of the last import.
StartWalk(full) ==
    /\ walk = NoWalk /\ walks < MaxWalks
    /\ walks' = walks + 1
    /\ walk' = [NoWalk EXCEPT !.at = "fetch", !.to = second, !.segmentTo = second + 1,
                              !.from = IF full \/ windowTo < REIMPORT_OVERLAP THEN 0
                                       ELSE windowTo - REIMPORT_OVERLAP]
    /\ present' = profile
    /\ fetchedPlays' = {}
    /\ afterwards' = afterwards \cup (IF scrobbling.at = "none" THEN {} ELSE
                        {l \in listens : l.stamp = scrobbling.time /\ l.track = scrobbling.track})
    /\ UNCHANGED <<second, profile, scrobbles, listens, scrobbling, windowTo, shifted>>

\* Variant: a new segment starts at the oldest play, not above it.
AdvanceToOldest(w, page, pages) ==
    LET oldest == IF w.oldest = 0 THEN AtOnce(page)
                  ELSE IF page = {} THEN w.oldest ELSE Earliest({w.oldest, AtOnce(page)}) IN
    IF page = {} \/ w.page >= pages THEN [w EXCEPT !.more = FALSE]
    ELSE IF w.page >= PAGES_PER_SEGMENT
    THEN [w EXCEPT !.segmentTo = oldest, !.page = 1, !.oldest = 0, !.more = TRUE]
    ELSE [w EXCEPT !.page = @ + 1, !.oldest = oldest, !.more = TRUE]

\* Cursor::advance: the cursor after a page, and whether the walk goes on; the
\* page answered is taken to be the one asked for.
AdvanceCursor(w, page, pages) ==
    LET oldest == IF w.oldest = 0 THEN AtOnce(page)
                  ELSE IF page = {} THEN w.oldest ELSE Earliest({w.oldest, AtOnce(page)}) IN
    IF page = {} \/ w.page >= pages THEN [w EXCEPT !.more = FALSE]
    ELSE IF w.page >= PAGES_PER_SEGMENT /\ oldest + 1 < w.segmentTo
    THEN [w EXCEPT !.segmentTo = oldest + 1, !.page = 1, !.oldest = 0, !.more = TRUE]
    ELSE [w EXCEPT !.page = @ + 1, !.oldest = oldest, !.more = TRUE]

\* fetch_pages: a page is kept if it is of the window and can be named.
OfWindow(w, p) == p[1] <= w.to /\ (w.from = 0 \/ p[1] > w.from) /\ p[2] \notin Unnamed

FetchPage ==
    /\ walk.at = "fetch"
    /\ LET range == InRange(profile, walk.from, walk.segmentTo)
           page == PageOfPlays(range, walk.page) IN
       /\ walk' = [AdvanceCursor(walk, page, TotalPages(range)) EXCEPT
                     !.at = "read", !.plays = {p \in page : OfWindow(walk, p)}]
       /\ fetchedPlays' = fetchedPlays \cup page
    /\ UNCHANGED <<second, profile, scrobbles, listens, scrobbling, windowTo, walks,
                   present, shifted, afterwards>>

\* insert_plays: the stored plays around the page, read in a transaction
\* that takes no lock a live scrobble takes,
StoredAround(plays, overlap) ==
    {s \in scrobbles : /\ \E p \in plays : s[1] >= p[1] - overlap
                       /\ \E p \in plays : s[1] <= p[1] + overlap}

ReadStored ==
    /\ walk.at = "read"
    /\ walk' = [walk EXCEPT !.at = "insert", !.stored = StoredAround(walk.plays, LIVE_OVERLAP)]
    /\ UNCHANGED <<second, profile, scrobbles, listens, scrobbling, windowTo, walks,
                   present, fetchedPlays, shifted, afterwards>>

\* new_plays: in order of time, a play is dropped if it was imported, or if
\* a live scrobble of the track is near, the nearest, each good for one play
\* of the page. Rows equally near are in any order.
Near(used, p, stored) ==
    {s \in stored \ used : ~s[3] /\ s[2] = p[2] /\ Apart(s[1], p[1]) <= LIVE_OVERLAP}
NoScrobble == <<0, 0, TRUE>>
Imported(p) == <<p[1], p[2], TRUE>>
Match(taken, p, stored) ==
    LET near == Near({taken[q] : q \in {q \in DOMAIN taken : Before(q, p)}}, p, stored) IN
    IF Imported(p) \in stored \/ near = {} THEN taken[p] = NoScrobble
    ELSE taken[p] \in {s \in near : \A u \in near : Apart(s[1], p[1]) <= Apart(u[1], p[1])}
NewPlays(plays, stored) ==
    {{p \in plays : taken[p] = NoScrobble /\ Imported(p) \notin stored} :
        taken \in {t \in [plays -> stored \cup {NoScrobble}] :
                      \A p \in plays : Match(t, p, stored)}}

\* and the insert of record_page, with the cursor; finish after the last.
RecordPage ==
    /\ walk.at = "insert"
    /\ \E fresh \in NewPlays(walk.plays, walk.stored) :
          scrobbles' = scrobbles \cup {Imported(p) : p \in fresh}
    /\ walk' = [walk EXCEPT !.at = IF walk.more THEN "fetch" ELSE "finish",
                            !.plays = {}, !.stored = {}, !.more = FALSE]
    /\ UNCHANGED <<second, profile, listens, scrobbling, windowTo, walks,
                   present, fetchedPlays, shifted, afterwards>>

FinishWalk ==
    /\ walk.at = "finish"
    /\ windowTo' = IF walk.to > windowTo THEN walk.to ELSE windowTo
    /\ walk' = NoWalk
    /\ UNCHANGED <<second, profile, scrobbles, listens, scrobbling, walks,
                   present, fetchedPlays, shifted, afterwards>>

\* Cancelled, or failed for good.
AbandonWalk ==
    /\ walk.at # "none"
    /\ walk' = NoWalk
    /\ UNCHANGED <<second, profile, scrobbles, listens, scrobbling, windowTo, walks,
                   present, fetchedPlays, shifted, afterwards>>

WalkNext ==
    \/ \E p \in Hearable : HearTrack(p[1], p[2])
    \/ \E p \in profile : DeletePlay(p)
    \/ \E l \in listens : CheckDuplicate(l)
    \/ Tick \/ InsertScrobble
    \/ \E full \in BOOLEAN : StartWalk(full)
    \/ FetchPage \/ ReadStored \/ RecordPage \/ FinishWalk \/ AbandonWalk

WalkSpec == WalkInit /\ [][WalkNext]_walkVars

-----------------------------------------------------------------------------
PlaySet == (1..MaxTime) \X Tracks
RowSet == (1..(MaxTime + LIVE_OVERLAP)) \X Tracks \X BOOLEAN

WalkTypeOK ==
    /\ second \in FirstSecond..MaxTime
    /\ profile \subseteq PlaySet
    /\ scrobbles \subseteq RowSet
    /\ listens \subseteq [at : 1..MaxTime, track : Tracks, stamp : 0..(MaxTime + LIVE_OVERLAP)]
    /\ scrobbling.at \in {"none", "insert"}
    /\ walk.at \in {"none", "fetch", "read", "insert", "finish"}
    /\ walk.plays \subseteq PlaySet /\ walk.stored \subseteq RowSet
    /\ windowTo \in 0..MaxTime /\ walks \in 0..MaxWalks
    /\ present \subseteq PlaySet /\ fetchedPlays \subseteq PlaySet /\ shifted \subseteq PlaySet
    /\ afterwards \subseteq listens

\* When an import is done, every play that was on Last.fm when it began and
\* still is, up to the window's end, has been stored by this or an earlier
\* import, or was taken for a live scrobble of the track nearby. Pages that
\* overlap, segments that restart, plays of one second and re-imports that
\* start a margin back leave none out, except one that a deletion on Last.fm
\* moved behind the cursor. About Cursor::advance, fetch_pages and
\* reimport_from.
EveryPlayStored ==
    walk.at = "finish" =>
        \A p \in (present \cap profile) \ shifted : p[1] <= walk.to /\ p[2] \notin Unnamed =>
            \/ Imported(p) \in scrobbles
            \/ \E s \in scrobbles : ~s[3] /\ s[2] = p[2] /\ Apart(s[1], p[1]) <= LIVE_OVERLAP

\* A listen scrobbled live before the import is not stored a second time
\* under the time Last.fm has of it, unless the track was repeated so soon
\* that its plays and scrobbles can be paired in more than one way. About
\* insert_plays and new_plays.
NoListenTwice ==
    \A l \in listens \ afterwards :
        ~(/\ <<l.stamp, l.track, FALSE>> \in scrobbles
          /\ <<l.at, l.track, TRUE>> \in scrobbles
          /\ \A k \in listens : k # l /\ k.track = l.track =>
                Apart(k.at, l.at) > 2 * LIVE_OVERLAP)
=============================================================================
