-------------------------------- MODULE Paging --------------------------------
(* A reader walking a list page by page while the list changes: the lists   *)
(* paged by a keyset cursor, the feed's growing windows, recent scrobbles    *)
(* paged by time, and the numbered pages of the Last.fm protocol.            *)
EXTENDS Integers, FiniteSets, FiniteSetsExt

CONSTANTS
    Moments,         \* times of entries
    EntryIds,
    PagedLists,      \* of loves, tags, blocks, follows, feed, recent, numbered, numbered loves
    PAGE,            \* entries a page holds
    FEED_FLOOR,      \* the feed's oldest moment
    FIRST_WINDOW, GROWTH,
    RECENT_WINDOW,
    MaxEntries, MaxListChanges

ASSUME PagingConstants ==
    /\ Moments \subseteq Nat /\ Moments # {} /\ IsFiniteSet(Moments)
    /\ EntryIds \subseteq Nat \ {0} /\ IsFiniteSet(EntryIds)
    /\ PAGE \in Nat \ {0}
    /\ {FEED_FLOOR, FIRST_WINDOW, GROWTH, RECENT_WINDOW} \subseteq Nat

VARIABLES
    list,            \* the list this reader walks
    entries,         \* its entries the reader may see
    walk,            \* the walk: kept, the entries it found and that have
                     \* stayed; crowded, moments several entries shared
    page,            \* a page read in several statements
    listChanges

pagingVars == <<list, entries, walk, page, listChanges>>

Entries == [at : Moments, id : EntryIds]
Start == [at |-> Max(Moments) + 1, id |-> 0]

Newer(e, f) == e.at > f.at \/ (e.at = f.at /\ e.id > f.id)

Crowded(es) == {m \in Moments : Cardinality({e \in es : e.at = m}) > 1}

PagingInit ==
    /\ list \in PagedLists
    /\ entries \in {es \in SUBSET Entries : Cardinality(es) <= MaxEntries}
    /\ walk = [at |-> "page", before |-> Start, number |-> 0, seen |-> {}, twice |-> {},
               kept |-> entries, grew |-> FALSE, shrank |-> FALSE, crowded |-> Crowded(entries)]
    /\ page = [at |-> "none"]
    /\ listChanges = 0

-----------------------------------------------------------------------------
\* A love, tag, block, follow or play made, taken back, hidden (its account
\* private, blocking or leaving; a play flagged) or shown again; plays
\* arrive late, and what is dated when its transaction began may be too.
ListChanges ==
    /\ listChanges < MaxListChanges /\ walk.at # "ended"
    /\ listChanges' = listChanges + 1
    /\ \E e \in Entries :
          \/ /\ e \notin entries /\ Cardinality(entries) < MaxEntries
             /\ entries' = entries \cup {e}
             /\ walk' = [walk EXCEPT !.grew = TRUE, !.crowded = @ \cup Crowded(entries \cup {e})]
          \/ /\ e \in entries
             /\ entries' = entries \ {e}
             /\ walk' = [walk EXCEPT !.kept = @ \ {e}, !.shrank = TRUE]
    /\ UNCHANGED <<list, page>>

-----------------------------------------------------------------------------
\* Variant: a cursor of times alone.
BelowTime(es, cursor) == {e \in es : e.at < cursor.at}

\* The entries a cursor's page starts below.
Below(es, cursor) == {e \in es : Newer(cursor, e)}

NewestOf(es, n) == {e \in es : Cardinality({f \in es : Newer(f, e)}) < n}

LastOf(es) == CHOOSE e \in es : \A f \in es : f = e \/ Newer(f, e)

\* What the reader gets, and where it asks for more: not at all after the
\* list's last page.
See(shown, more, fields) ==
    /\ walk' = [at |-> IF more THEN "page" ELSE "ended", before |-> fields.before,
                number |-> fields.number, seen |-> walk.seen \cup shown,
                twice |-> walk.twice \cup (walk.seen \cap shown), kept |-> walk.kept,
                grew |-> walk.grew, shrank |-> walk.shrank, crowded |-> walk.crowded]
    /\ page' = [at |-> "none"]
    /\ UNCHANGED <<list, entries, listChanges>>

ReadOn(fields) ==
    /\ page' = fields
    /\ UNCHANGED <<list, entries, walk, listChanges>>

AsksFor(l) == list = l /\ walk.at = "page" /\ page.at = "none"

\* One entry more than the page holds is read: there being one is what
\* makes a next page.
CursorPage ==
    LET rows == NewestOf(Below(entries, walk.before), PAGE + 1)
        more == Cardinality(rows) > PAGE
        shown == IF more THEN NewestOf(rows, PAGE) ELSE rows
    IN See(shown, more, [walk EXCEPT !.before = IF more THEN LastOf(shown) ELSE Start])

LovedPage == AsksFor("loves") /\ CursorPage
MyTags == AsksFor("tags") /\ CursorPage
ListBlocks == AsksFor("blocks") /\ CursorPage
ListFollows == AsksFor("follows") /\ CursorPage

-----------------------------------------------------------------------------
(* The feed: the accounts are read once a page, then windows back in time,  *)
(* each a statement of its own, until the page is full or the floor.        *)

BeginFeedPage ==
    /\ AsksFor("feed")
    /\ ReadOn([at |-> "windows", found |-> {}, upper |-> walk.before, window |-> FIRST_WINDOW,
               latest |-> Max({0} \cup {e.at : e \in entries})])

FeedWindow ==
    LET lower == Max({page.upper.at - page.window, FEED_FLOOR})
        wanted == PAGE - Cardinality(page.found)
        read == NewestOf({e \in Below(entries, page.upper) : e.at >= lower}, wanted)
        found == page.found \cup (IF page.latest >= lower THEN read ELSE {})
    IN /\ page.at = "windows"
       /\ IF page.upper.at <= FEED_FLOOR
          THEN See(page.found, FALSE, walk)
          ELSE IF Cardinality(found) = PAGE
          THEN See(found, TRUE, [walk EXCEPT !.before = LastOf(found)])
          ELSE ReadOn([page EXCEPT !.found = found, !.upper = [at |-> lower, id |-> 0],
                                   !.window = @ * GROWTH])

-----------------------------------------------------------------------------
(* Recent scrobbles: no play is later than the account's latest, read with  *)
(* it; the recent window first, older plays only for what is missing.       *)

\* The newest by time, entries of one moment in whatever order.
AnyNewest(es, n) ==
    {s \in SUBSET es : /\ Cardinality(s) = Min({n, Cardinality(es)})
                       /\ \A e \in s, f \in es \ s : e.at >= f.at}

GetRecentScrobbles ==
    LET latest == Max({0} \cup {e.at : e \in entries}) IN
    /\ AsksFor("recent")
    /\ ReadOn([at |-> "window", found |-> {}, cutoff |-> Min({walk.before.at, latest + 1})])

RecentBetween ==
    LET from == page.cutoff - RECENT_WINDOW
        between == {e \in entries : e.at < page.cutoff
                                    /\ (IF page.at = "window" THEN e.at >= from ELSE e.at < from)}
    IN /\ page.at \in {"window", "rest"}
       /\ \E s \in AnyNewest(between, PAGE - Cardinality(page.found)) :
             LET shown == page.found \cup s IN
             IF page.at = "window" /\ Cardinality(shown) < PAGE
             THEN ReadOn([page EXCEPT !.at = "rest", !.found = shown])
             ELSE See(shown, Cardinality(shown) = PAGE,
                      [walk EXCEPT !.before = [at |-> Min({e.at : e \in shown} \cup {page.cutoff}),
                                               id |-> 0]])

\* Numbered pages: what comes after the entries of the pages before.
NumberedPage ==
    LET from == PAGE * walk.number
        shown == NewestOf(entries, from + PAGE) \ NewestOf(entries, from)
    IN See(shown, Cardinality(shown) = PAGE, [walk EXCEPT !.number = @ + 1])

RecentScrobblesPage == AsksFor("numbered") /\ NumberedPage
LovesPageAt == AsksFor("numbered loves") /\ NumberedPage

PagingNext ==
    \/ ListChanges
    \/ LovedPage \/ MyTags \/ ListBlocks \/ ListFollows
    \/ BeginFeedPage \/ FeedWindow
    \/ GetRecentScrobbles \/ RecentBetween
    \/ RecentScrobblesPage \/ LovesPageAt

PagingSpec == PagingInit /\ [][PagingNext]_pagingVars

-----------------------------------------------------------------------------
\* A walk to the end shows every entry that was there all along, once,
\* whatever came and went meanwhile. Pages by time skip only plays sharing a
\* moment with another, the feed only plays at the very floor; numbered pages
\* skip only when entries before them went, and repeat only when some came.
WalkSeesAll ==
    walk.at = "ended" =>
        /\ list \in {"loves", "tags", "blocks", "follows", "recent"} => walk.twice = {}
        /\ list \in {"loves", "tags", "blocks", "follows"} => walk.kept \subseteq walk.seen
        /\ list = "feed" => /\ {e \in walk.kept : e.at > FEED_FLOOR} \subseteq walk.seen
                            /\ walk.twice = {}
        /\ list = "recent" => {e \in walk.kept : e.at \notin walk.crowded} \subseteq walk.seen
        /\ list \in {"numbered", "numbered loves"} =>
              /\ ~walk.shrank => walk.kept \subseteq walk.seen
              /\ ~walk.grew => walk.twice = {}

\* What "before takes the played_at of the last scrobble seen" promises
\* (docs/api/introduction.md).
RecentSeesAll == walk.at = "ended" /\ list = "recent" => walk.kept \subseteq walk.seen
=============================================================================
