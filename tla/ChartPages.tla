------------------------------ MODULE ChartPages ------------------------------
(* A user's own charts: the version the response carries, read before the   *)
(* page; pages kept under that version; and the two sources a page is       *)
(* counted from, the daily aggregates and the classifier's flags.           *)
EXTENDS Integers, FiniteSets, FiniteSetsExt

CONSTANTS
    Listens,         \* the user's listens that may be scrobbled
    ChartKinds,      \* of artists, tracks, albums: whose charts are asked for
    TrackOf,         \* TrackOf[l]
    ArtistOf, AlbumOf,  \* of a track; 0 for one the catalog files under no album
    Late,            \* those dated on a day the aggregates already cover
    Ranges,          \* the ranges asked for
    Covers,          \* Covers[range]: the listens on its days
    ChartLabels,     \* of counted, suspect, no_data, duplicate
    ChartRequests,
    PER_HOUR, PERSONAL_CACHE,  \* in ticks
    MaxTicks, MaxRelabels

ASSUME ChartConstants ==
    /\ IsFiniteSet(Listens)
    /\ ChartKinds \subseteq {"artists", "tracks", "albums"}
    /\ ChartLabels \subseteq {"counted", "suspect", "no_data", "duplicate"}

VARIABLES
    label,           \* label[l]: "none" until scrobbled, "pending" until classified
    aggregated,      \* the late listens the aggregates hold
    tick,
    pages,           \* pages[<<chart, tag>>]: the page kept, and until when
    charting,        \* charting[r]: a client's chart, and its request's progress
    repeated,        \* the listens that were ever labelled duplicates
    relabels

chartVars == <<label, aggregated, tick, pages, charting, repeated, relabels>>

Scrobbled == {l \in Listens : label[l] # "none"}

\* 0 for a track under no album.
EntityOf(kind, l) == CASE kind = "artists" -> ArtistOf[TrackOf[l]]
                       [] kind = "tracks" -> TrackOf[l]
                       [] kind = "albums" -> AlbumOf[TrackOf[l]]
ChartedEntities(kind) == {EntityOf(kind, l) : l \in Listens} \ {0}

ChartPagesInit ==
    /\ label = [l \in Listens |-> "none"]
    /\ aggregated = {} /\ repeated = {}
    /\ tick = 0 /\ relabels = 0
    /\ pages = <<>>
    /\ \E charts \in [ChartRequests -> ChartKinds \X Ranges] :
          charting = [r \in ChartRequests |-> [at |-> "idle", chart |-> charts[r]]]

-----------------------------------------------------------------------------
(* The listens, their labels and the aggregates.                            *)

ScrobbleListen(l) ==
    /\ label[l] = "none"
    /\ label' = [label EXCEPT ![l] = "pending"]
    /\ UNCHANGED <<aggregated, tick, pages, charting, repeated, relabels>>

\* Classifying a day rewrites all its labels in one transaction.
Relabelled ==
    /\ relabels < MaxRelabels /\ Scrobbled # {}
    /\ \E new \in [Scrobbled -> ChartLabels] :
          /\ label' = [l \in Listens |-> IF l \in Scrobbled THEN new[l] ELSE "none"]
          /\ repeated' = repeated \cup {l \in Scrobbled : new[l] = "duplicate"}
    /\ relabels' = relabels + 1
    /\ UNCHANGED <<aggregated, tick, pages, charting>>

\* An hourly refresh of the aggregates, or an import's: the days before today.
RefreshAggregates ==
    /\ aggregated' = Late \cap Scrobbled
    /\ UNCHANGED <<label, tick, pages, charting, repeated, relabels>>

Kept(ps, t) == [k \in {j \in DOMAIN ps : ps[j].until > t} |-> ps[k]]

PassTime ==
    /\ tick < MaxTicks
    /\ tick' = tick + 1
    /\ pages' = Kept(pages, tick + 1)
    /\ UNCHANGED <<label, aggregated, charting, repeated, relabels>>

-----------------------------------------------------------------------------
(* What a request reads.                                                    *)

\* Variant: a tag of what was classified alone.
TagOfVerified ==
    [verified |-> Cardinality({l \in Scrobbled : label[l] = "counted"}),
     hour |-> tick \div PER_HOUR]

\* scrobble_breakdown's counts and the hour.
PersonalTag ==
    [breakdown |-> [s \in ChartLabels \cup {"pending"} |->
                       Cardinality({l \in Scrobbled : label[l] = s})],
     hour |-> tick \div PER_HOUR]

\* Plays are the aggregates' (today's read raw), less the duplicates flagged,
\* whether the aggregates hold those yet or not.
Charted(kind, range) ==
    LET of(e) == {l \in Covers[range] \cap Scrobbled : EntityOf(kind, l) = e}
        plays(e) == Cardinality({l \in of(e) : l \in Late => l \in aggregated})
        flagged(e, ss) == Cardinality({l \in of(e) : label[l] \in ss})
        charted == {e \in ChartedEntities(kind) : plays(e) > flagged(e, {"duplicate"})}
    IN [e \in charted |-> [plays |-> plays(e) - flagged(e, {"duplicate"}),
                           unverified |-> flagged(e, {"suspect", "no_data"})]]

UserArtists(range) == Charted("artists", range)
UserTracks(range) == Charted("tracks", range)
UserAlbums(range) == Charted("albums", range)

ChartOf(chart) ==
    CASE chart[1] = "artists" -> UserArtists(chart[2])
      [] chart[1] = "tracks" -> UserTracks(chart[2])
      [] chart[1] = "albums" -> UserAlbums(chart[2])

Move(r, fields) == charting' = [charting EXCEPT ![r] = fields]

\* The version is read before the page; a request naming the version it has
\* is told nothing changed.
ReadBreakdown(r) ==
    /\ charting[r].at \in {"idle", "answered"}
    /\ Move(r, [at |-> "tagged", chart |-> charting[r].chart,
                had |-> Scrobbled \ Late, tag |-> PersonalTag])
    /\ UNCHANGED <<label, aggregated, tick, pages, repeated, relabels>>

\* A page kept for the version is shown; Redis failing costs the computation.
ReadKept(r) ==
    LET q == charting[r]
        key == <<q.chart, q.tag>>
        answer == IF key \in DOMAIN pages
                  THEN [at |-> "answered", chart |-> q.chart, had |-> q.had, tag |-> q.tag,
                        page |-> pages[key].page]
                  ELSE [q EXCEPT !.at = "missed"]
    IN /\ q.at = "tagged"
       /\ \/ Move(r, answer)
          \/ Move(r, [q EXCEPT !.at = "missed"])
       /\ UNCHANGED <<label, aggregated, tick, pages, repeated, relabels>>

ComputePage(r) ==
    LET q == charting[r] IN
    /\ q.at = "missed"
    /\ Move(r, [at |-> "computed", chart |-> q.chart, had |-> q.had, tag |-> q.tag,
                page |-> ChartOf(q.chart)])
    /\ UNCHANGED <<label, aggregated, tick, pages, repeated, relabels>>

KeepPage(r) ==
    LET q == charting[r]
        key == <<q.chart, q.tag>>
    IN
    /\ q.at = "computed"
    /\ Move(r, [q EXCEPT !.at = "answered"])
    /\ \/ pages' = [k \in DOMAIN pages \cup {key} |->
                       IF k = key THEN [page |-> q.page, until |-> tick + PERSONAL_CACHE]
                       ELSE pages[k]]
       \/ UNCHANGED pages
    /\ UNCHANGED <<label, aggregated, tick, repeated, relabels>>

ChartPagesNext ==
    \/ \E l \in Listens : ScrobbleListen(l)
    \/ Relabelled
    \/ RefreshAggregates
    \/ PassTime
    \/ \E r \in ChartRequests :
          \/ ReadBreakdown(r) \/ ReadKept(r)
          \/ ComputePage(r) \/ KeepPage(r)

ChartPagesSpec == ChartPagesInit /\ [][ChartPagesNext]_chartVars

-----------------------------------------------------------------------------
\* A chart shows every play of today made before the request read its
\* version, whatever kept page it is answered with, except those that were
\* called duplicates (charts.rs, "The server keeps a page it computed until the
\* user's next play").
PlaysShow ==
    \A r \in ChartRequests : charting[r].at = "answered" =>
        LET q == charting[r]
            of(e, ls) == Cardinality({l \in ls \cap Covers[q.chart[2]] :
                                        EntityOf(q.chart[1], l) = e})
            shown(e) == IF e \in DOMAIN q.page THEN q.page[e].plays ELSE 0
        IN \A e \in ChartedEntities(q.chart[1]) : shown(e) + of(e, repeated) >= of(e, q.had)
=============================================================================
