------------------------------- MODULE MCPlays -------------------------------
(* What becomes of plays, each component on its own: they share no state      *)
(* that these models keep, so a behaviour is one component's, chosen when it  *)
(* begins.  Those it instantiates hold 0 otherwise, and those it extends      *)
(* a first state.                                                             *)
EXTENDS Enrichment, Taste, KeptPages, Intake, Attribution, TLC

CONSTANTS w1, w2   \* model values

VARIABLES
    part,      \* the component that moves
    \* Labelling
    plays, client, young, labels, trimmed, charged, weights,
    \* Detection
    input, todo, best, home, verdict

\* Listens that may be of two tracks at once and of one whose names are lost.
ThreeListens == {<<2, 1>>, <<2, 2>>, <<3, 3>>}

\* Two recordings: a lookup of either may be answered with the other, and either
\* may be another track's match; one catalog row.
EqualLengths == [r \in {w1, w2} |-> 2]
OneRedirect == {<<w1, w2>>, <<w2, w1>>}
OneEach == {{e} : e \in Entities}

PlaysSymmetry == Permutations({w1, w2})

\* A user's two listens, of two tracks by one artist, the second on no album.
TwoTracks == <<1, 2>>
OneArtist == <<9, 9>>
OneAlbum == <<5, 0>>
Week == [range \in {"7d"} |-> {1, 2}]
Undecided == album = NoAlbum /\ account = [u \in Voters |-> "counts"]
OnlyTracks == \A r \in ChartRequests : charting[r].chart[1] = "tracks"

\* A play whose client told no listened seconds (Labelling).
Silent == -1

\* Two clients tell different things of one track, and a page brings it too.
TwoSubmissions ==
    {[artist |-> "a", album |-> "", track |-> "t", length |-> "3:00", hint |-> "h", featured |-> "b"],
     [artist |-> "a", album |-> "x", track |-> "t", length |-> "", hint |-> "g", featured |-> ""]}
OnePage ==
    [i \in {"i"} |-> <<[artist |-> "a", album |-> "y", track |-> "t", hint |-> ""],
                       [artist |-> "b", album |-> "", track |-> "u", hint |-> "k"]>>]

\* Up to three plays in time, of three tracks, around the day's first instant.
Listened ==
    {[track |-> 1, reported |-> 0, listened |-> h] : h \in {Silent, 2}}
    \cup {[track |-> 2, reported |-> 4, listened |-> Silent],
          [track |-> 3, reported |-> 0, listened |-> Silent]}
Histories(n) ==
    {s \in [1 .. n -> Listened \X {1, 5, 7, 11, 12, 14, 17}] :
        \A i \in 1 .. (n - 1) : s[i][2] <= s[i + 1][2]}
ShortHistories ==
    {[i \in DOMAIN s |-> [track |-> s[i][1].track, at |-> s[i][2],
                          reported |-> s[i][1].reported, listened |-> s[i][1].listened]] :
        s \in Histories(1) \cup Histories(2) \cup Histories(3)}

\* Twenty accounts, six of them suspect: registered together, from one address
\* or network, playing together, with a rare client, on the same few artists,
\* or not; in two groups, and another of other accounts.
Accounts == 1 .. 20
SixOf == 1 .. 6
Crowd(aged, address, network, together, rare, keen) ==
    [registered |-> [u \in Accounts |-> IF u <= aged THEN 3 ELSE 10 + 2 * u],
     origin |-> [u \in Accounts |-> {[address |-> IF u <= address THEN 1 ELSE u,
                                      network |-> IF u <= network THEN 1 ELSE u]}],
     share |-> [u \in Accounts |-> IF keen THEN 900 ELSE 300],
     members |-> <<SixOf, SixOf \cup {7}, 5 .. 12>>,
     new |-> [g \in 1 .. 3 |-> IF keen THEN SixOf ELSE {}],
     plays |-> {[user |-> u, track |-> 1, of |-> {1, 2}, client |-> IF rare THEN 1 ELSE 2,
                 at |-> d * 100 + (IF together THEN 0 ELSE 6 * u)] : u \in SixOf, d \in 0 .. 1}
               \cup {[user |-> u, track |-> 2, of |-> {3}, client |-> 2, at |-> 6 * u] :
                       u \in 7 .. 20}]
Crowds ==
    {Crowd(n, o[1], o[2], together, rare, keen) :
        n \in {0, 3, 6}, o \in {<<1, 1>>, <<3, 3>>, <<1, 6>>, <<6, 6>>},
        together \in BOOLEAN, rare \in BOOLEAN, keen \in BOOLEAN}

La == INSTANCE Labelling WITH
    Plays <- ShortHistories, Known <- <<{10}, {9}, {}>>, Artist <- <<1, 1, 2>>, From <- 12,
    WINDOW <- 6, RATIO <- 1500, SLACK <- 0, SCROBBLE_POINT_CAP <- 5, MIN_LISTEN <- 1,
    REPEAT <- 900, LISTEN_TOLERANCE <- 1, NO_DATA <- 500, NO_LISTENED <- 250,
    UNKNOWN_CLIENT <- 500, IMPORTED <- 0, TRACK_CAP <- 1, ARTIST_CAP <- 1,
    Clients <- {"known"}

De == INSTANCE Detection WITH
    Inputs <- Crowds, FactorFrom <- 400, FactorTo <- 900, MinAccounts <- 10,
    MinCohort <- 2, MinZ <- 1, AgeDays <- 3, SyncDays <- 2, SyncSecs <- 2,
    ContextSecs <- 40, SyncRatio <- 10, DayLength <- 100, RareClient <- 20,
    ShapeFrom <- 450, ShapeTo <- 850

labellingVars == <<plays, client, young, labels, trimmed, charged, weights>>
detectionVars == <<input, todo, best, home, verdict>>

-----------------------------------------------------------------------------
\* What a component that does not move holds.
NoLabelling ==
    plays = 0 /\ client = 0 /\ young = 0 /\ labels = 0 /\ trimmed = 0 /\ charged = 0 /\
    weights = 0
NoDetection ==
    input = 0 /\ todo = 0 /\ best = 0 /\ home = 0 /\ verdict = 0

Parts == {"walk", "polls", "catalog", "enrichment", "albums", "labelling", "detection", "coordination", "taste", "recommendations", "charts", "community"}

playsInit ==
    /\ part \in Parts
    /\ WalkInit
    /\ PollInit
    /\ CatalogInit
    /\ EnrichInit /\ (part # "enrichment" => catalog = {"artist"})
    /\ AlbumInit /\ (part # "albums" => Undecided)
    /\ IF part = "labelling" THEN La!LabellingInit ELSE NoLabelling
    /\ IF part = "detection" THEN De!DetectionInit ELSE NoDetection
    /\ CoordinationInit /\ (part # "coordination" => setup = "off")
    /\ TasteInit
    /\ PageInit
    /\ ChartPagesInit /\ (part # "charts" => OnlyTracks)
    /\ CommunityChartsInit /\ (part # "community" => follows = {})

playsNext ==
    /\ UNCHANGED part
    /\ part # "walk" => UNCHANGED walkVars
    /\ part # "polls" => UNCHANGED pollVars
    /\ part # "catalog" => UNCHANGED catalogVars
    /\ part # "enrichment" => UNCHANGED enrichVars
    /\ part # "albums" => UNCHANGED albumVars
    /\ part # "labelling" => UNCHANGED labellingVars
    /\ part # "detection" => UNCHANGED detectionVars
    /\ part # "coordination" => UNCHANGED coordinationVars
    /\ part # "taste" => UNCHANGED tasteVars
    /\ part # "recommendations" => UNCHANGED pageVars
    /\ part # "charts" => UNCHANGED chartVars
    /\ part # "community" => UNCHANGED communityVars
    /\ \/ part = "walk" /\ WalkNext
       \/ part = "polls" /\ PollNext
       \/ part = "catalog" /\ CatalogNext
       \/ part = "enrichment" /\ EnrichNext
       \/ part = "albums" /\ AlbumNext
       \/ part = "labelling" /\ La!LabellingNext
       \/ part = "detection" /\ De!DetectionNext
       \/ part = "coordination" /\ CoordinationNext
       \/ part = "taste" /\ TasteNext
       \/ part = "recommendations" /\ PageNext
       \/ part = "charts" /\ ChartPagesNext
       \/ part = "community" /\ CommunityChartsNext

playsVars == <<part, walkVars, pollVars, catalogVars, enrichVars, albumVars, labellingVars,
      detectionVars, coordinationVars, tasteVars, pageVars, chartVars, communityVars>>

playsSpec == playsInit /\ [][playsNext]_playsVars

-----------------------------------------------------------------------------

\* Types; the labels of a day allow nobody more than real time and keep the
\* honest listener whole, and detection takes no honest account's voice
\* (shared/classification.rs, shared/ranking.rs, shared/coordination.rs).
FairWeights ==
    /\ part = "labelling" => La!LabellingTypeOK /\ La!LabelsAreFair
    /\ part = "detection" => De!DetectionTypeOK /\ De!HonestKeepTheirVoice
=============================================================================
