------------------------------ MODULE Labelling ------------------------------
(* The rules a user's plays are labelled and weighed by: duplicates, the    *)
(* listening-time budget with its sliding window, and the ranking weights   *)
(* with their daily caps, computed play by play as the code does, against   *)
(* what the rules promise. Times and lengths are in one unit; ratios and    *)
(* weights are thousandths.                                                 *)
EXTENDS Integers, Sequences, FiniteSets, FiniteSetsExt, SequencesExt

CONSTANTS
    Plays,           \* sequences of plays by time, see LabellingInit
    Known,           \* Known[t]: the lengths MusicBrainz and the catalog give
    Artist,          \* Artist[t]
    From,            \* the first instant labelled
    WINDOW, RATIO, SLACK,          \* the listening-time budget; RATIO >= 1000
    SCROBBLE_POINT_CAP, MIN_LISTEN, REPEAT, LISTEN_TOLERANCE,
    NO_DATA, NO_LISTENED, UNKNOWN_CLIENT, IMPORTED,
    TRACK_CAP, ARTIST_CAP,
    Clients          \* of verified, known, unknown, import: who sent the plays

FULL == 1000
Silent == -1         \* no listened time declared

VARIABLES
    plays,           \* plays[i]: track, at, reported (0 for none), listened
    client, young,   \* for all of them: who sent them, and a new account
    labels,          \* labels[i], of the plays at or after From, once labelled
    trimmed,         \* the same, from the lookback alone
    charged,         \* charged[i]: the time each play ended up occupying
    weights          \* weights[i], once weighed

labellingVars == <<plays, client, young, labels, trimmed, charged, weights>>

LabellingInit ==
    /\ plays \in Plays
    /\ client \in Clients /\ young \in BOOLEAN
    /\ labels = <<>> /\ trimmed = <<>> /\ charged = <<>> /\ weights = <<>>

-----------------------------------------------------------------------------
(* Lengths.                                                                 *)

Smaller(a, b) == IF a < b THEN a ELSE b
Larger(a, b) == IF a < b THEN b ELSE a

\* The longest known length is what a play may have taken, the shortest what
\* it took at least.
LengthsOf(p) == Known[p.track] \cup IF p.reported > 0 THEN {p.reported} ELSE {}
ScrobblePoint(length) == Smaller(length \div 2, SCROBBLE_POINT_CAP)

RepeatWindow(p) ==
    IF LengthsOf(p) = {} THEN MIN_LISTEN
    ELSE Smaller((Min(LengthsOf(p)) * REPEAT) \div 1000, SCROBBLE_POINT_CAP)

Occupancy(p) ==
    LET length == Max(LengthsOf(p))
        heard == IF p.listened = Silent THEN length
                 ELSE Smaller(Larger(p.listened, Smaller(MIN_LISTEN, length \div 2)), length)
    IN Smaller(heard, WINDOW)

Budget == (WINDOW * RATIO) \div 1000 + SLACK
\* Variant: the window alone.
LookbackOfWindow == WINDOW
Lookback == WINDOW + SCROBBLE_POINT_CAP

-----------------------------------------------------------------------------
(* classify: one pass with a load kept up to date. The pass carries the     *)
(* labels, the charges, the plays still in the window (head first), their   *)
(* load, the latest time of each track and the last play charged.           *)

NoPass(ps) == [label |-> <<>>, charge |-> [i \in DOMAIN ps |-> 0], inWindow |-> <<>>, load |-> 0,
               lastOf |-> [t \in DOMAIN Known |-> -1], previous |-> 0]

\* Plays leave the window at its head.
Slide(pass, ps, i) ==
    LET out == {j \in 1 .. Len(pass.inWindow) : ps[pass.inWindow[j]].at <= ps[i].at - WINDOW}
        gone == {pass.inWindow[j] : j \in out}
    IN [pass EXCEPT !.inWindow = SubSeq(@, Cardinality(out) + 1, Len(@)),
                    !.load = @ - MapThenSumSet(LAMBDA j : pass.charge[j], gone)]

\* The next play that is no duplicate may have cut the last one short.
CutShort(pass, ps, i) ==
    LET j == pass.previous
        cut == Larger(ps[i].at - ps[j].at, ScrobblePoint(Max(LengthsOf(ps[j]))))
        still == ps[j].at > ps[i].at - WINDOW
    IN IF j = 0 \/ cut >= pass.charge[j] THEN [pass EXCEPT !.previous = 0]
       ELSE [pass EXCEPT !.previous = 0, !.charge[j] = cut,
                         !.load = IF still THEN @ - (pass.charge[j] - cut) ELSE @]

Charge(pass, ps, i) ==
    LET load == pass.load + Occupancy(ps[i]) IN
    [pass EXCEPT !.charge[i] = Occupancy(ps[i]), !.inWindow = Append(@, i), !.load = load,
                 !.previous = i,
                 !.label = Append(@, IF load > Budget THEN "suspect" ELSE "counted")]

ClassifyNext(pass0, ps, i) ==
    LET p == ps[i]
        pass == Slide(pass0, ps, i)
        last == pass.lastOf[p.track]
        repeat == last # -1 /\ p.at - last < RepeatWindow(p)
        labelled ==
            IF repeat THEN [pass EXCEPT !.label = Append(@, "duplicate")]
            ELSE LET after == CutShort(pass, ps, i) IN
                 IF LengthsOf(p) = {} THEN [after EXCEPT !.label = Append(@, "no_data")]
                 ELSE Charge(after, ps, i)
    IN [labelled EXCEPT !.lastOf[p.track] = p.at]

Classify(ps) ==
    FoldLeft(LAMBDA pass, i : ClassifyNext(pass, ps, i), NoPass(ps), [i \in 1 .. Len(ps) |-> i])

Label ==
    /\ labels = <<>>
    /\ LET pass == Classify(plays) IN
       /\ labels' = SelectSeq([i \in 1 .. Len(plays) |-> <<i, pass.label[i]>>],
                              LAMBDA l : plays[l[1]].at >= From)
       /\ charged' = pass.charge
    /\ UNCHANGED <<plays, client, young, trimmed, weights>>

\* The worker loads the day and the lookback before it.
LabelTrimmed ==
    /\ labels # <<>> /\ trimmed = <<>>
    /\ LET first == Cardinality({i \in DOMAIN plays : plays[i].at <= From - Lookback})
           loaded == SubSeq(plays, first + 1, Len(plays))
           pass == Classify(loaded)
       IN trimmed' = SelectSeq([i \in 1 .. Len(loaded) |-> <<first + i, pass.label[i]>>],
                               LAMBDA l : plays[l[1]].at >= From)
    /\ UNCHANGED <<plays, client, young, labels, charged, weights>>

-----------------------------------------------------------------------------
(* weigh.                                                                   *)

\* What a play must declare: the scrobble point of its shortest plausible
\* length, where a client's own counts unless it is under half the others'.
ListenPoint(p) ==
    LET others == Known[p.track]
        own == IF p.reported > 0 /\ (others = {} \/ p.reported * 2 >= Max(others))
               THEN {p.reported} ELSE {}
        plausible == others \cup own
    IN IF plausible = {} THEN MIN_LISTEN ELSE ScrobblePoint(Min(plausible))

Times(a, b) == (a * b) \div FULL

BaseWeight(p, label) ==
    LET byLabel == CASE label = "counted" -> FULL [] label = "no_data" -> NO_DATA [] OTHER -> 0
        byListen == IF p.listened = Silent THEN NO_LISTENED
                    ELSE IF p.listened + LISTEN_TOLERANCE < ListenPoint(p) THEN 0 ELSE FULL
    IN IF client = "import" THEN Times(byLabel, IMPORTED)
       ELSE IF young THEN 0
       ELSE Times(Times(byLabel, byListen), IF client = "unknown" THEN UNKNOWN_CLIENT ELSE FULL)

\* Only plays that weigh count towards the caps, and the artist's only those
\* within the track's.
Capped(acc, l) ==
    LET p == plays[l[1]]
        base == BaseWeight(p, l[2])
        track == acc.track[p.track] + 1
        artist == acc.artist[Artist[p.track]] + 1
    IN IF base = 0 THEN [acc EXCEPT !.weight = Append(@, 0)]
       ELSE IF track > TRACK_CAP
            THEN [acc EXCEPT !.track[p.track] = track, !.weight = Append(@, 0)]
       ELSE [acc EXCEPT !.track[p.track] = track, !.artist[Artist[p.track]] = artist,
                        !.weight = Append(@, IF artist > ARTIST_CAP THEN 0 ELSE base)]

Weigh ==
    /\ labels # <<>> /\ weights = <<>>
    /\ weights' = FoldLeft(Capped, [weight |-> <<>>, track |-> [t \in DOMAIN Known |-> 0],
                                    artist |-> [t \in {Artist[u] : u \in DOMAIN Known} |-> 0]],
                           labels).weight
    /\ UNCHANGED <<plays, client, young, labels, trimmed, charged>>

LabellingNext == Label \/ LabelTrimmed \/ Weigh

LabellingSpec == LabellingInit /\ [][LabellingNext]_labellingVars

-----------------------------------------------------------------------------
LabelOf(i) == (CHOOSE l \in {labels[j] : j \in DOMAIN labels} : l[1] = i)[2]
Labelled == {labels[j][1] : j \in DOMAIN labels}

LabellingTypeOK ==
    /\ \A j \in DOMAIN labels : labels[j][2] \in {"counted", "suspect", "duplicate", "no_data"}
    /\ \A i \in DOMAIN charged : charged[i] \in 0 .. WINDOW
    /\ \A j \in DOMAIN weights : weights[j] \in 0 .. FULL

\* Nobody hears more than real time allows: whatever the plays are, those
\* counted in the window that ends at one of them fit the budget, with the
\* charges as they end up.
CountedFits ==
    \A i \in Labelled : LabelOf(i) = "counted" =>
        LET window == {j \in 1 .. i : plays[j].at > plays[i].at - WINDOW}
        IN MapThenSumSet(LAMBDA j : charged[j], window) <= Budget

\* Someone who hears one play after another, each to its end by any of the
\* lengths known, has them all counted.
HonestCounts ==
    (/\ \A i \in DOMAIN plays : LengthsOf(plays[i]) # {}
     /\ \A i \in 1 .. Len(plays) - 1 :
           plays[i + 1].at - plays[i].at >= Max(LengthsOf(plays[i])))
    => \A i \in Labelled : LabelOf(i) = "counted"

\* What was played before the lookback changes no label
\* (classification.rs, lookback).
LookbackIsEnough == trimmed # <<>> => trimmed = labels

\* A day's plays of a track weigh at most its cap, and an artist's theirs,
\* whatever the order in which they count and the factor of each.
DayIsCapped ==
    LET of(track) == {j \in DOMAIN weights : plays[labels[j][1]].track \in track}
        weight(js) == MapThenSumSet(LAMBDA j : weights[j], js)
    IN /\ \A t \in DOMAIN Known : weight(of({t})) <= TRACK_CAP * FULL
       /\ \A t \in DOMAIN Known :
             weight(of({u \in DOMAIN Known : Artist[u] = Artist[t]})) <= ARTIST_CAP * FULL

\* The four, as one invariant of the rules.
LabelsAreFair == CountedFits /\ HonestCounts /\ LookbackIsEnough /\ DayIsCapped
=============================================================================
