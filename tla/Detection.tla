----------------------------- MODULE Detection ------------------------------
(* Cross-account coordination, the detection of one run: what the accounts  *)
(* that weighed something for an artist or track share beyond chance, the   *)
(* suspicion and the factor of each, and the cohorts they are shown in.     *)
(* Shares, purities and factors are thousandths.                            *)
EXTENDS Integers, FiniteSets, FiniteSetsExt

CONSTANTS
    Inputs,         \* what a load may return, see DetectionInit
    FactorFrom, FactorTo,
    MinAccounts, MinCohort, MinZ,
    AgeDays,        \* width of a registration cohort
    SyncDays,       \* days with crowds that make lockstep
    SyncSecs, ContextSecs, SyncRatio, DayLength,
    RareClient,
    ShapeFrom, ShapeTo

Full == 1000
MinValueMembers == 3
MinCrowd == 3
HomeStep == 50
Primary == {"age", "origin", "client", "sync"}
Signals == Primary \cup {"shape", "burst"}
SignalWeight(s) ==
    CASE s \in {"age", "origin", "sync"} -> 500 [] s = "client" -> 350 [] OTHER -> 125

VARIABLES
    input,   \* registered, origin (a set of 0 or 1), share on the top three
             \* artists, per account; members and new ones per group; plays
    todo,    \* the groups not examined yet, in their order
    best,    \* best[u]: its highest suspicion so far, and where
    home,    \* home[u]: the group of its strongest primary evidence
    verdict  \* the detection, when all groups are examined

detectionVars == <<input, todo, best, home, verdict>>

Nowhere == [raw |-> 0, suspicion |-> -1, size |-> 0, group |-> 0, evidence |-> [s \in Signals |-> 0]]
NoHome == [step |-> -1, size |-> 0, group |-> 0]
NoVerdict == [factor |-> <<>>, cohort |-> <<>>, score |-> <<>>]

Everyone == DOMAIN input.registered
Members(g) == input.members[g]

DetectionInit ==
    /\ input \in Inputs
    /\ todo = DOMAIN input.members
    /\ best = [u \in Everyone |-> Nowhere]
    /\ home = [u \in Everyone |-> NoHome]
    /\ verdict = NoVerdict

-----------------------------------------------------------------------------
(* Chance. *)

\* An excess over expected / scale: enough accounts, and enough deviations.
Significant(observed, expected, scale) ==
    LET excess == observed * scale - expected IN
    /\ excess >= MinCohort * scale
    /\ excess * excess >= MinZ * MinZ * Max({expected, scale}) * scale

\* a / b in thousandths, rounded, without leaving 32 bits
InThousandths(a, b) ==
    LET digit(rest) == (rest * 10) \div b
        d1 == a % b
        d2 == (d1 * 10) % b
        d3 == (d2 * 10) % b
        d4 == (d3 * 10) % b
    IN (a \div b) * 1000 + digit(d1) * 100 + digit(d2) * 10 + digit(d3)
       + (IF 2 * d4 >= b THEN 1 ELSE 0)

WaysToPick(n, k) ==
    LET c[i \in 0 .. k] == IF i = 0 THEN 1 ELSE (c[i - 1] * (n - i + 1)) \div i IN c[k]

\* How many of the `held` holders n of total accounts draw by chance, given
\* that they drew at least MinValueMembers (binomial).
ExpectedGivenShared(held, n, total) ==
    IF held <= MinValueMembers \/ n >= total THEN held * Full
    ELSE IF n <= 0 THEN MinValueMembers * Full
    ELSE LET common == Max({d \in 1 .. n : n % d = 0 /\ total % d = 0})
             way(k) == WaysToPick(held, k) * (n \div common) ^ k
                       * ((total - n) \div common) ^ (held - k)
             beyond(k) == (k - MinValueMembers) * way(k)
             counts == MinValueMembers .. held
         IN MinValueMembers * Full
            + InThousandths(MapThenSumSet(beyond, counts), MapThenSumSet(way, counts))

-----------------------------------------------------------------------------
(* The signals in a group. Each is a set of pairs <<account, strength>>.    *)

Registered(from, accounts) ==
    {u \in accounts : input.registered[u] \in from .. from + AgeDays - 1}

AgeExcess(from, group) ==
    Cardinality(Registered(from, group)) * Cardinality(Everyone)
    - Cardinality(group) * Cardinality(Registered(from, Everyone))

\* Registration windows, the largest excess first, while it is significant,
\* that do not overlap one taken before; ties go to the earliest.
RECURSIVE TakeWindows(_, _)
TakeWindows(group, taken) ==
    LET total == Cardinality(Everyone)
        free == {f \in {input.registered[u] : u \in group} :
                    /\ \A t \in taken : f + AgeDays <= t \/ t + AgeDays <= f
                    /\ Significant(Cardinality(Registered(f, group)),
                                   Cardinality(group) * Cardinality(Registered(f, Everyone)),
                                   total)}
        first == CHOOSE f \in free : \A o \in free \ {f} :
                    \/ AgeExcess(f, group) > AgeExcess(o, group)
                    \/ AgeExcess(f, group) = AgeExcess(o, group) /\ f < o
    IN IF free = {} THEN taken ELSE TakeWindows(group, taken \cup {first})

AgeCells(group) ==
    UNION {LET inside == Registered(f, group) IN
           {<<u, (AgeExcess(f, group) * Full) \div (Cardinality(inside) * Cardinality(Everyone))>> :
               u \in inside} : f \in TakeWindows(group, {})}

\* Values at least MinValueMembers of the group hold, more than chance
\* explains. value: the holders' values; count[v]: the population's holders.
ValueCells(value, count, n, total) ==
    LET holders(v) == {u \in DOMAIN value : value[u] = v}
        observed(v) == Cardinality(holders(v))
        expected(v) == ExpectedGivenShared(Max({count[v], observed(v)}), Min({n, total}), total)
        cells == {v \in {value[u] : u \in DOMAIN value} :
                    observed(v) >= MinValueMembers /\ observed(v) * Full > expected(v)}
        all == MapThenSumSet(observed, cells)
        chance == MapThenSumSet(expected, cells)
        purity(v) == ((observed(v) * Full - expected(v)) * Full) \div (observed(v) * Full)
    IN IF total = 0 \/ ~Significant(all, chance, Full)
       THEN [members |-> {}, excess |-> 0]
       ELSE [members |-> UNION {{<<u, purity(v)>> : u \in holders(v)} : v \in cells},
             excess |-> all * Full - chance]

WithOrigin(accounts) == {u \in accounts : input.origin[u] # {}}
Origin(u) == CHOOSE o \in input.origin[u] : TRUE

\* The address or the network, whichever explains more.
OriginCells(group) ==
    LET with == WithOrigin(group)
        everyone == WithOrigin(Everyone)
        cells(field) ==
            LET values == {Origin(u)[field] : u \in everyone}
                count == [v \in values |-> Cardinality({u \in everyone : Origin(u)[field] = v})]
            IN
            ValueCells([u \in with |-> Origin(u)[field]], count, Cardinality(with),
                       Cardinality(everyone))
        address == cells("address")
        network == cells("network")
    IN IF network.excess > address.excess THEN network.members ELSE address.members

PlaysOf(g) == {p \in input.plays : g \in p.of /\ p.user \in Members(g)}

\* mark_crowds: enough others around the play, and many more than the hour
\* around it explains.
Around(p, radius) ==
    {q.user : q \in {q \in input.plays : q.track = p.track /\ q.at \in p.at - radius .. p.at + radius}}
    \ {p.user}
InCrowd(p) ==
    LET others == Cardinality(Around(p, SyncSecs)) IN
    /\ others >= MinCrowd
    /\ others * ContextSecs >= SyncRatio * Cardinality(Around(p, ContextSecs)) * SyncSecs

CrowdDays(g, u) == {p.at \div DayLength : p \in {p \in PlaysOf(g) : p.user = u /\ InCrowd(p)}}

SyncCells(g) ==
    LET days(u) == Cardinality(CrowdDays(g, u))
        lockstep == {u \in Members(g) : days(u) >= SyncDays}
    IN IF Cardinality(lockstep) < MinCohort THEN {}
       ELSE {<<u, Min({Full, (days(u) * Full) \div (2 * SyncDays)})>> : u \in lockstep}

\* A client the members use most and hardly any other account uses.
ClientCells(g) ==
    LET used(u, c) == Cardinality({p \in PlaysOf(g) : p.user = u /\ p.client = c})
        clients == {p.client : p \in input.plays} \ {0}
        with == {u \in Members(g) : \E c \in clients : used(u, c) > 0}
        dominant == [u \in with |-> CHOOSE c \in clients : \A d \in clients \ {c} :
                        used(u, c) > used(u, d) \/ (used(u, c) = used(u, d) /\ c < d)]
        readers == Cardinality({p.user : p \in input.plays})
        users == [c \in clients |->
                     Cardinality({p.user : p \in {p \in input.plays : p.client = c}})]
        held(c) == Cardinality({u \in with : dominant[u] = c})
        outside == Max({1, readers - Cardinality(with)})
        rare == {c \in clients :
                    held(c) > 0 /\ Max({0, users[c] - held(c)}) * Full <= RareClient * outside}
        onRare == [u \in {u \in with : dominant[u] \in rare} |-> dominant[u]]
    IN ValueCells(onRare, users, Cardinality(with), readers).members

\* Listening concentrated on three artists.
Shape(u) ==
    Max({0, Min({Full, ((input.share[u] - ShapeFrom) * Full) \div (ShapeTo - ShapeFrom)})})

NewShare(g) ==
    (Cardinality(input.new[g] \cap Members(g)) * Full) \div Cardinality(Members(g))

\* evaluate(..)
Evaluate(g) ==
    LET of(cells, u) == Max({0} \cup {e[2] : e \in {e \in cells : e[1] = u}})
        age == AgeCells(Members(g))
        origin == OriginCells(Members(g))
        client == ClientCells(g)
        sync == SyncCells(g)
    IN [u \in Members(g) |->
          [s \in Signals |->
             CASE s = "age" -> of(age, u)
               [] s = "origin" -> of(origin, u)
               [] s = "client" -> of(client, u)
               [] s = "sync" -> of(sync, u)
               [] s = "shape" -> Shape(u)
               [] s = "burst" -> IF u \in input.new[g] THEN NewShare(g) ELSE 0]]

-----------------------------------------------------------------------------
(* Suspicion, factor, cohorts. *)

Weighted(evidence, signals) ==
    LET part(s) == SignalWeight(s) * evidence[s] IN MapThenSumSet(part, signals) \div Full

\* A smoothstep from 1 at FactorFrom to 0 at FactorTo.
Factor(suspicion) ==
    LET t == ((suspicion - FactorFrom) * Full) \div (FactorTo - FactorFrom) IN
    IF suspicion <= FactorFrom THEN Full
    ELSE IF suspicion >= FactorTo THEN 0
    ELSE Full - ((t * t * (3 * Full - 2 * t)) \div (Full * Full))

\* Best::beats, else what was best stays: the highest suspicion, the evidence
\* uncapped and then the size of the group breaking ties.
BestOf(old, new) ==
    IF \/ new.suspicion > old.suspicion
       \/ new.suspicion = old.suspicion /\ new.raw > old.raw
       \/ new.suspicion = old.suspicion /\ new.raw = old.raw /\ new.size > old.size
    THEN new ELSE old

HomeOf(old, new) ==
    IF new.step > old.step \/ (new.step = old.step /\ new.size > old.size) THEN new ELSE old

TooSmall == Cardinality(Everyone) < MinAccounts

\* The next group, large enough to examine or passed over.
ExamineGroup ==
    LET g == Min(todo)
        size == Cardinality(Members(g))
    IN
    /\ todo # {} /\ ~TooSmall
    /\ todo' = todo \ {g}
    /\ IF size < MinCohort THEN UNCHANGED <<best, home>>
       ELSE \E evidence \in {Evaluate(g)} :
            /\ best' = [u \in Everyone |->
                  IF u \notin Members(g) THEN best[u]
                  ELSE LET raw == Weighted(evidence[u], Signals) IN
                       BestOf(best[u], [raw |-> raw, suspicion |-> Min({raw, Full}),
                                        size |-> size, group |-> g,
                                        evidence |-> evidence[u]])]
            /\ home' = [u \in Everyone |->
                  IF u \notin Members(g) THEN home[u]
                  ELSE LET primary == Weighted(evidence[u], Primary) IN
                       IF primary = 0 THEN home[u]
                       ELSE HomeOf(home[u], [step |-> primary \div HomeStep, size |-> size,
                                             group |-> g])]
    /\ UNCHANGED <<input, verdict>>

Flagged == {u \in Everyone : best[u].group # 0 /\ Factor(best[u].suspicion) < Full}
CohortOf(u) == IF home[u].group = 0 THEN best[u].group ELSE home[u].group

\* The flagged accounts by the group they meet in, with the cohort's mean.
GatherCohorts ==
    LET gathered(g) == {u \in Flagged : CohortOf(u) = g}
        suspicion(u) == best[u].suspicion
    IN
    /\ todo = {} /\ verdict = NoVerdict
    /\ Flagged # {}
    /\ verdict' = [factor |-> [u \in Flagged |-> Factor(best[u].suspicion)],
                   cohort |-> [u \in Flagged |-> CohortOf(u)],
                   score |-> [g \in {CohortOf(u) : u \in Flagged} |->
                                 MapThenSumSet(suspicion, gathered(g))
                                 \div Cardinality(gathered(g))]]
    /\ UNCHANGED <<input, todo, best, home>>

DetectionNext == ExamineGroup \/ GatherCohorts

DetectionSpec == DetectionInit /\ [][DetectionNext]_detectionVars

-----------------------------------------------------------------------------
DetectionTypeOK ==
    /\ todo \subseteq DOMAIN input.members
    /\ \A u \in Everyone :
          /\ best[u].suspicion \in -1 .. Full
          /\ \A s \in Signals : best[u].evidence[s] \in 0 .. Full
    /\ \A u \in DOMAIN verdict.factor : verdict.factor[u] \in 0 .. Full - 1

Traits(u, g) == {s \in Primary : Evaluate(g)[u][s] > 0}
SharedWith(u) == {v \in WithOrigin(Everyone) : Origin(v).network = Origin(u).network}

\* What keeps an honest account's voice: no account loses all of it unless
\* two independent traits mark it within one group, however many groups of
\* one fandom it is in, and listening habits alone never take any; up to
\* three accounts of one home are never a farm for living there, however
\* much they share their taste; and a cohort is named after a group each of
\* its accounts is in.
HonestKeepTheirVoice ==
    \A u \in DOMAIN verdict.factor :
        LET groups == {g \in DOMAIN input.members :
                         u \in Members(g) /\ Cardinality(Members(g)) >= MinCohort}
        IN /\ verdict.factor[u] = 0 => \E g \in groups : Cardinality(Traits(u, g)) >= 2
           /\ \E g \in groups :
                 LET without == IF input.origin[u] # {} /\ Cardinality(SharedWith(u)) <= 3
                                THEN {"origin"} ELSE {}
                 IN Traits(u, g) \ without # {}
           /\ u \in Members(verdict.cohort[u])

=============================================================================
