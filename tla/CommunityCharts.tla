---------------------------- MODULE CommunityCharts ----------------------------
(* The chart of the accounts a viewer follows: which accounts it covers, the *)
(* ranking computed once for them and kept under their names, and what a     *)
(* page of it shows.                                                         *)
EXTENDS Integers, FiniteSets, FiniteSetsExt

CONSTANTS
    ChartViewers, Followed,   \* the accounts they may follow, as numbers
    ChartEntities,
    MAX_COVERED,              \* accounts a chart of this range may cover
    MIN_CREDIT,               \* listeners an entry needs
    MAX_POSITIONS,
    COMMUNITY_CACHE,          \* how long a ranking is kept, in ticks
    MaxChartTicks, MaxFollowChanges

ASSUME CommunityConstants ==
    /\ Followed \subseteq Nat /\ IsFiniteSet(Followed)
    /\ {MAX_COVERED, MIN_CREDIT} \subseteq Nat

VARIABLES
    follows,         \* pairs: viewer, account
    closed,          \* accounts turned private, blocking or leaving
    heard,           \* pairs: account, entity, weighed a full listener's
    gone,            \* entities the catalog dropped since
    rankings,        \* rankings[accounts]: the entries, and until when
    clock,
    viewed,          \* viewed[v]: the viewer's request
    followChanges

communityVars == <<follows, closed, heard, gone, rankings, clock, viewed, followChanges>>

CommunityChartsInit ==
    /\ follows \in SUBSET (ChartViewers \X Followed)
    /\ closed = {} /\ heard = {} /\ gone = {}
    /\ rankings = <<>> /\ clock = 0
    /\ viewed = [v \in ChartViewers |-> [at |-> "idle"]]
    /\ followChanges = 0

Ask(v, fields) == viewed' = [viewed EXCEPT ![v] = fields]

-----------------------------------------------------------------------------
Changed == followChanges < MaxFollowChanges /\ followChanges' = followChanges + 1

\* A follow, an unfollow, an account closing itself to the viewer or opening.
FollowOrNot ==
    /\ Changed
    /\ \/ \E f \in ChartViewers \X Followed :
             follows' = (follows \ {f}) \cup ({f} \ follows) /\ UNCHANGED closed
       \/ \E a \in Followed :
             closed' = (closed \ {a}) \cup ({a} \ closed) /\ UNCHANGED follows
    /\ UNCHANGED <<heard, gone, rankings, clock, viewed>>

\* A day's weights written, or the catalog merging an entry away.
HearOrDrop ==
    /\ Changed
    /\ \/ \E w \in Followed \X ChartEntities :
             heard' = (heard \ {w}) \cup ({w} \ heard) /\ UNCHANGED gone
       \/ \E e \in ChartEntities : gone' = gone \cup {e} /\ UNCHANGED heard
    /\ UNCHANGED <<follows, closed, rankings, clock, viewed>>

PassChartTime ==
    /\ clock < MaxChartTicks
    /\ clock' = clock + 1
    /\ rankings' = [k \in {j \in DOMAIN rankings : rankings[j].until > clock + 1} |-> rankings[k]]
    /\ UNCHANGED <<follows, closed, heard, gone, viewed, followChanges>>

-----------------------------------------------------------------------------
\* The accounts followed that anyone may see, as many as the range allows;
\* the numbers stand for the order of their last activity.
CommunityAccounts(v) ==
    LET seen == {a \in Followed : <<v, a>> \in follows /\ a \notin closed}
    IN {a \in seen : Cardinality({b \in seen : b < a}) < MAX_COVERED}

Credit(accounts, e) == Cardinality({a \in accounts : <<a, e>> \in heard})

\* Entries enough of the accounts are credited with, best first; fewer
\* accounts than the minimum make none.
Ranking(accounts) ==
    LET enough == {e \in ChartEntities : Credit(accounts, e) >= MIN_CREDIT}
        before(d, e) == Credit(accounts, d) > Credit(accounts, e)
                        \/ (Credit(accounts, d) = Credit(accounts, e) /\ d < e)
    IN IF Cardinality(accounts) < MIN_CREDIT THEN {}
       ELSE {e \in enough : Cardinality({d \in enough : before(d, e)}) < MAX_POSITIONS}

\* What a ranking is kept under: the accounts themselves, whoever asks.
CommunityKey(v, accounts) == accounts

ReadFollowed(v) ==
    /\ viewed[v].at \in {"idle", "shown"}
    /\ Ask(v, [at |-> "covered", accounts |-> CommunityAccounts(v)])
    /\ UNCHANGED <<follows, closed, heard, gone, rankings, clock, followChanges>>

\* Redis failing, here or in KeepRanking, only costs the computation.
ReadRanking(v) ==
    LET q == viewed[v]
        key == CommunityKey(v, q.accounts)
    IN /\ q.at = "covered"
       /\ \/ /\ key \in DOMAIN rankings
             /\ Ask(v, [at |-> "ranked", accounts |-> q.accounts, made |-> rankings[key].made])
          \/ Ask(v, [q EXCEPT !.at = "missed"])
       /\ UNCHANGED <<follows, closed, heard, gone, rankings, clock, followChanges>>

ComputeRanking(v) ==
    LET q == viewed[v] IN
    /\ q.at = "missed"
    /\ Ask(v, [at |-> "computed", accounts |-> q.accounts,
               made |-> [of |-> q.accounts, entries |-> Ranking(q.accounts), on |-> clock]])
    /\ UNCHANGED <<follows, closed, heard, gone, rankings, clock, followChanges>>

KeepRanking(v) ==
    LET q == viewed[v]
        key == CommunityKey(v, q.accounts)
    IN /\ q.at = "computed"
       /\ Ask(v, [q EXCEPT !.at = "ranked"])
       /\ \/ rankings' = [k \in DOMAIN rankings \cup {key} |->
                             IF k = key THEN [made |-> q.made, until |-> clock + COMMUNITY_CACHE]
                             ELSE rankings[k]]
          \/ UNCHANGED rankings
       /\ UNCHANGED <<follows, closed, heard, gone, clock, followChanges>>

\* Entities deleted since are left out of the page.
ShowPage(v) ==
    LET q == viewed[v] IN
    /\ q.at = "ranked"
    /\ Ask(v, [at |-> "shown", accounts |-> q.accounts, made |-> q.made,
               entries |-> q.made.entries \ gone])
    /\ UNCHANGED <<follows, closed, heard, gone, rankings, clock, followChanges>>

CommunityChartsNext ==
    \/ FollowOrNot \/ HearOrDrop \/ PassChartTime
    \/ \E v \in ChartViewers :
          \/ ReadFollowed(v) \/ ReadRanking(v) \/ ComputeRanking(v)
          \/ KeepRanking(v) \/ ShowPage(v)

CommunityChartsSpec == CommunityChartsInit /\ [][CommunityChartsNext]_communityVars

-----------------------------------------------------------------------------
\* Whoever computed the ranking a page is cut from, and whenever: it counts
\* the accounts this viewer was found to follow and may see, and no others, no
\* more of them than a ranking covers, and lists nothing where they are fewer
\* than an entry needs (charts.rs, "It covers the accounts followed that anyone
\* may see").
CoversTheFollowed ==
    \A v \in ChartViewers : viewed[v].at = "shown" =>
        LET q == viewed[v] IN
        /\ q.made.of = q.accounts
        /\ Cardinality(q.accounts) <= MAX_COVERED
        /\ q.entries # {} => Cardinality(q.accounts) >= MIN_CREDIT

\* One ranking while it is kept, so the pages of a chart agree (charts.rs,
\* "reused ... by every request covering the same accounts and days, so pages
\* of one chart agree"). It is not so of a ranking that two requests compute
\* beside each other, the later replacing the kept one; no run checks it.
PagesAgree ==
    [][\A k \in DOMAIN rankings :
          clock' = clock => k \in DOMAIN rankings' /\ rankings'[k] = rankings[k]]_communityVars
=============================================================================
