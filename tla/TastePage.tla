------------------------------ MODULE TastePage ------------------------------
(* One account's page of recommendations and the tag that saves sending it  *)
(* again: the handler reads the setting, the newest run, the latest play    *)
(* and the skips in statements of their own, makes a tag of them, answers   *)
(* 304 if the client holds that tag, and otherwise reads the list. Runs     *)
(* land, plays arrive and skips come and go between any two statements.     *)
EXTENDS Integers, FiniteSets

CONSTANTS
    Recommendable,  \* artists
    MAX_SKIPS,      \* skips kept per account
    MaxPageEvents   \* bound: everything that happens beside the requests

ASSUME PageConstants ==
    /\ IsFiniteSet(Recommendable)
    /\ MAX_SKIPS \in Nat \ {0} /\ MaxPageEvents \in Nat

VARIABLES
    on,             \* users.similarity is not off
    landed,         \* the newest run; how late it is now is left out
    entries,        \* user_recommendations: has is FALSE when there is no row
    skipped,        \* recommendation_skips: artist -> skipped_at, 0 for no row
    expired,        \* skips past their date
    played,         \* artists played since the window of late plays began
    lastSeen,       \* users.last_seen_at: the latest play
    pageEvents,     \* also the clock of skips and plays
    page,           \* the request in progress
    held,           \* the tag and the body the client holds
    answer,         \* the last answer: its status, what the client held and
                    \* what a 200 had said, and whether the tag was blind to it
    untold          \* history: what the tag of the held body cannot tell

tables == <<on, landed, entries, skipped, expired, played, lastSeen>>
pageVars == <<tables, pageEvents, page, held, answer, untold>>

NoTag == [run |-> -1, on |-> FALSE, play |-> 0, skips |-> 0, skip |-> 0]
NoBody == [run |-> -1, on |-> FALSE, has |-> FALSE, list |-> {}]
NoPage == [at |-> "idle", tag |-> NoTag]

PageInit ==
    /\ on = TRUE
    /\ landed = 0
    /\ entries = [has |-> FALSE, list |-> {}]
    /\ skipped = [a \in Recommendable |-> 0]
    /\ expired = {} /\ played = {}
    /\ lastSeen = 0
    /\ pageEvents = 0
    /\ page = NoPage
    /\ held = [tag |-> NoTag, body |-> NoBody]
    /\ answer = [status |-> 200, held |-> NoBody, fresh |-> NoBody, blind |-> FALSE]
    /\ untold = [now |-> FALSE, between |-> {}]

-----------------------------------------------------------------------------
(* The list, and the tag.                                                   *)

Skips == {a \in Recommendable : skipped[a] # 0}
Hidden == {a \in Skips : a \notin expired}

\* recommendations and has_recommendations, for the mode and the run read
BodyOf(mode, version) ==
    LET served == mode /\ version # 0 IN
    [run |-> version, on |-> mode, has |-> served /\ entries.has,
     list |-> IF served THEN entries.list \ (Hidden \cup played) ELSE {}]

Latest(times) == IF times = {} THEN 0 ELSE CHOOSE t \in times : \A u \in times : u <= t

\* recommendation_state: the latest play, how many skips, the latest of them
State == [play |-> lastSeen, skips |-> Cardinality(Skips),
          skip |-> Latest({skipped[a] : a \in Skips})]

-----------------------------------------------------------------------------
(* The request.                                                             *)

ReadSetting ==
    /\ page.at = "idle"
    /\ page' = [NoPage EXCEPT !.at = "setting", !.tag.on = on]
    /\ UNCHANGED <<tables, pageEvents, held, answer, untold>>

ReadVersion ==
    /\ page.at = "setting"
    /\ page' = [page EXCEPT !.at = "version", !.tag.run = landed]
    /\ UNCHANGED <<tables, pageEvents, held, answer, untold>>

\* The state, which makes the tag; the one the client holds gets a 304.
ReadState ==
    /\ page.at = "version"
    /\ LET tag == [page.tag EXCEPT !.play = State.play, !.skips = State.skips,
                                   !.skip = State.skip] IN
       IF tag = held.tag
       THEN /\ answer' = [status |-> 304, held |-> held.body,
                          fresh |-> BodyOf(tag.on, tag.run),
                          blind |-> untold.now \/ landed # tag.run]
            /\ page' = NoPage
            /\ UNCHANGED untold
       ELSE /\ page' = [at |-> "state", tag |-> tag]
            /\ untold' = [now |-> FALSE, between |-> {}]
            /\ UNCHANGED answer
    /\ UNCHANGED <<tables, pageEvents, held>>

\* The list, with the mode and the run read before, under the tag made before.
ReadList ==
    LET body == BodyOf(page.tag.on, page.tag.run) IN
    /\ page.at = "state"
    /\ held' = [tag |-> page.tag, body |-> body]
    /\ answer' = [status |-> 200, held |-> body, fresh |-> body, blind |-> FALSE]
    /\ page' = NoPage
    /\ UNCHANGED <<tables, pageEvents, untold>>

-----------------------------------------------------------------------------
(* What happens beside it.                                                  *)

Event == pageEvents < MaxPageEvents /\ pageEvents' = pageEvents + 1
Now == pageEvents + 1
Beside == UNCHANGED <<page, held, answer>>
Untold == untold' = [untold EXCEPT !.now = TRUE]

\* A run stores its results; an account that is off gets none.
RunLands ==
    /\ Event
    /\ landed' = landed + 1
    /\ \E list \in SUBSET (Recommendable \ played) :
          entries' = [has |-> on /\ list # {}, list |-> IF on THEN list ELSE {}]
    /\ Beside
    /\ UNCHANGED <<on, skipped, expired, played, lastSeen, untold>>

Play(a) ==
    /\ Event
    /\ played' = played \cup {a}
    /\ lastSeen' = Now
    /\ Beside
    /\ UNCHANGED <<on, landed, entries, skipped, expired, untold>>

\* A play of a phone's offline queue: older than the latest, in the window.
LatePlay(a) ==
    /\ Event
    /\ lastSeen # 0
    /\ played' = played \cup {a}
    /\ Beside /\ Untold
    /\ UNCHANGED <<on, landed, entries, skipped, expired, lastSeen>>

\* skip: the row is made or made new, and the oldest over MAX_SKIPS go.
Skip(a) ==
    /\ Event
    /\ LET with == [skipped EXCEPT ![a] = Now]
           rows == {b \in Recommendable : with[b] # 0}
           newer(b) == {c \in rows : with[c] > with[b]} IN
       /\ skipped' = [b \in Recommendable |->
             IF b \in rows /\ Cardinality(newer(b)) < MAX_SKIPS THEN with[b] ELSE 0]
       /\ expired' = expired \ {b \in Recommendable : b = a \/ skipped'[b] = 0}
    /\ untold' = [now |-> untold.now \/ \E b \in untold.between : skipped'[b] = 0,
                  between |-> untold.between \cup (IF page.at = "state" THEN {a} ELSE {})]
    /\ Beside
    /\ UNCHANGED <<on, landed, entries, played, lastSeen>>

\* unskip
Unskip(a) ==
    /\ Event
    /\ skipped[a] # 0
    /\ skipped' = [skipped EXCEPT ![a] = 0]
    /\ expired' = expired \ {a}
    /\ untold' = IF a \in untold.between THEN [untold EXCEPT !.now = TRUE] ELSE untold
    /\ Beside
    /\ UNCHANGED <<on, landed, entries, played, lastSeen>>

SkipExpires(a) ==
    /\ Event
    /\ a \in Hidden
    /\ expired' = expired \cup {a}
    /\ Beside /\ Untold
    /\ UNCHANGED <<on, landed, entries, skipped, played, lastSeen>>

\* purge_skips, once a day
PurgeSkips ==
    /\ expired # {}
    /\ skipped' = [a \in Recommendable |-> IF a \in expired THEN 0 ELSE skipped[a]]
    /\ expired' = {}
    /\ Beside
    /\ UNCHANGED <<on, landed, entries, played, lastSeen, pageEvents, untold>>

\* set_setting: off deletes the row, which turning it on does not bring back.
TurnOff ==
    /\ Event
    /\ on
    /\ on' = FALSE
    /\ entries' = [has |-> FALSE, list |-> {}]
    /\ Beside /\ Untold
    /\ UNCHANGED <<landed, skipped, expired, played, lastSeen>>

TurnOn ==
    /\ Event
    /\ ~on
    /\ on' = TRUE
    /\ Beside
    /\ UNCHANGED <<landed, entries, skipped, expired, played, lastSeen, untold>>

-----------------------------------------------------------------------------
PageNext ==
    \/ ReadSetting \/ ReadVersion \/ ReadState \/ ReadList
    \/ RunLands \/ PurgeSkips \/ TurnOff \/ TurnOn
    \/ \E a \in Recommendable :
          Play(a) \/ LatePlay(a) \/ Skip(a) \/ Unskip(a) \/ SkipExpires(a)

PageSpec == PageInit /\ [][PageNext]_pageVars

PageTypeOK ==
    /\ on \in BOOLEAN
    /\ landed \in 0 .. MaxPageEvents
    /\ entries \in [has : BOOLEAN, list : SUBSET Recommendable]
    /\ skipped \in [Recommendable -> 0 .. MaxPageEvents]
    /\ Cardinality(Skips) <= MAX_SKIPS
    /\ expired \subseteq Skips /\ played \subseteq Recommendable
    /\ lastSeen \in 0 .. MaxPageEvents
    /\ page.at \in {"idle", "setting", "version", "state"}
    /\ answer.status \in {200, 304}

\* A 304 tells the truth: what the client holds is what a 200 would say,
\* whatever landed, was played, skipped or taken back between the statements
\* that made the tag it holds and the one that read its list
\* (handlers/similarity.rs, recommended_artists). Left out are a run that lands
\* within the request, which the next one tells, and what no tag tells: a play
\* older than the latest, a skip that ran out, off and on again, and a skip made
\* between the tag and the list and taken back, or put out by later ones that
\* were.
NotModifiedIsTrue ==
    answer.status = 304 => answer.held = answer.fresh \/ answer.blind
=============================================================================
