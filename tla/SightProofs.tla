---------------------------- MODULE SightProofs ------------------------------
(* Theorems about Sight, that is about Profiles and LiveStreams, and about  *)
(* Paging, for every value of their constants.                              *)
EXTENDS Sight, Paging, FiniteSetTheorems, WellFoundedInduction, TLAPS

(***************************************************************************)
(* Profiles.                                                               *)
(***************************************************************************)

(***************************************************************************)
(* What a request that has checked something relies on.  Its answer is     *)
(* right because a reason it found not to hold is in none of what has held *)
(* since it began, whatever changed before and after it looked.            *)
(***************************************************************************)
Underway(a) == a.at # "idle" /\ a.at \notin Answers

\* The reasons a request has left to look for, by where it is.
Stage(a, p) ==
  /\ a.at = "begun" =>
       /\ a.door = "own" => a.viewer = "owner"
       /\ a.door = "feed" => a.viewer = "other"
  /\ a.at \in {"found", "found again"} =>
       /\ a.viewer # "owner" /\ a.door \notin ListDoors \cup {"own"}
       /\ "gone" \notin a.held /\ "closing" \notin a.held
       /\ "private" \in a.held => a.private
       /\ a.steady => a.private = p.private
  /\ a.at \in {"found again", "listening"} => a.door = "live"
  /\ a.at = "listening" => a.viewer # "owner" /\ a.held = {}
  /\ a.at = "setting" => a.door = "similar" /\ a.viewer # "owner" /\ a.held \subseteq {"unlisted"}
  /\ a.at \in {"own", "allowed"} => a.held = {}

\* What has held is what holds, as long as nothing changed.
HeldStands(a, p) ==
  /\ a.held \subseteq Reasons(p, a.door, a.viewer)
  /\ a.steady => a.held = Reasons(p, a.door, a.viewer)

ProfilesInv ==
  /\ ProfilesTypeOK /\ DoorsAgree /\ BlockedFindNobody
  /\ Underway(asking) => HeldStands(asking, profile) /\ Stage(asking, profile)

(***************************************************************************)
(* The reasons.                                                            *)
(***************************************************************************)
LEMMA ReasonsAre ==
  ASSUME NEW p, NEW door, NEW viewer
  PROVE  LET R == Reasons(p, door, viewer) IN
         /\ R \subseteq ReasonNames
         /\ "gone" \in R <=> p.gone
         /\ "closing" \in R <=> p.closing /\ door # "own"
         /\ "private" \in R <=> p.private /\ (viewer # "owner" \/ door \in {"search", "feed"})
         /\ "blocked" \in R <=> p.blocked /\ viewer = "other"
         /\ "blocking" \in R <=> p.blocking /\ viewer = "other" /\ door \in ListDoors
         /\ "unfollowed" \in R <=> ~p.followed /\ door \in {"followers", "feed"}
         /\ "unlisted" \in R <=> ~p.listed /\ door = "similar" /\ viewer # "owner"
BY DEF Reasons, ReasonNames

LEMMA NoneLeft ==
  ASSUME NEW h, h \subseteq ReasonNames,
         "gone" \notin h, "closing" \notin h, "private" \notin h, "blocked" \notin h,
         "blocking" \notin h, "unfollowed" \notin h
  PROVE  h \subseteq {"unlisted"}
BY DEF ReasonNames

(***************************************************************************)
(* Steps of a request.                                                     *)
(***************************************************************************)
NothingMoves == UNCHANGED <<profile, items, secret, sightChanges>>

LEMMA NotAskingIs == NotAsking \in AskingRecords /\ NotAsking.at = "idle"
BY DEF NotAsking, AskingRecords, Doors, DoorViewers

LEMMA IdleHolds ==
  ASSUME ProfilesInv, asking' = NotAsking,
         profile' \in ProfileRecords /\ items' \subseteq Items /\ secret' \subseteq items',
         sightChanges' \in 0 .. MaxSightChanges
  PROVE  ProfilesInv'
BY NotAskingIs DEF ProfilesInv, ProfilesTypeOK, DoorsAgree, BlockedFindNobody, Answered,
                   Answers, Underway

\* A request that answers is right if what has held is what it answers by.
LEMMA AnswersHold ==
  ASSUME ProfilesInv, Underway(asking), NEW answer \in Answers, NEW shown \in SUBSET Items,
         AnswerRequest(answer, shown),
         answer = "shown" => asking.held = {},
         answer # "shown" /\ asking.steady => Reasons(profile, asking.door, asking.viewer) # {},
         answer = "forbidden" => ~(profile.blocked /\ asking.viewer = "other")
  PROVE  ProfilesInv'
  <1> DEFINE c == [asking EXCEPT !.at = answer, !.private = FALSE, !.shown = shown]
  <1>1. asking' = c /\ NothingMoves
    BY DEF AnswerRequest, NothingMoves
  <1>2. asking \in AskingRecords
    BY DEF ProfilesInv, ProfilesTypeOK
  <1>3. /\ c \in AskingRecords /\ c.at = answer /\ c.held = asking.held
        /\ c.steady = asking.steady /\ c.door = asking.door /\ c.viewer = asking.viewer
    BY <1>2 DEF AskingRecords
  <1> HIDE DEF c
  <1>4. HeldStands(asking, profile)
    BY DEF ProfilesInv
  <1>5. "blocked" \in asking.held => profile.blocked /\ asking.viewer = "other"
    BY <1>4, ReasonsAre DEF HeldStands
  <1>6. ProfilesTypeOK'
    BY <1>1, <1>3 DEF ProfilesInv, ProfilesTypeOK, NothingMoves
  <1>7. DoorsAgree'
    BY <1>1, <1>3, <1>4 DEF DoorsAgree, HeldStands
  <1>8. BlockedFindNobody'
    BY <1>1, <1>3, <1>5 DEF BlockedFindNobody, Answers
  <1>9. ~Underway(c)
    BY <1>3 DEF Underway
  <1> QED
    BY <1>1, <1>6, <1>7, <1>8, <1>9 DEF ProfilesInv

LEMMA ProceedsHold ==
  ASSUME ProfilesInv, NothingMoves, NEW c \in AskingRecords, asking' = c, Underway(c),
         HeldStands(c, profile), Stage(c, profile)
  PROVE  ProfilesInv'
  <1>1. ~Answered'
    BY DEF Answered, Underway
  <1> QED
    BY <1>1 DEF ProfilesInv, ProfilesTypeOK, DoorsAgree, BlockedFindNobody, NothingMoves

\* A request that goes on keeps what has held.
LEMMA GoesOn ==
  ASSUME ProfilesInv, NothingMoves, Underway(asking), NEW c \in AskingRecords, asking' = c,
         Underway(c), c.door = asking.door, c.viewer = asking.viewer, c.held = asking.held,
         c.steady = asking.steady, Stage(c, profile)
  PROVE  ProfilesInv'
  <1>1. HeldStands(c, profile)
    BY DEF ProfilesInv, HeldStands
  <1> QED
    BY <1>1, ProceedsHold

\* What is known of a request under way.
LEMMA AsAsked ==
  ASSUME ProfilesInv, Underway(asking)
  PROVE  /\ asking \in AskingRecords /\ profile \in ProfileRecords
         /\ Stage(asking, profile)
         /\ asking.held \subseteq Reasons(profile, asking.door, asking.viewer)
         /\ asking.steady => asking.held = Reasons(profile, asking.door, asking.viewer)
         /\ asking.held \subseteq ReasonNames
BY ReasonsAre DEF ProfilesInv, ProfilesTypeOK, HeldStands

LEMMA BeginHolds ==
  ASSUME ProfilesInv, NEW door \in Doors, NEW viewer \in DoorViewers,
         BeginRequest(door, viewer)
  PROVE  ProfilesInv'
  <1> DEFINE R == Reasons(profile, door, viewer)
             c == [NotAsking EXCEPT !.at = "begun", !.door = door, !.viewer = viewer, !.held = R]
  <1>1. asking' = c /\ NothingMoves
    BY DEF BeginRequest, Proceed, NothingMoves
  <1>2. R \subseteq ReasonNames
    BY ReasonsAre
  <1> HIDE DEF R
  <1>3. /\ c \in AskingRecords /\ c.at = "begun" /\ c.door = door /\ c.viewer = viewer
        /\ c.held = R
    BY <1>2 DEF NotAsking, AskingRecords
  <1> HIDE DEF c
  <1>4. Underway(c)
    BY <1>3 DEF Underway, Answers
  <1>5. HeldStands(c, profile)
    BY <1>3 DEF HeldStands, R
  <1>6. Stage(c, profile)
    BY <1>3 DEF Stage, BeginRequest
  <1> QED
    BY <1>1, <1>3, <1>4, <1>5, <1>6, ProceedsHold

LEMMA FindUserHolds ==
  ASSUME ProfilesInv, FindUser
  PROVE  ProfilesInv'
  <1>1. /\ asking.at = "begun" /\ asking.door \notin ListDoors \cup {"own"}
        /\ IF profile.gone \/ profile.closing THEN AnswerRequest("missing", {})
           ELSE Proceed([asking EXCEPT !.at = IF asking.viewer = "owner" THEN "own" ELSE "found",
                                       !.private = profile.private])
    BY DEF FindUser
  <1>2. Underway(asking)
    BY <1>1 DEF Underway, Answers
  <1>3. /\ "gone" \in Reasons(profile, asking.door, asking.viewer) <=> profile.gone
        /\ "closing" \in Reasons(profile, asking.door, asking.viewer) <=>
             profile.closing /\ asking.door # "own"
    BY ReasonsAre
  <1>4. CASE profile.gone \/ profile.closing
    <2>1. Reasons(profile, asking.door, asking.viewer) # {}
      BY <1>1, <1>3, <1>4
    <2>2. "missing" \in Answers
      BY DEF Answers
    <2> QED
      BY <1>1, <1>2, <1>4, <2>1, <2>2, AnswersHold
  <1>5. CASE ~(profile.gone \/ profile.closing)
    <2> DEFINE at == IF asking.viewer = "owner" THEN "own" ELSE "found"
               c == [asking EXCEPT !.at = at, !.private = profile.private]
    <2>1. asking' = c /\ NothingMoves
      BY <1>1, <1>5 DEF Proceed, NothingMoves
    <2>2. /\ asking \in AskingRecords /\ profile.private \in BOOLEAN
          /\ asking.held \subseteq Reasons(profile, asking.door, asking.viewer)
          /\ asking.held \subseteq ReasonNames
      BY <1>2, AsAsked DEF ProfileRecords
    <2>3. /\ c \in AskingRecords /\ c.at = at /\ c.door = asking.door
          /\ c.viewer = asking.viewer /\ c.held = asking.held /\ c.steady = asking.steady
          /\ c.private = profile.private
      BY <2>2 DEF AskingRecords
    <2> HIDE DEF c
    <2>4. Underway(c)
      BY <2>3 DEF Underway, Answers
    <2>5. "gone" \notin asking.held /\ "closing" \notin asking.held
      BY <1>3, <1>5, <2>2
    <2>6. "private" \in asking.held => profile.private
      BY <2>2, ReasonsAre
    <2>7. asking.viewer = "owner" => asking.held = {}
      <3> SUFFICES ASSUME asking.viewer = "owner" PROVE asking.held = {}
        OBVIOUS
      <3>1. /\ "private" \notin asking.held /\ "blocked" \notin asking.held
            /\ "blocking" \notin asking.held /\ "unfollowed" \notin asking.held
            /\ "unlisted" \notin asking.held
        BY <1>1, <2>2, ReasonsAre DEF ListDoors
      <3> QED
        BY <2>2, <2>5, <3>1, NoneLeft
    <2>8. Stage(c, profile)
      BY <1>1, <2>3, <2>5, <2>6, <2>7 DEF Stage
    <2> QED
      BY <1>2, <2>1, <2>3, <2>4, <2>8, GoesOn
  <1> QED
    BY <1>4, <1>5

LEMMA FindUserAgainHolds ==
  ASSUME ProfilesInv, FindUserAgain
  PROVE  ProfilesInv'
  <1>1. /\ asking.at = "listening"
        /\ IF profile.gone \/ profile.closing THEN AnswerRequest("missing", {})
           ELSE Proceed([asking EXCEPT !.at = "found again", !.private = profile.private])
    BY DEF FindUserAgain
  <1>2. Underway(asking)
    BY <1>1 DEF Underway, Answers
  <1>3. asking.door = "live" /\ asking.viewer # "owner" /\ asking.held = {}
    BY <1>1, <1>2, AsAsked DEF Stage
  <1>4. CASE profile.gone \/ profile.closing
    <2>1. Reasons(profile, asking.door, asking.viewer) # {}
      BY <1>3, <1>4, ReasonsAre
    <2>2. "missing" \in Answers
      BY DEF Answers
    <2> QED
      BY <1>1, <1>2, <1>4, <2>1, <2>2, AnswersHold
  <1>5. CASE ~(profile.gone \/ profile.closing)
    <2> DEFINE c == [asking EXCEPT !.at = "found again", !.private = profile.private]
    <2>1. asking' = c /\ NothingMoves
      BY <1>1, <1>5 DEF Proceed, NothingMoves
    <2>2. asking \in AskingRecords /\ profile.private \in BOOLEAN
      BY <1>2, AsAsked DEF ProfileRecords
    <2>3. /\ c \in AskingRecords /\ c.at = "found again" /\ c.door = asking.door
          /\ c.viewer = asking.viewer /\ c.held = asking.held /\ c.steady = asking.steady
          /\ c.private = profile.private
      BY <2>2 DEF AskingRecords
    <2> HIDE DEF c
    <2>4. Underway(c)
      BY <2>3 DEF Underway, Answers
    <2>5. Stage(c, profile)
      BY <1>3, <2>3 DEF Stage, ListDoors
    <2> QED
      BY <1>2, <2>1, <2>3, <2>4, <2>5, GoesOn
  <1> QED
    BY <1>4, <1>5

\* What may keep a request out that was found: whoever asks is not the owner.
LEMMA CheckedReasons ==
  ASSUME ProfilesInv, asking.at \in {"found", "found again"}
  PROVE  LET R == Reasons(profile, asking.door, asking.viewer) IN
         /\ "blocked" \in R <=> profile.blocked /\ asking.viewer = "other"
         /\ "private" \in R <=> profile.private
         /\ "blocking" \notin R /\ "unfollowed" \notin R
         /\ "unlisted" \in R => asking.door = "similar"
  <1>1. Underway(asking)
    BY DEF Underway, Answers
  <1>2. asking.viewer # "owner" /\ asking.door \notin ListDoors
    BY <1>1, AsAsked DEF Stage
  <1>3. asking.door \notin {"followers", "feed"}
    BY <1>2 DEF ListDoors
  <1> DEFINE R == Reasons(profile, asking.door, asking.viewer)
  <1>4. "blocked" \in R <=> profile.blocked /\ asking.viewer = "other"
    BY DEF Reasons, ReasonNames
  <1>5. "private" \in R <=> profile.private
    BY <1>2 DEF Reasons, ReasonNames
  <1>6. "blocking" \notin R /\ "unfollowed" \notin R
    BY <1>2, <1>3 DEF Reasons, ReasonNames
  <1>7. "unlisted" \in R => asking.door = "similar"
    BY DEF Reasons, ReasonNames
  <1> QED
    BY <1>4, <1>5, <1>6, <1>7

\* A request that was found and asks whether the owner blocks the viewer, then
\* by the privacy it has read.
LEMMA ChecksHold ==
  ASSUME ProfilesInv, asking.at \in {"found", "found again"},
         NEW refusal \in {"forbidden", "missing"},
         NEW next \in {"listening", "setting", "allowed"},
         next = "listening" => asking.door = "live",
         next = "setting" => asking.door = "similar",
         asking.door = "similar" => next = "setting",
         \/ (profile.blocked /\ asking.viewer = "other") /\ AnswerRequest("missing", {})
         \/ /\ ~(profile.blocked /\ asking.viewer = "other") /\ asking.private
            /\ AnswerRequest(refusal, {})
         \/ /\ ~(profile.blocked /\ asking.viewer = "other") /\ ~asking.private
            /\ Proceed([asking EXCEPT !.at = next])
  PROVE  ProfilesInv'
  <1> DEFINE R == Reasons(profile, asking.door, asking.viewer)
             blocked == profile.blocked /\ asking.viewer = "other"
  <1>1. Underway(asking)
    BY DEF Underway, Answers
  <1>2. /\ asking \in AskingRecords /\ profile \in ProfileRecords
        /\ asking.viewer # "owner" /\ asking.door \notin ListDoors \cup {"own"}
        /\ "gone" \notin asking.held /\ "closing" \notin asking.held
        /\ "private" \in asking.held => asking.private
        /\ asking.steady => asking.private = profile.private
        /\ asking.held \subseteq R /\ (asking.steady => asking.held = R)
        /\ asking.held \subseteq ReasonNames
    BY <1>1, AsAsked DEF Stage
  <1>3. {"missing", "forbidden", refusal} \subseteq Answers
    BY DEF Answers
  <1>4. /\ "blocked" \in R <=> blocked
        /\ "private" \in R <=> profile.private
        /\ "blocking" \notin R /\ "unfollowed" \notin R
        /\ "unlisted" \in R => asking.door = "similar"
    BY CheckedReasons
  <1>5. CASE blocked /\ AnswerRequest("missing", {})
    BY <1>1, <1>3, <1>4, <1>5, AnswersHold
  <1>6. CASE ~blocked /\ asking.private /\ AnswerRequest(refusal, {})
    <2>1. CASE R # {}
      BY <1>1, <1>3, <1>6, <2>1, AnswersHold
    <2>2. CASE R = {}
      <3>1. ~asking.steady
        BY <1>2, <1>4, <1>6, <2>2
      <3> QED
        BY <1>1, <1>3, <1>6, <3>1, AnswersHold
    <2> QED
      BY <2>1, <2>2
  <1>7. CASE ~blocked /\ ~asking.private /\ Proceed([asking EXCEPT !.at = next])
    <2> DEFINE c == [asking EXCEPT !.at = next]
    <2>1. asking' = c /\ NothingMoves
      BY <1>7 DEF Proceed, NothingMoves
    <2>2. /\ c \in AskingRecords /\ c.at = next /\ c.door = asking.door
          /\ c.viewer = asking.viewer /\ c.held = asking.held /\ c.steady = asking.steady
          /\ c.private = asking.private
      BY <1>2 DEF AskingRecords
    <2> HIDE DEF c
    <2>3. Underway(c)
      BY <2>2 DEF Underway, Answers
    <2>4. asking.held \subseteq {"unlisted"}
      BY <1>2, <1>4, <1>7, NoneLeft
    <2>5. next # "setting" => asking.held = {}
      BY <1>2, <1>4, <2>4
    <2>6. Stage(c, profile)
      BY <1>2, <2>2, <2>4, <2>5 DEF Stage
    <2> QED
      BY <1>1, <2>1, <2>2, <2>3, <2>6, GoesOn
  <1> QED
    BY <1>5, <1>6, <1>7

LEMMA EnsureVisibleHolds ==
  ASSUME ProfilesInv, EnsureVisible
  PROVE  ProfilesInv'
  <1> DEFINE next == IF asking.at = "found" /\ asking.door = "live" THEN "listening"
                     ELSE IF asking.door = "similar" THEN "setting" ELSE "allowed"
  <1>1. /\ asking.at \in {"found", "found again"}
        /\ IF profile.blocked /\ asking.viewer = "other" THEN AnswerRequest("missing", {})
           ELSE IF asking.private THEN AnswerRequest("forbidden", {})
           ELSE Proceed([asking EXCEPT !.at = next])
    BY DEF EnsureVisible
  <1>2. /\ next \in {"listening", "setting", "allowed"}
        /\ next = "listening" => asking.door = "live"
        /\ next = "setting" => asking.door = "similar"
        /\ asking.door = "similar" => next = "setting"
    OBVIOUS
  <1> HIDE DEF next
  <1>3. "forbidden" \in {"forbidden", "missing"}
    OBVIOUS
  <1> QED
    BY <1>1, <1>2, <1>3, ChecksHold

LEMMA OtherChecksHold ==
  ASSUME ProfilesInv, VisibleUser \/ ListenBrainzVisible \/ SeenUser
  PROVE  ProfilesInv'
  <1>1. PICK refusal \in {"forbidden", "missing"} :
          /\ asking.at \in {"found", "found again"}
          /\ asking.door \in LastfmDoors \cup FeedbackDoors \cup InfoDoors
          /\ \/ (profile.blocked /\ asking.viewer = "other") /\ AnswerRequest("missing", {})
             \/ /\ ~(profile.blocked /\ asking.viewer = "other") /\ asking.private
                /\ AnswerRequest(refusal, {})
             \/ /\ ~(profile.blocked /\ asking.viewer = "other") /\ ~asking.private
                /\ Proceed([asking EXCEPT !.at = "allowed"])
    BY DEF VisibleUser, ListenBrainzVisible, SeenUser
  <1>2. asking.door # "similar"
    BY <1>1 DEF LastfmDoors, FeedbackDoors, InfoDoors
  <1>3. "allowed" \in {"listening", "setting", "allowed"}
    OBVIOUS
  <1> QED
    BY <1>1, <1>2, <1>3, ChecksHold

LEMMA ReadSettingHolds ==
  ASSUME ProfilesInv, ReadSetting
  PROVE  ProfilesInv'
  <1> DEFINE R == Reasons(profile, asking.door, asking.viewer)
  <1>1. /\ asking.at = "setting"
        /\ IF profile.gone \/ ~profile.listed THEN AnswerRequest("missing", {})
           ELSE Proceed([asking EXCEPT !.at = "allowed"])
    BY DEF ReadSetting
  <1>2. Underway(asking)
    BY <1>1 DEF Underway, Answers
  <1>3. /\ asking \in AskingRecords /\ asking.held \subseteq R
        /\ asking.door = "similar" /\ asking.viewer # "owner" /\ asking.held \subseteq {"unlisted"}
    BY <1>1, <1>2, AsAsked DEF Stage
  <1>4. CASE profile.gone \/ ~profile.listed
    <2>1. R # {}
      BY <1>3, <1>4 DEF Reasons, ReasonNames
    <2>2. "missing" \in Answers
      BY DEF Answers
    <2> QED
      BY <1>1, <1>2, <1>4, <2>1, <2>2, AnswersHold
  <1>5. CASE ~(profile.gone \/ ~profile.listed)
    <2> DEFINE c == [asking EXCEPT !.at = "allowed"]
    <2>1. asking' = c /\ NothingMoves
      BY <1>1, <1>5 DEF Proceed, NothingMoves
    <2>2. /\ c \in AskingRecords /\ c.at = "allowed" /\ c.door = asking.door
          /\ c.viewer = asking.viewer /\ c.held = asking.held /\ c.steady = asking.steady
      BY <1>3 DEF AskingRecords
    <2> HIDE DEF c
    <2>3. Underway(c)
      BY <2>2 DEF Underway, Answers
    <2>4. "unlisted" \notin R
      BY <1>5 DEF Reasons
    <2>5. asking.held = {}
      BY <1>3, <2>4
    <2>6. Stage(c, profile)
      BY <2>2, <2>5 DEF Stage
    <2> QED
      BY <1>2, <2>1, <2>2, <2>3, <2>6, GoesOn
  <1> QED
    BY <1>4, <1>5

LEMMA ShowHolds ==
  ASSUME ProfilesInv, NEW door, NEW kinds, Show(door, kinds)
  PROVE  ProfilesInv'
  <1>1. /\ asking.at \in {"allowed", "own"}
        /\ IF profile.gone THEN AnswerRequest("missing", {})
           ELSE AnswerRequest("shown", items \cap kinds)
    BY DEF Show
  <1>2. Underway(asking)
    BY <1>1 DEF Underway, Answers
  <1>3. asking.held = {}
    BY <1>1, <1>2, AsAsked DEF Stage
  <1>4. {"missing", "shown"} \subseteq Answers
    BY DEF Answers
  <1>5. CASE profile.gone
    <2>1. Reasons(profile, asking.door, asking.viewer) # {}
      BY <1>5 DEF Reasons, ReasonNames
    <2> QED
      BY <1>1, <1>2, <1>4, <1>5, <2>1, AnswersHold
  <1>6. CASE ~profile.gone
    <2>1. items \cap kinds \in SUBSET Items
      BY DEF ProfilesInv, ProfilesTypeOK
    <2> QED
      BY <1>1, <1>2, <1>3, <1>4, <1>6, <2>1, AnswersHold
  <1> QED
    BY <1>5, <1>6

\* A door that reads everything it asks about in one statement.
LEMMA OneStatementHolds ==
  ASSUME ProfilesInv, Underway(asking), NEW shown \in SUBSET Items,
         \/ Reasons(profile, asking.door, asking.viewer) # {} /\ AnswerRequest("missing", {})
         \/ Reasons(profile, asking.door, asking.viewer) = {} /\ AnswerRequest("shown", shown)
  PROVE  ProfilesInv'
  <1>1. {"missing", "shown"} \subseteq Answers
    BY DEF Answers
  <1>2. asking.held \subseteq Reasons(profile, asking.door, asking.viewer)
    BY AsAsked
  <1>3. CASE /\ Reasons(profile, asking.door, asking.viewer) # {}
             /\ AnswerRequest("missing", {})
    BY <1>1, <1>3, AnswersHold
  <1>4. CASE /\ Reasons(profile, asking.door, asking.viewer) = {}
             /\ AnswerRequest("shown", shown)
    <2>1. asking.held = {}
      BY <1>2, <1>4
    <2> QED
      BY <1>1, <1>4, <2>1, AnswersHold
  <1> QED
    BY <1>3, <1>4

LEMMA OwnPagesHolds ==
  ASSUME ProfilesInv, OwnPages
  PROVE  ProfilesInv'
  <1> DEFINE refused == profile.gone
  <1>1. /\ asking.at = "begun" /\ asking.door = "own"
        /\ IF refused THEN AnswerRequest("missing", {}) ELSE AnswerRequest("shown", items)
    BY DEF OwnPages
  <1>2. Underway(asking)
    BY <1>1 DEF Underway, Answers
  <1>3. asking.door = "own" => asking.viewer = "owner"
    BY <1>1, <1>2, AsAsked DEF Stage
  <1>4. refused => Reasons(profile, asking.door, asking.viewer) # {}
    BY <1>1 DEF Reasons, ReasonNames, ListDoors
  <1>5. ~refused => Reasons(profile, asking.door, asking.viewer) = {}
    BY <1>1, <1>3 DEF Reasons, ReasonNames, ListDoors
  <1>6. items \in SUBSET Items /\ {} \in SUBSET Items
    BY DEF ProfilesInv, ProfilesTypeOK
  <1> HIDE DEF refused
  <1> QED
    BY <1>1, <1>2, <1>4, <1>5, <1>6, OneStatementHolds

LEMMA SearchHolds ==
  ASSUME ProfilesInv, Search
  PROVE  ProfilesInv'
  <1> DEFINE refused == \/ profile.gone \/ profile.closing \/ profile.private
                        \/ asking.viewer = "other" /\ (profile.blocked \/ profile.blocking)
  <1>1. /\ asking.at = "begun" /\ asking.door = "search"
        /\ IF refused THEN AnswerRequest("missing", {}) ELSE AnswerRequest("shown", {})
    BY DEF Search
  <1>2. Underway(asking)
    BY <1>1 DEF Underway, Answers
  <1>3. asking.door = "own" => asking.viewer = "owner"
    BY <1>1, <1>2, AsAsked DEF Stage
  <1>4. refused => Reasons(profile, asking.door, asking.viewer) # {}
    BY <1>1 DEF Reasons, ReasonNames, ListDoors
  <1>5. ~refused => Reasons(profile, asking.door, asking.viewer) = {}
    BY <1>1, <1>3 DEF Reasons, ReasonNames, ListDoors
  <1>6. items \in SUBSET Items /\ {} \in SUBSET Items
    BY DEF ProfilesInv, ProfilesTypeOK
  <1> HIDE DEF refused
  <1> QED
    BY <1>1, <1>2, <1>4, <1>5, <1>6, OneStatementHolds

LEMMA FollowListHolds ==
  ASSUME ProfilesInv, FollowList
  PROVE  ProfilesInv'
  <1> DEFINE refused == \/ profile.gone \/ profile.closing \/ ~profile.followed
                        \/ profile.private /\ asking.viewer # "owner"
                        \/ asking.viewer = "other" /\ (profile.blocked \/ profile.blocking)
  <1>1. /\ asking.at = "begun" /\ asking.door = "followers"
        /\ IF refused THEN AnswerRequest("missing", {}) ELSE AnswerRequest("shown", {})
    BY DEF FollowList
  <1>2. Underway(asking)
    BY <1>1 DEF Underway, Answers
  <1>3. asking.door = "own" => asking.viewer = "owner"
    BY <1>1, <1>2, AsAsked DEF Stage
  <1>4. refused => Reasons(profile, asking.door, asking.viewer) # {}
    BY <1>1 DEF Reasons, ReasonNames, ListDoors
  <1>5. ~refused => Reasons(profile, asking.door, asking.viewer) = {}
    BY <1>1, <1>3 DEF Reasons, ReasonNames, ListDoors
  <1>6. items \in SUBSET Items /\ {} \in SUBSET Items
    BY DEF ProfilesInv, ProfilesTypeOK
  <1> HIDE DEF refused
  <1> QED
    BY <1>1, <1>2, <1>4, <1>5, <1>6, OneStatementHolds

LEMMA ActiveFollowsHolds ==
  ASSUME ProfilesInv, ActiveFollows
  PROVE  ProfilesInv'
  <1> DEFINE refused == \/ profile.gone \/ profile.closing \/ profile.private
                        \/ ~profile.followed \/ profile.blocked \/ profile.blocking
             R == Reasons(profile, asking.door, asking.viewer)
  <1>1. /\ asking.at = "begun" /\ asking.door = "feed"
        /\ IF refused THEN AnswerRequest("missing", {})
           ELSE Proceed([asking EXCEPT !.at = "allowed"])
    BY DEF ActiveFollows
  <1>2. Underway(asking)
    BY <1>1 DEF Underway, Answers
  <1>3. asking.viewer = "other" /\ asking \in AskingRecords /\ asking.held \subseteq R
    BY <1>1, <1>2, AsAsked DEF Stage
  <1>4. CASE refused
    <2>1. R # {}
      BY <1>1, <1>3, <1>4 DEF Reasons, ReasonNames, ListDoors
    <2>2. "missing" \in Answers
      BY DEF Answers
    <2> QED
      BY <1>1, <1>2, <1>4, <2>1, <2>2, AnswersHold
  <1>5. CASE ~refused
    <2> DEFINE c == [asking EXCEPT !.at = "allowed"]
    <2>1. asking' = c /\ NothingMoves
      BY <1>1, <1>5 DEF Proceed, NothingMoves
    <2>2. /\ c \in AskingRecords /\ c.at = "allowed" /\ c.door = asking.door
          /\ c.viewer = asking.viewer /\ c.held = asking.held /\ c.steady = asking.steady
      BY <1>3 DEF AskingRecords
    <2> HIDE DEF c
    <2>3. Underway(c)
      BY <2>2 DEF Underway, Answers
    <2>4. R = {}
      BY <1>1, <1>5 DEF Reasons, ReasonNames, ListDoors
    <2>5. Stage(c, profile)
      BY <1>3, <2>2, <2>4 DEF Stage
    <2> QED
      BY <1>2, <2>1, <2>2, <2>3, <2>5, GoesOn
  <1> QED
    BY <1>4, <1>5

(***************************************************************************)
(* Changes of the profile.                                                 *)
(***************************************************************************)

\* A change takes reasons away from what has held, and adds none: what the
\* request has left to look for only gets less.
LEMMA MeanwhileHolds ==
  ASSUME ProfilesInv, NEW p \in ProfileRecords, Meanwhile(p),
         items' \subseteq Items /\ secret' \subseteq items',
         sightChanges' \in 0 .. MaxSightChanges
  PROVE  ProfilesInv'
  <1>1. profile' = p /\ asking \in AskingRecords
    BY DEF Meanwhile, ProfilesInv, ProfilesTypeOK
  <1>2. CASE asking.at = "idle"
    <2>1. asking' = asking
      BY <1>2 DEF Meanwhile
    <2>2. ~Underway(asking') /\ ~Answered'
      BY <1>2, <2>1 DEF Underway, Answered, Answers
    <2> QED
      BY <1>1, <2>1, <2>2 DEF ProfilesInv, ProfilesTypeOK, DoorsAgree, BlockedFindNobody
  <1>3. CASE asking.at \in Answers
    <2>1. asking' = NotAsking
      BY <1>3 DEF Meanwhile, Answers
    <2> QED
      BY <1>1, <2>1, IdleHolds
  <1>4. CASE Underway(asking)
    <2> DEFINE R == Reasons(p, asking.door, asking.viewer)
               h == asking.held \cap R
               c == [asking EXCEPT !.held = h, !.steady = FALSE]
    <2>1. asking' = c
      BY <1>4 DEF Meanwhile, Underway
    <2>2. Stage(asking, profile) /\ h \subseteq asking.held /\ h \subseteq R
      BY <1>4, AsAsked
    <2> HIDE DEF R, h
    <2>3. asking.held \subseteq ReasonNames
      BY <1>4, AsAsked
    <2>4. /\ c \in AskingRecords /\ c.at = asking.at /\ c.door = asking.door
          /\ c.viewer = asking.viewer /\ c.held = h /\ c.steady = FALSE
          /\ c.private = asking.private
      BY <1>1, <2>2, <2>3 DEF AskingRecords
    <2> HIDE DEF c
    <2>5. ~Answered'
      BY <1>4, <2>1, <2>4 DEF Answered, Underway
    <2>6. HeldStands(c, p)
      BY <2>2, <2>4 DEF HeldStands, R
    <2>7. Stage(c, p)
      BY <2>2, <2>4 DEF Stage
    <2> QED
      BY <1>1, <2>1, <2>4, <2>5, <2>6, <2>7
      DEF ProfilesInv, ProfilesTypeOK, DoorsAgree, BlockedFindNobody
  <1> QED
    BY <1>2, <1>3, <1>4 DEF Underway

LEMMA CountsOn ==
  ASSUME ProfilesInv, Count
  PROVE  sightChanges' \in 0 .. MaxSightChanges
BY ProfilesConstants DEF ProfilesInv, ProfilesTypeOK, Count

LEMMA ToggleHolds ==
  ASSUME ProfilesInv, NEW field \in Toggles, Toggle(field)
  PROVE  ProfilesInv'
  <1> DEFINE p == [profile EXCEPT ![field] = ~@]
             q == IF p.blocked \/ p.blocking THEN [p EXCEPT !.followed = FALSE] ELSE p
  <1>1. Meanwhile(q)
    BY DEF Toggle
  <1>2. items' \subseteq Items /\ secret' \subseteq items'
    BY DEF Toggle, ProfilesInv, ProfilesTypeOK
  <1>3. sightChanges' \in 0 .. MaxSightChanges
    BY CountsOn DEF Toggle
  <1>4. profile \in ProfileRecords
    BY DEF ProfilesInv, ProfilesTypeOK
  <1>5. profile[field] \in BOOLEAN
    BY <1>4 DEF ProfileRecords, Toggles
  <1>6. p \in ProfileRecords
    BY <1>4, <1>5 DEF ProfileRecords, Toggles
  <1> HIDE DEF p
  <1>7. q \in ProfileRecords
    BY <1>6 DEF ProfileRecords
  <1> QED
    BY <1>1, <1>2, <1>3, <1>7, MeanwhileHolds

LEMMA DeletionHolds ==
  ASSUME ProfilesInv, AskOrCancelDeletion \/ EraseProfile
  PROVE  ProfilesInv'
  <1>1. PICK p \in {[profile EXCEPT !.closing = ~@], [profile EXCEPT !.gone = TRUE]} :
          Meanwhile(p)
    BY DEF AskOrCancelDeletion, EraseProfile
  <1>2. profile \in ProfileRecords
    BY DEF ProfilesInv, ProfilesTypeOK
  <1>3. p \in ProfileRecords
    BY <1>1, <1>2 DEF ProfileRecords
  <1>4. items' \subseteq Items /\ secret' \subseteq items'
    BY DEF AskOrCancelDeletion, EraseProfile, ProfilesInv, ProfilesTypeOK
  <1>5. sightChanges' \in 0 .. MaxSightChanges
    BY CountsOn DEF AskOrCancelDeletion, EraseProfile
  <1> QED
    BY <1>1, <1>3, <1>4, <1>5, MeanwhileHolds

LEMMA MakeItemHolds ==
  ASSUME ProfilesInv, NEW i \in Items, MakeItem(i)
  PROVE  ProfilesInv'
  <1>1. /\ UNCHANGED <<profile, asking, sightChanges>>
        /\ items' \subseteq Items /\ secret' \subseteq items'
    BY DEF MakeItem, ProfilesInv, ProfilesTypeOK
  <1> QED
    BY <1>1 DEF ProfilesInv, ProfilesTypeOK, DoorsAgree, BlockedFindNobody, Answered

-----------------------------------------------------------------------------
(***************************************************************************)
(* Every step.                                                             *)
(***************************************************************************)
LEMMA EndRequestHolds ==
  ASSUME ProfilesInv, EndRequest
  PROVE  ProfilesInv'
  <1>1. asking' = NotAsking /\ NothingMoves
    BY DEF EndRequest, Proceed, NothingMoves
  <1> QED
    BY <1>1, IdleHolds DEF ProfilesInv, ProfilesTypeOK, NothingMoves

LEMMA ProfilesInvStep ==
  ProfilesInv /\ [ProfilesNext]_profileVars => ProfilesInv'
  <1> SUFFICES ASSUME ProfilesInv, [ProfilesNext]_profileVars PROVE ProfilesInv'
    OBVIOUS
  <1>1. CASE UNCHANGED profileVars
    BY <1>1 DEF profileVars, ProfilesInv, ProfilesTypeOK, DoorsAgree, BlockedFindNobody, Answered
  <1>2. CASE \E field \in Toggles : Toggle(field)
    BY <1>2, ToggleHolds
  <1>3. CASE AskOrCancelDeletion \/ EraseProfile
    BY <1>3, DeletionHolds
  <1>4. CASE \E i \in Items : MakeItem(i)
    BY <1>4, MakeItemHolds
  <1>5. CASE \E door \in Doors, viewer \in DoorViewers : BeginRequest(door, viewer)
    BY <1>5, BeginHolds
  <1>6. CASE EndRequest
    BY <1>6, EndRequestHolds
  <1>7. CASE FindUser \/ EnsureVisible \/ FindUserAgain \/ ReadSetting
    BY <1>7, FindUserHolds, EnsureVisibleHolds, FindUserAgainHolds, ReadSettingHolds
  <1>8. CASE VisibleUser \/ ListenBrainzVisible \/ SeenUser
    BY <1>8, OtherChecksHold
  <1>9. CASE \/ GetProfile \/ GetFriends \/ RecentScrobbles \/ TopLists \/ ActivityHeatmap
             \/ PersonalCharts \/ UserLoved \/ UserTags \/ LiveNowPlaying \/ SimilarUsers
    BY <1>9, ShowHolds
    DEF GetProfile, GetFriends, RecentScrobbles, TopLists, ActivityHeatmap, PersonalCharts,
        UserLoved, UserTags, LiveNowPlaying, SimilarUsers
  <1>10. CASE \/ UserInfo \/ RecentTracks \/ LovedTracks \/ UserEntityTags \/ UserTopTags
              \/ TrackInfo \/ ArtistInfo \/ GetFeedback \/ GetFeedbackForRecordings
              \/ FeedEntries
    BY <1>10, ShowHolds
    DEF UserInfo, RecentTracks, LovedTracks, UserEntityTags, UserTopTags, TrackInfo,
        ArtistInfo, GetFeedback, GetFeedbackForRecordings, FeedEntries
  <1>11. CASE OwnPages \/ Search \/ FollowList \/ ActiveFollows
    BY <1>11, OwnPagesHolds, SearchHolds, FollowListHolds, ActiveFollowsHolds
  <1> QED
    BY <1>1, <1>2, <1>3, <1>4, <1>5, <1>6, <1>7, <1>8, <1>9, <1>10, <1>11 DEF ProfilesNext

LEMMA ProfilesInvInit ==
  ProfilesInit => ProfilesInv
  <1> SUFFICES ASSUME ProfilesInit PROVE ProfilesInv
    OBVIOUS
  <1>1. profile \in ProfileRecords
    BY DEF ProfilesInit, ProfileRecords
  <1>2. asking \in AskingRecords /\ asking.at = "idle"
    BY NotAskingIs DEF ProfilesInit
  <1>3. sightChanges \in 0 .. MaxSightChanges
    BY ProfilesConstants DEF ProfilesInit
  <1>4. secret \subseteq items /\ items \subseteq Items
    BY DEF ProfilesInit
  <1>5. ~Underway(asking) /\ ~Answered
    BY <1>2 DEF Underway, Answered, Answers
  <1> QED
    BY <1>1, <1>2, <1>3, <1>4, <1>5
    DEF ProfilesInv, ProfilesTypeOK, DoorsAgree, BlockedFindNobody

LEMMA DoorsAlwaysAgree ==
  ProfilesSpec => [](ProfilesTypeOK /\ DoorsAgree /\ BlockedFindNobody)
  <1>1. ProfilesInit => ProfilesInv
    BY ProfilesInvInit
  <1>2. ProfilesInv /\ [ProfilesNext]_profileVars => ProfilesInv'
    BY ProfilesInvStep
  <1>3. ProfilesInv => ProfilesTypeOK /\ DoorsAgree /\ BlockedFindNobody
    BY DEF ProfilesInv
  <1> QED
    BY <1>1, <1>2, <1>3, PTL DEF ProfilesSpec

-----------------------------------------------------------------------------
(***************************************************************************)
(* LiveStreams.                                                            *)
(***************************************************************************)

(***************************************************************************)
(* The invariant follows each viewer's messages from where they are owed   *)
(* to the stream, by way of the bus and the stream's buffer.               *)
(***************************************************************************)
Closes(s, v) == \E i \in DOMAIN s : v \in s[i].close
AtMost(s, n) == \A i \in DOMAIN s : s[i].shows <= n

\* The last update of s, if it has one, is of version n.
NewestIs(s, n) ==
  \A i \in 1 .. Len(s) :
    IsUpdate(s[i]) /\ (\A k \in (i + 1) .. Len(s) : ~IsUpdate(s[k])) => s[i].shows = n

Settled == ~crossed /\ \A p \in Players : player[p].at = "idle"

\* What v gets to show at last is what is playing.
NewestComes(v) ==
  /\ NewestIs(bus, playing)
  /\ Listening(v) /\ ~HasUpdate(bus) => NewestIs(stream[v].buffer, playing)
  /\ /\ stream[v].at \in {"shown", "open"}
     /\ ~HasUpdate(bus) /\ ~HasUpdate(stream[v].buffer) /\ v \notin behind
     => stream[v].shows = playing

\* A stream that checked has its closing message on the way once the viewer
\* may not look: of a block since the check, of a private profile since it
\* was read.
EndComes(v) ==
  /\ stream[v].at \in {"checked", "shown", "open"} /\ ~MayLook(v) => ClosingComes(v)
  /\ stream[v].at = "reread" /\ hidden /\ ~stream[v].private => ClosingComes(v)

StreamStands(v) ==
  /\ Len(stream[v].buffer) <= BUFFER /\ stream[v].shows <= playing
  /\ AtMost(stream[v].buffer, playing)
  /\ stream[v].at \in {"none", "asked"} => stream[v].buffer = <<>>
  /\ v \notin missed => EndComes(v)
  /\ Settled => NewestComes(v)

UpdatesStand ==
  /\ AtMost(bus, playing)
  /\ \A p \in Players : player[p].read <= playing
  /\ \A m \in owesClose : m.shows <= playing /\ (IsUpdate(m) => Viewers = {})
  /\ republish.read <= playing
  /\ ~crossed =>
       /\ republish.at = "read" => republish.read = playing
       /\ \A p, q \in Players : player[p].at # "idle" /\ player[q].at # "idle" => p = q
       /\ \A p \in Players : player[p].at = "read" => player[p].read = playing

LiveTypes ==
  /\ hidden \in BOOLEAN /\ crossed \in BOOLEAN
  /\ shunned \subseteq Viewers /\ missed \subseteq Viewers /\ behind \subseteq Viewers
  /\ playing \in Nat /\ events \in 0 .. MaxEvents /\ lostOnes \in Nat
  /\ player \in [Players -> [at : {"idle", "stored", "read"}, read : Nat]]
  /\ republish \in [at : {"idle", "read"}, read : Nat, times : Nat]
  /\ owesClose \subseteq Messages /\ bus \in Seq(Messages)
  /\ stream \in [Viewers -> Streams]

LiveInv ==
  /\ LiveTypes
  /\ UpdatesStand
  /\ \A v \in Viewers : StreamStands(v)

(***************************************************************************)
(* Sequences of messages.                                                  *)
(***************************************************************************)
LEMMA TailOf ==
  ASSUME NEW s \in Seq(Messages), s # <<>>
  PROVE  /\ Head(s) \in Messages /\ Tail(s) \in Seq(Messages)
         /\ Len(s) \in Nat /\ Len(s) > 0 /\ Len(Tail(s)) = Len(s) - 1
         /\ DOMAIN s = 1 .. Len(s) /\ DOMAIN Tail(s) = 1 .. Len(Tail(s))
         /\ Head(s) = s[1]
         /\ \A i \in 1 .. Len(Tail(s)) : Tail(s)[i] = s[i + 1]
OBVIOUS

LEMMA AppendOf ==
  ASSUME NEW s \in Seq(Messages), NEW m \in Messages
  PROVE  /\ Append(s, m) \in Seq(Messages) /\ Len(s) \in Nat
         /\ Len(Append(s, m)) = Len(s) + 1
         /\ DOMAIN s = 1 .. Len(s) /\ DOMAIN Append(s, m) = 1 .. (Len(s) + 1)
         /\ \A i \in 1 .. Len(s) : Append(s, m)[i] = s[i]
         /\ Append(s, m)[Len(s) + 1] = m
OBVIOUS

LEMMA TailIndex ==
  ASSUME NEW s \in Seq(Messages), s # <<>>, NEW i \in DOMAIN s
  PROVE  i = 1 \/ (i - 1 \in DOMAIN Tail(s) /\ Tail(s)[i - 1] = s[i])
  <1>1. /\ Len(s) \in Nat /\ DOMAIN s = 1 .. Len(s) /\ DOMAIN Tail(s) = 1 .. (Len(s) - 1)
        /\ \A k \in 1 .. Len(Tail(s)) : Tail(s)[k] = s[k + 1]
        /\ Len(Tail(s)) = Len(s) - 1
    BY TailOf
  <1>2. i \in 1 .. Len(s)
    BY <1>1
  <1>3. CASE i # 1
    <2>1. i - 1 \in 1 .. (Len(s) - 1) /\ (i - 1) + 1 = i
      BY <1>1, <1>2, <1>3
    <2> QED
      BY <1>1, <2>1
  <1> QED
    BY <1>3

LEMMA TailFacts ==
  ASSUME NEW s \in Seq(Messages), s # <<>>, NEW n
  PROVE  /\ \A v : Closes(s, v) <=> (v \in Head(s).close \/ Closes(Tail(s), v))
         /\ HasUpdate(s) <=> (IsUpdate(Head(s)) \/ HasUpdate(Tail(s)))
         /\ AtMost(s, n) => Head(s).shows <= n /\ AtMost(Tail(s), n)
         /\ NewestIs(s, n) => NewestIs(Tail(s), n)
         /\ NewestIs(s, n) /\ IsUpdate(Head(s)) /\ ~HasUpdate(Tail(s)) => Head(s).shows = n
  <1>1. /\ Len(s) \in Nat /\ Len(s) > 0 /\ DOMAIN s = 1 .. Len(s)
        /\ DOMAIN Tail(s) = 1 .. (Len(s) - 1) /\ Len(Tail(s)) = Len(s) - 1
        /\ Head(s) = s[1] /\ 1 \in DOMAIN s
    BY TailOf
  <1>2. \A i \in DOMAIN Tail(s) : i \in Nat /\ i + 1 \in DOMAIN s /\ Tail(s)[i] = s[i + 1]
    BY <1>1, TailOf
  <1>3. \A i \in DOMAIN s : i = 1 \/ (i - 1 \in DOMAIN Tail(s) /\ Tail(s)[i - 1] = s[i])
    BY TailIndex
  <1>4. \A v : Closes(s, v) <=> (v \in Head(s).close \/ Closes(Tail(s), v))
    BY <1>1, <1>2, <1>3 DEF Closes
  <1>5. HasUpdate(s) <=> (IsUpdate(Head(s)) \/ HasUpdate(Tail(s)))
    BY <1>1, <1>2, <1>3 DEF HasUpdate, IsUpdate
  <1>6. AtMost(s, n) => Head(s).shows <= n /\ AtMost(Tail(s), n)
    BY <1>1, <1>2 DEF AtMost
  <1>7. ASSUME NewestIs(s, n) PROVE NewestIs(Tail(s), n)
    <2> SUFFICES ASSUME NEW i \in 1 .. Len(Tail(s)), IsUpdate(Tail(s)[i]),
                        \A k \in (i + 1) .. Len(Tail(s)) : ~IsUpdate(Tail(s)[k])
                 PROVE  Tail(s)[i].shows = n
      BY DEF NewestIs
    <2>1. i \in DOMAIN Tail(s) /\ i \in Nat /\ i + 1 \in 1 .. Len(s)
      BY <1>1
    <2>2. Tail(s)[i] = s[i + 1]
      BY <1>2, <2>1
    <2>3. \A k \in ((i + 1) + 1) .. Len(s) : ~IsUpdate(s[k])
      <3> TAKE k \in ((i + 1) + 1) .. Len(s)
      <3>1. k \in DOMAIN s /\ k # 1 /\ k - 1 \in (i + 1) .. Len(Tail(s))
        BY <1>1, <2>1
      <3>2. Tail(s)[k - 1] = s[k]
        BY <1>3, <3>1
      <3> QED
        BY <3>1, <3>2
    <2> QED
      BY <1>7, <2>1, <2>2, <2>3 DEF NewestIs
  <1>8. ASSUME NewestIs(s, n), IsUpdate(Head(s)), ~HasUpdate(Tail(s)) PROVE Head(s).shows = n
    <2>1. \A k \in (1 + 1) .. Len(s) : ~IsUpdate(s[k])
      <3> TAKE k \in (1 + 1) .. Len(s)
      <3>1. k \in DOMAIN s /\ k # 1
        BY <1>1
      <3> QED
        BY <1>3, <1>8, <3>1 DEF HasUpdate
    <2>2. 1 \in 1 .. Len(s)
      BY <1>1
    <2> QED
      BY <1>1, <1>8, <2>1, <2>2 DEF NewestIs
  <1> QED
    BY <1>4, <1>5, <1>6, <1>7, <1>8

LEMMA AppendFacts ==
  ASSUME NEW s \in Seq(Messages), NEW m \in Messages, NEW n
  PROVE  /\ \A v : Closes(Append(s, m), v) <=> (Closes(s, v) \/ v \in m.close)
         /\ HasUpdate(Append(s, m)) <=> (HasUpdate(s) \/ IsUpdate(m))
         /\ AtMost(s, n) /\ m.shows <= n => AtMost(Append(s, m), n)
         /\ NewestIs(s, n) /\ ~IsUpdate(m) => NewestIs(Append(s, m), n)
         /\ IsUpdate(m) /\ m.shows = n => NewestIs(Append(s, m), n)
  <1> DEFINE a == Append(s, m)
             l == Len(s) + 1
  <1>1. /\ Len(s) \in Nat /\ Len(a) = l /\ DOMAIN s = 1 .. Len(s) /\ DOMAIN a = 1 .. l
        /\ a[l] = m
    BY AppendOf
  <1>2. \A i \in DOMAIN s : i \in DOMAIN a /\ a[i] = s[i]
    BY <1>1, AppendOf
  <1>3. \A i \in DOMAIN a : i = l \/ i \in DOMAIN s
    BY <1>1
  <1>4. l \in DOMAIN a /\ a[l] = m
    BY <1>1
  <1> HIDE DEF a
  <1>5. \A v : Closes(a, v) <=> (Closes(s, v) \/ v \in m.close)
    BY <1>2, <1>3, <1>4 DEF Closes
  <1>6. HasUpdate(a) <=> (HasUpdate(s) \/ IsUpdate(m))
    BY <1>2, <1>3, <1>4 DEF HasUpdate, IsUpdate
  <1>7. AtMost(s, n) /\ m.shows <= n => AtMost(a, n)
    BY <1>2, <1>3, <1>4 DEF AtMost
  <1>8. ASSUME NewestIs(s, n), ~IsUpdate(m) PROVE NewestIs(a, n)
    <2> SUFFICES ASSUME NEW i \in 1 .. Len(a), IsUpdate(a[i]),
                        \A k \in (i + 1) .. Len(a) : ~IsUpdate(a[k])
                 PROVE  a[i].shows = n
      BY DEF NewestIs
    <2>1. i \in DOMAIN s /\ i \in 1 .. Len(s) /\ a[i] = s[i]
      BY <1>1, <1>2, <1>3, <1>8
    <2>2. \A k \in (i + 1) .. Len(s) : ~IsUpdate(s[k])
      <3> TAKE k \in (i + 1) .. Len(s)
      <3>1. k \in DOMAIN s /\ k \in (i + 1) .. Len(a)
        BY <1>1, <2>1
      <3> QED
        BY <1>2, <3>1
    <2> QED
      BY <1>8, <2>1, <2>2 DEF NewestIs
  <1>9. ASSUME IsUpdate(m), m.shows = n PROVE NewestIs(a, n)
    <2> SUFFICES ASSUME NEW i \in 1 .. Len(a), IsUpdate(a[i]),
                        \A k \in (i + 1) .. Len(a) : ~IsUpdate(a[k])
                 PROVE  a[i].shows = n
      BY DEF NewestIs
    <2>1. i = l
      <3>1. i # l => l \in (i + 1) .. Len(a)
        BY <1>1
      <3> QED
        BY <1>4, <1>9, <3>1
    <2> QED
      BY <1>4, <1>9, <2>1
  <1> QED
    BY <1>5, <1>6, <1>7, <1>8, <1>9 DEF a

LEMMA NothingThere ==
  /\ <<>> \in Seq(Messages) /\ Len(<<>>) = 0 /\ DOMAIN <<>> = {}
  /\ \A n : AtMost(<<>>, n) /\ NewestIs(<<>>, n)
  /\ ~HasUpdate(<<>>)
  <1>1. <<>> \in Seq(Messages) /\ Len(<<>>) = 0 /\ DOMAIN <<>> = {}
    OBVIOUS
  <1> QED
    BY <1>1 DEF AtMost, NewestIs, HasUpdate

\* What a message does to a buffer that is full, and to one that isn't.
LEMMA BufferedFacts ==
  ASSUME NEW c \in Streams, Len(c.buffer) <= BUFFER, NEW m \in Messages
  PROVE  LET b == Buffered(c, m)
             full == Len(c.buffer) = BUFFER
             lost == Head(c.buffer) IN
         /\ b \in Seq(Messages) /\ Len(b) <= BUFFER
         /\ full => c.buffer # <<>>
         /\ \A n : AtMost(c.buffer, n) /\ m.shows <= n => AtMost(b, n)
         /\ \A n : NewestIs(c.buffer, n) /\ ~IsUpdate(m) => NewestIs(b, n)
         /\ \A n : IsUpdate(m) /\ m.shows = n => NewestIs(b, n)
         /\ IsUpdate(m) => HasUpdate(b)
         /\ HasUpdate(c.buffer) => \/ HasUpdate(b)
                                   \/ full /\ IsUpdate(lost) /\ ~HasUpdate(Tail(c.buffer))
         /\ \A v : Closes(c.buffer, v) => Closes(b, v) \/ (full /\ v \in lost.close)
         /\ \A v : v \in m.close => Closes(b, v)
  <1> DEFINE s == c.buffer
  <1>1. s \in Seq(Messages) /\ Len(s) \in Nat /\ BUFFER \in Nat \ {0}
    BY LiveConstants DEF Streams
  <1>2. CASE Len(s) < BUFFER
    <2>1. Buffered(c, m) = Append(s, m) /\ Len(s) # BUFFER
      BY <1>1, <1>2 DEF Buffered
    <2>2. Append(s, m) \in Seq(Messages) /\ Len(Append(s, m)) <= BUFFER
      BY <1>1, <1>2, AppendOf
    <2> HIDE DEF s
    <2> QED
      BY <1>1, <2>1, <2>2, AppendFacts DEF s
  <1>3. CASE ~(Len(s) < BUFFER)
    <2>1. Buffered(c, m) = Append(Tail(s), m) /\ Len(s) = BUFFER /\ s # <<>>
      BY <1>1, <1>3 DEF Buffered
    <2>2. Tail(s) \in Seq(Messages) /\ Len(Tail(s)) = Len(s) - 1
      BY <1>1, <2>1, TailOf
    <2>3. Append(Tail(s), m) \in Seq(Messages) /\ Len(Append(Tail(s), m)) <= BUFFER
      BY <1>1, <2>1, <2>2, AppendOf
    <2> HIDE DEF s
    <2>4. \A n : AtMost(s, n) /\ m.shows <= n => AtMost(Append(Tail(s), m), n)
      BY <1>1, <2>1, <2>2, TailFacts, AppendFacts
    <2>5. \A n : /\ NewestIs(s, n) /\ ~IsUpdate(m) => NewestIs(Append(Tail(s), m), n)
                 /\ IsUpdate(m) /\ m.shows = n => NewestIs(Append(Tail(s), m), n)
      BY <1>1, <2>1, <2>2, TailFacts, AppendFacts
    <2>6. HasUpdate(Append(Tail(s), m)) <=> HasUpdate(Tail(s)) \/ IsUpdate(m)
      BY <2>2, AppendFacts
    <2>7. HasUpdate(s) <=> IsUpdate(Head(s)) \/ HasUpdate(Tail(s))
      BY <1>1, <2>1, TailFacts
    <2>8. \A v : Closes(s, v) <=> (v \in Head(s).close \/ Closes(Tail(s), v))
      BY <1>1, <2>1, TailFacts
    <2>9. \A v : Closes(Append(Tail(s), m), v) <=> (Closes(Tail(s), v) \/ v \in m.close)
      BY <2>2, AppendFacts
    <2> QED
      BY <2>1, <2>3, <2>4, <2>5, <2>6, <2>7, <2>8, <2>9 DEF s
  <1> QED
    BY <1>2, <1>3

(***************************************************************************)
(* Steps of one stream.                                                    *)
(***************************************************************************)
NothingElse == UNCHANGED <<hidden, shunned, playing, player, republish, owesClose, bus, events,
                           lostOnes, crossed>>

LEMMA OneStream ==
  ASSUME LiveInv, NothingElse, NEW v \in Viewers,
         stream' \in [Viewers -> Streams],
         \A w \in Viewers \ {v} : stream'[w] = stream[w],
         missed' \in SUBSET Viewers, behind' \in SUBSET Viewers,
         \A w \in Viewers \ {v} : (w \in missed' <=> w \in missed) /\ (w \in behind' <=> w \in behind),
         StreamStands(v)'
  PROVE  LiveInv'
  <1>1. LiveTypes' /\ UpdatesStand'
    BY DEF LiveInv, LiveTypes, UpdatesStand, NothingElse
  <1>2. ASSUME NEW w \in Viewers \ {v} PROVE StreamStands(w)'
    <2>1. StreamStands(w) /\ stream'[w] = stream[w]
      BY DEF LiveInv
    <2>2. (w \in missed' <=> w \in missed) /\ (w \in behind' <=> w \in behind)
      OBVIOUS
    <2>3. EndComes(w)' <=> EndComes(w)
      BY <2>1 DEF EndComes, MayLook, ClosingComes, NothingElse
    <2>4. NewestComes(w) /\ Settled' => NewestComes(w)'
      BY <2>1, <2>2 DEF NewestComes, Listening, NothingElse
    <2>5. Settled' <=> Settled
      BY DEF Settled, NothingElse
    <2> QED
      BY <2>1, <2>2, <2>3, <2>4, <2>5 DEF StreamStands, NothingElse
  <1> QED
    BY <1>1, <1>2 DEF LiveInv

LEMMA StreamTypes ==
  ASSUME NEW c \in Streams
  PROVE  /\ \A at \in {"none", "asked", "listening", "reread", "checked", "shown", "open"} :
              LET d == [c EXCEPT !.at = at] IN
              /\ d \in Streams /\ d.at = at /\ d.private = c.private
              /\ d.buffer = c.buffer /\ d.shows = c.shows
         /\ \A p \in BOOLEAN :
              LET d == [[c EXCEPT !.at = "reread"] EXCEPT !.private = p] IN
              /\ d \in Streams /\ d.at = "reread" /\ d.private = p
              /\ d.buffer = c.buffer /\ d.shows = c.shows
         /\ \A n \in Nat :
              LET d == [[c EXCEPT !.at = "shown"] EXCEPT !.shows = n] IN
              /\ d \in Streams /\ d.at = "shown" /\ d.shows = n
              /\ d.buffer = c.buffer /\ d.private = c.private
         /\ \A b \in Seq(Messages), n \in Nat :
              LET d == [c EXCEPT !.buffer = b, !.shows = n] IN
              /\ d \in Streams /\ d.at = c.at /\ d.shows = n
              /\ d.buffer = b /\ d.private = c.private
BY DEF Streams

LEMMA NoStreamIs ==
  /\ NoStream \in Streams /\ NoStream.at = "none" /\ NoStream.buffer = <<>> /\ NoStream.shows = 0
BY NothingThere DEF NoStream, Streams

\* What is known of v's stream in a state that stands.
LEMMA AsItStands ==
  ASSUME LiveInv, NEW v \in Viewers
  PROVE  /\ StreamStands(v) /\ stream[v] \in Streams /\ stream \in [Viewers -> Streams]
         /\ playing \in Nat /\ missed \subseteq Viewers /\ behind \subseteq Viewers
         /\ hidden \in BOOLEAN /\ bus \in Seq(Messages)
BY DEF LiveInv, LiveTypes

\* A stream that begins, or is no more.
LEMMA EmptyStands ==
  ASSUME LiveInv, NothingElse, NEW v \in Viewers, NEW c \in Streams, stream'[v] = c,
         c.at \in {"none", "asked"}, c.buffer = <<>>, c.shows = 0
  PROVE  StreamStands(v)'
  <1>1. StreamStands(v) /\ playing \in Nat /\ BUFFER \in Nat
    BY AsItStands, LiveConstants
  <1>2. Settled' => NewestComes(v)'
    BY <1>1 DEF StreamStands, Settled, NewestComes, Listening, NothingElse
  <1>3. EndComes(v)'
    BY DEF EndComes
  <1>4. Len(<<>>) = 0 /\ AtMost(<<>>, playing)
    BY NothingThere
  <1>5. Len(c.buffer) <= BUFFER /\ c.shows <= playing /\ AtMost(c.buffer, playing)
    BY <1>1, <1>4
  <1> QED
    BY <1>1, <1>2, <1>3, <1>5 DEF StreamStands, NothingElse

\* A stream that goes on to another point, with the same buffer.
LEMMA MovedStands ==
  ASSUME LiveInv, NothingElse, NEW v \in Viewers, NEW c \in Streams, stream'[v] = c,
         c.at \notin {"none", "asked"}, c.buffer = stream[v].buffer, c.shows <= playing,
         v \in missed' <=> v \in missed, EndComes(v) => EndComes(v)',
         Settled /\ NewestComes(v) => NewestComes(v)'
  PROVE  StreamStands(v)'
  <1>1. StreamStands(v)
    BY AsItStands
  <1>2. Settled' => Settled
    BY DEF Settled, NothingElse
  <1> QED
    BY <1>1, <1>2 DEF StreamStands, NothingElse

LEMMA AsksHold ==
  ASSUME LiveInv, NEW v \in Viewers, AskStream(v)
  PROVE  LiveInv'
  <1> DEFINE c == [NoStream EXCEPT !.at = "asked"]
  <1>1. /\ stream' = [stream EXCEPT ![v] = c] /\ NothingElse
        /\ missed' = missed \ {v} /\ behind' = behind \ {v}
    BY DEF AskStream, NothingElse
  <1>2. c \in Streams /\ c.at = "asked" /\ c.buffer = <<>> /\ c.shows = 0
    BY NoStreamIs, StreamTypes
  <1> HIDE DEF c
  <1>3. /\ stream' \in [Viewers -> Streams] /\ stream'[v] = c
        /\ \A w \in Viewers \ {v} : stream'[w] = stream[w]
        /\ missed' \in SUBSET Viewers /\ behind' \in SUBSET Viewers
        /\ \A w \in Viewers \ {v} :
             (w \in missed' <=> w \in missed) /\ (w \in behind' <=> w \in behind)
    BY <1>1, <1>2, AsItStands
  <1>4. StreamStands(v)'
    BY <1>1, <1>2, <1>3, EmptyStands
  <1> QED
    BY <1>1, <1>3, <1>4, OneStream

LEMMA LeavesHold ==
  ASSUME LiveInv, NEW v \in Viewers, NothingElse, UNCHANGED <<missed, behind>>,
         stream' = [stream EXCEPT ![v] = NoStream]
  PROVE  LiveInv'
  <1>1. /\ stream' \in [Viewers -> Streams] /\ stream'[v] = NoStream
        /\ \A w \in Viewers \ {v} : stream'[w] = stream[w]
        /\ missed' \in SUBSET Viewers /\ behind' \in SUBSET Viewers
    BY NoStreamIs, AsItStands
  <1>2. StreamStands(v)'
    BY <1>1, NoStreamIs, EmptyStands
  <1> QED
    BY <1>1, <1>2, OneStream

\* A request's stream goes on: to listening, the profile read, checked,
\* shown, open.
LEMMA RequestsHold ==
  ASSUME LiveInv, NEW v \in Viewers,
         \/ Listen(v) \/ Reread(v) \/ Recheck(v) \/ ShowCurrent(v) \/ OpenStream(v)
  PROVE  LiveInv'
  <1>1. /\ StreamStands(v) /\ stream[v] \in Streams /\ stream \in [Viewers -> Streams]
        /\ playing \in Nat /\ missed \subseteq Viewers /\ behind \subseteq Viewers
        /\ hidden \in BOOLEAN
    BY AsItStands
  <1>2. ASSUME NEW c \in Streams, NothingElse, stream' = [stream EXCEPT ![v] = c],
               missed' = missed, behind' \subseteq behind, behind \ {v} \subseteq behind',
               c.at \notin {"none", "asked"}, c.buffer = stream[v].buffer, c.shows <= playing,
               EndComes(v) => EndComes(v)', Settled /\ NewestComes(v) => NewestComes(v)'
        PROVE  LiveInv'
    <2>1. /\ stream' \in [Viewers -> Streams] /\ stream'[v] = c
          /\ \A w \in Viewers \ {v} : stream'[w] = stream[w]
          /\ missed' \in SUBSET Viewers /\ behind' \in SUBSET Viewers
          /\ \A w \in Viewers \ {v} :
               (w \in missed' <=> w \in missed) /\ (w \in behind' <=> w \in behind)
      BY <1>1, <1>2
    <2>2. StreamStands(v)'
      BY <1>2, <2>1, MovedStands
    <2> QED
      BY <1>2, <2>1, <2>2, OneStream
  <1>3. CASE Listen(v)
    <2> DEFINE c == [stream[v] EXCEPT !.at = "listening"]
    <2>1. /\ stream[v].at = "asked" /\ stream' = [stream EXCEPT ![v] = c]
          /\ NothingElse /\ UNCHANGED <<missed, behind>>
      BY <1>1, <1>3 DEF Listen, NothingElse
    <2>2. /\ c \in Streams /\ c.at = "listening" /\ c.buffer = stream[v].buffer
          /\ c.shows = stream[v].shows
      BY <1>1 DEF Streams
    <2> HIDE DEF c
    <2>3. stream'[v] = c /\ c.buffer = <<>> /\ c.shows <= playing
      BY <1>1, <2>1, <2>2 DEF StreamStands
    <2>4. EndComes(v)'
      BY <2>2, <2>3 DEF EndComes
    <2>5. NewestComes(v) => NewestComes(v)'
      BY <2>1, <2>2, <2>3, NothingThere DEF NewestComes, NothingElse
    <2> QED
      BY <1>2, <2>1, <2>2, <2>3, <2>4, <2>5
  <1>4. CASE Reread(v)
    <2> DEFINE c == [[stream[v] EXCEPT !.at = "reread"] EXCEPT !.private = hidden]
    <2>1. /\ stream[v].at = "listening" /\ stream' = [stream EXCEPT ![v] = c]
          /\ NothingElse /\ UNCHANGED <<missed, behind>>
      BY <1>1, <1>4 DEF Reread, NothingElse
    <2>2. /\ c \in Streams /\ c.at = "reread" /\ c.buffer = stream[v].buffer
          /\ c.shows = stream[v].shows /\ c.private = hidden
      BY <1>1 DEF Streams
    <2> HIDE DEF c
    <2>3. stream'[v] = c /\ c.shows <= playing
      BY <1>1, <2>1, <2>2 DEF StreamStands
    <2>4. EndComes(v)'
      BY <2>1, <2>2, <2>3 DEF EndComes, NothingElse
    <2>5. NewestComes(v) => NewestComes(v)'
      BY <2>1, <2>2, <2>3 DEF NewestComes, Listening, NothingElse
    <2> QED
      BY <1>2, <2>1, <2>2, <2>3, <2>4, <2>5
  <1>5. CASE Recheck(v)
    <2> DEFINE c == [stream[v] EXCEPT !.at = "checked"]
    <2>1. /\ stream[v].at = "reread" /\ NothingElse /\ UNCHANGED <<missed, behind>>
          /\ stream' = [stream EXCEPT ![v] = IF StillVisible(v) THEN c ELSE NoStream]
      BY <1>1, <1>5 DEF Recheck, NothingElse
    <2>2. /\ c \in Streams /\ c.at = "checked" /\ c.buffer = stream[v].buffer
          /\ c.shows = stream[v].shows
      BY <1>1 DEF Streams
    <2> HIDE DEF c
    <2>3. CASE StillVisible(v)
      <3>1. /\ stream' = [stream EXCEPT ![v] = c] /\ stream'[v] = c /\ c.shows <= playing
        BY <1>1, <2>1, <2>2, <2>3 DEF StreamStands
      <3>2. EndComes(v) => EndComes(v)'
        BY <2>1, <2>2, <2>3, <3>1 DEF EndComes, StillVisible, MayLook, ClosingComes, NothingElse
      <3>3. NewestComes(v) => NewestComes(v)'
        BY <2>1, <2>2, <3>1 DEF NewestComes, Listening, NothingElse
      <3> QED
        BY <1>2, <2>1, <2>2, <3>1, <3>2, <3>3
    <2>4. CASE ~StillVisible(v)
      BY <2>1, <2>4, LeavesHold
    <2> QED
      BY <2>3, <2>4
  <1>6. CASE ShowCurrent(v)
    <2> DEFINE c == [[stream[v] EXCEPT !.at = "shown"] EXCEPT !.shows = playing]
    <2>1. /\ stream[v].at = "checked" /\ stream' = [stream EXCEPT ![v] = c]
          /\ NothingElse /\ UNCHANGED missed /\ behind' = behind \ {v}
      BY <1>1, <1>6 DEF ShowCurrent, NothingElse
    <2>2. /\ c \in Streams /\ c.at = "shown" /\ c.buffer = stream[v].buffer
          /\ c.shows = playing
      BY <1>1 DEF Streams
    <2> HIDE DEF c
    <2>3. stream'[v] = c /\ c.shows <= playing
      BY <1>1, <2>1, <2>2
    <2>4. EndComes(v) => EndComes(v)'
      BY <2>1, <2>2, <2>3 DEF EndComes, MayLook, ClosingComes, NothingElse
    <2>5. NewestComes(v) => NewestComes(v)'
      BY <2>1, <2>2, <2>3 DEF NewestComes, Listening, NothingElse
    <2> QED
      BY <1>2, <2>1, <2>2, <2>3, <2>4, <2>5
  <1>7. CASE OpenStream(v)
    <2> DEFINE c == [stream[v] EXCEPT !.at = "open"]
    <2>1. /\ stream[v].at = "shown" /\ stream' = [stream EXCEPT ![v] = c]
          /\ NothingElse /\ UNCHANGED <<missed, behind>>
      BY <1>1, <1>7 DEF OpenStream, NothingElse
    <2>2. /\ c \in Streams /\ c.at = "open" /\ c.buffer = stream[v].buffer
          /\ c.shows = stream[v].shows
      BY <1>1 DEF Streams
    <2> HIDE DEF c
    <2>3. stream'[v] = c /\ c.shows <= playing
      BY <1>1, <2>1, <2>2 DEF StreamStands
    <2>4. EndComes(v) => EndComes(v)'
      BY <2>1, <2>2, <2>3 DEF EndComes, MayLook, ClosingComes, NothingElse
    <2>5. NewestComes(v) => NewestComes(v)'
      BY <2>1, <2>2, <2>3 DEF NewestComes, Listening, NothingElse
    <2> QED
      BY <1>2, <2>1, <2>2, <2>3, <2>4, <2>5
  <1> QED
    BY <1>3, <1>4, <1>5, <1>6, <1>7

LEMMA ReceivesHold ==
  ASSUME LiveInv, NEW v \in Viewers, Receive(v)
  PROVE  LiveInv'
  <1> DEFINE b == stream[v].buffer
             m == Head(b)
             c == [stream[v] EXCEPT !.buffer = Tail(b),
                                    !.shows = IF IsUpdate(m) THEN m.shows ELSE stream[v].shows]
  <1>1. /\ StreamStands(v) /\ stream[v] \in Streams /\ stream \in [Viewers -> Streams]
        /\ playing \in Nat /\ missed \subseteq Viewers /\ behind \subseteq Viewers
        /\ bus \in Seq(Messages)
    BY AsItStands
  <1>2. /\ stream[v].at = "open" /\ b # <<>> /\ NothingElse /\ UNCHANGED <<missed, behind>>
        /\ stream' = [stream EXCEPT ![v] = IF v \in m.close THEN NoStream ELSE c]
    BY <1>1 DEF Receive, NothingElse
  <1>3. b \in Seq(Messages) /\ stream[v].shows \in Nat
    BY <1>1 DEF Streams
  <1>4. CASE v \in m.close
    BY <1>2, <1>4, LeavesHold
  <1>5. CASE v \notin m.close
    <2>1. m \in Messages /\ Tail(b) \in Seq(Messages) /\ m.shows \in Nat
      BY <1>2, <1>3, TailOf DEF Messages
    <2>2. /\ c \in Streams /\ c.at = "open" /\ c.buffer = Tail(b) /\ c.private = stream[v].private
          /\ c.shows = IF IsUpdate(m) THEN m.shows ELSE stream[v].shows
      BY <1>1, <1>2, <1>3, <2>1 DEF Streams
    <2> HIDE DEF c
    <2>3. /\ stream' \in [Viewers -> Streams] /\ stream'[v] = c
          /\ \A w \in Viewers \ {v} : stream'[w] = stream[w]
          /\ missed' \in SUBSET Viewers /\ behind' \in SUBSET Viewers
      BY <1>1, <1>2, <1>5, <2>2
    <2>4. AtMost(b, playing) => m.shows <= playing /\ AtMost(Tail(b), playing)
      BY <1>2, <1>3, TailFacts
    <2>5. Closes(b, v) => Closes(Tail(b), v)
      <3>1. \A u : Closes(b, u) <=> (u \in Head(b).close \/ Closes(Tail(b), u))
        BY <1>2, <1>3, TailFacts
      <3> HIDE DEF b
      <3> QED
        BY <1>5, <3>1
    <2>6. /\ HasUpdate(b) <=> (IsUpdate(m) \/ HasUpdate(Tail(b)))
          /\ NewestIs(b, playing) => NewestIs(Tail(b), playing)
          /\ NewestIs(b, playing) /\ IsUpdate(m) /\ ~HasUpdate(Tail(b)) => m.shows = playing
      BY <1>2, <1>3, TailFacts
    <2>7. Len(Tail(b)) <= BUFFER
      <3>1. Len(b) <= BUFFER /\ Len(b) \in Nat /\ Len(Tail(b)) = Len(b) - 1 /\ BUFFER \in Nat
        BY <1>1, <1>2, <1>3, TailOf, LiveConstants DEF StreamStands
      <3> QED
        BY <3>1
    <2> HIDE DEF b, m
    <2>8. EndComes(v) => EndComes(v)'
      BY <1>2, <2>2, <2>3, <2>5 DEF b, EndComes, MayLook, ClosingComes, Closes, NothingElse
    <2>9. NewestComes(v) => NewestComes(v)'
      <3> SUFFICES ASSUME NewestComes(v) PROVE NewestComes(v)'
        OBVIOUS
      <3>1. NewestIs(bus, playing) /\ (~HasUpdate(bus) => NewestIs(b, playing))
        BY <1>2 DEF NewestComes, Listening, b
      <3>2. ~HasUpdate(bus) => NewestIs(Tail(b), playing)
        BY <2>6, <3>1
      <3>3. ~HasUpdate(bus) /\ ~HasUpdate(Tail(b)) /\ v \notin behind => c.shows = playing
        BY <1>2, <2>2, <2>6, <3>1 DEF NewestComes, b
      <3> QED
        BY <1>2, <2>2, <2>3, <3>1, <3>2, <3>3 DEF NewestComes, NothingElse
    <2>10. StreamStands(v)'
      <3>1. c.shows <= playing
        BY <1>1, <2>2, <2>4 DEF StreamStands, b
      <3>2. Settled' => Settled
        BY <1>2 DEF Settled, NothingElse
      <3> QED
        BY <1>1, <1>2, <2>2, <2>3, <2>4, <2>7, <2>8, <2>9, <3>1, <3>2
        DEF StreamStands, NothingElse, b
    <2> QED
      BY <1>2, <2>3, <2>10, OneStream
  <1> QED
    BY <1>4, <1>5

(***************************************************************************)
(* The hub.                                                                *)
(***************************************************************************)
LEMMA DispatchHolds ==
  ASSUME LiveInv, Dispatch
  PROVE  LiveInv'
  <1> DEFINE m == Head(bus)
  <1>1. /\ bus \in Seq(Messages) /\ bus # <<>> /\ bus' = Tail(bus)
        /\ stream' = [v \in Viewers |->
             IF Listening(v) THEN [stream[v] EXCEPT !.buffer = Buffered(stream[v], m)]
             ELSE stream[v]]
        /\ missed' = missed \cup {v \in Viewers : Lags(v) /\ v \in Head(stream[v].buffer).close}
        /\ behind' = (IF IsUpdate(m) THEN {} ELSE behind) \cup {v \in Viewers : LosesNewest(v)}
        /\ UNCHANGED <<hidden, shunned, playing, player, republish, owesClose, events, lostOnes,
                       crossed>>
    BY DEF Dispatch, LiveInv, LiveTypes
  <1>2. m \in Messages /\ Tail(bus) \in Seq(Messages)
    BY <1>1, TailOf
  <1>3. /\ \A v : Closes(bus, v) <=> (v \in m.close \/ Closes(Tail(bus), v))
        /\ HasUpdate(bus) <=> (IsUpdate(m) \/ HasUpdate(Tail(bus)))
        /\ AtMost(bus, playing) => m.shows <= playing /\ AtMost(Tail(bus), playing)
        /\ NewestIs(bus, playing) => NewestIs(Tail(bus), playing)
        /\ NewestIs(bus, playing) /\ IsUpdate(m) /\ ~HasUpdate(Tail(bus)) => m.shows = playing
    BY <1>1, TailFacts
  <1>4. m = Head(bus)
    OBVIOUS
  <1> HIDE DEF m
  <1>5. AtMost(bus, playing) /\ m.shows <= playing /\ AtMost(Tail(bus), playing)
    BY <1>3 DEF LiveInv, UpdatesStand
  <1>6. UpdatesStand'
    BY <1>1, <1>5 DEF LiveInv, UpdatesStand
  <1>7. ASSUME NEW v \in Viewers PROVE stream'[v] \in Streams /\ StreamStands(v)'
    <2>1. StreamStands(v) /\ stream[v] \in Streams
      BY AsItStands
    <2>2. Len(stream[v].buffer) <= BUFFER /\ AtMost(stream[v].buffer, playing)
          /\ stream[v].shows <= playing
          /\ (stream[v].at \in {"none", "asked"} => stream[v].buffer = <<>>)
          /\ (v \notin missed => EndComes(v)) /\ (Settled => NewestComes(v))
      BY <2>1 DEF StreamStands
    <2>3. Settled' <=> Settled
      BY <1>1 DEF Settled
    <2>4. CASE ~Listening(v)
      <3>1. stream'[v] = stream[v] /\ stream[v].at \in {"none", "asked"}
        BY <1>1, <2>1, <2>4 DEF Listening, Streams
      <3>2. EndComes(v)'
        BY <3>1 DEF EndComes
      <3>3. NewestComes(v) => NewestComes(v)'
        BY <1>1, <1>3, <3>1 DEF NewestComes, Listening
      <3> QED
        BY <1>1, <2>1, <2>2, <2>3, <3>1, <3>2, <3>3 DEF StreamStands
    <2>5. CASE Listening(v)
      <3> DEFINE b == Buffered(stream[v], m)
                 s == stream[v].buffer
      <3>1. /\ b \in Seq(Messages) /\ Len(b) <= BUFFER
            /\ AtMost(s, playing) /\ m.shows <= playing => AtMost(b, playing)
            /\ NewestIs(s, playing) /\ ~IsUpdate(m) => NewestIs(b, playing)
            /\ IsUpdate(m) /\ m.shows = playing => NewestIs(b, playing)
            /\ IsUpdate(m) => HasUpdate(b)
            /\ HasUpdate(s) => \/ HasUpdate(b)
                               \/ Len(s) = BUFFER /\ IsUpdate(Head(s)) /\ ~HasUpdate(Tail(s))
            /\ Closes(s, v) => Closes(b, v) \/ (Len(s) = BUFFER /\ v \in Head(s).close)
            /\ v \in m.close => Closes(b, v)
        BY <1>2, <2>1, <2>2, BufferedFacts
      <3>2. stream'[v] = [stream[v] EXCEPT !.buffer = b]
        BY <1>1, <2>5
      <3> HIDE DEF b
      <3>3. /\ stream'[v] \in Streams /\ stream'[v].at = stream[v].at
            /\ stream'[v].private = stream[v].private /\ stream'[v].shows = stream[v].shows
            /\ stream'[v].buffer = b
        BY <2>1, <3>1, <3>2 DEF Streams
      <3>4. v \notin missed' => v \notin missed /\ ~(Len(s) = BUFFER /\ v \in Head(s).close)
        BY <1>1, <2>5 DEF Lags
      <3>5. ASSUME v \notin missed', ClosingComes(v) PROVE ClosingComes(v)'
        <4>1. \/ \E x \in owesClose : v \in x.close
              \/ Closes(bus, v) \/ Closes(s, v)
          BY <3>5 DEF ClosingComes, Closes
        <4>2. (\E x \in owesClose : v \in x.close) \/ Closes(Tail(bus), v) \/ Closes(b, v)
          BY <1>3, <3>1, <3>4, <3>5, <4>1
        <4> QED
          BY <1>1, <3>3, <4>2 DEF ClosingComes, Closes
      <3>6. v \notin missed' => EndComes(v)'
        BY <1>1, <2>2, <3>3, <3>4, <3>5 DEF EndComes, MayLook
      <3>7. ASSUME NewestComes(v) PROVE NewestComes(v)'
        <4>1. /\ NewestIs(bus, playing)
              /\ ~HasUpdate(bus) => NewestIs(s, playing)
              /\ /\ stream[v].at \in {"shown", "open"}
                 /\ ~HasUpdate(bus) /\ ~HasUpdate(s) /\ v \notin behind
                 => stream[v].shows = playing
          BY <2>5, <3>7 DEF NewestComes
        <4>2. ~HasUpdate(Tail(bus)) => NewestIs(b, playing)
          BY <1>3, <3>1, <4>1
        <4>3. ASSUME stream[v].at \in {"shown", "open"}, ~HasUpdate(Tail(bus)), ~HasUpdate(b),
                     v \notin behind'
              PROVE  stream[v].shows = playing
          <5>1. ~IsUpdate(m) /\ ~HasUpdate(bus)
            BY <1>3, <3>1, <4>3
          <5>2. v \notin behind /\ ~LosesNewest(v)
            BY <1>1, <4>3, <5>1
          <5>3. ~(Len(s) = BUFFER /\ IsUpdate(Head(s)) /\ ~HasUpdate(Tail(s)))
            BY <1>4, <2>5, <5>1, <5>2 DEF LosesNewest, Lags
          <5> QED
            BY <3>1, <4>1, <4>3, <5>1, <5>2, <5>3
        <4> QED
          BY <1>1, <1>3, <3>3, <4>1, <4>2, <4>3 DEF NewestComes
      <3>8. stream[v].at \notin {"none", "asked"}
        BY <2>5 DEF Listening
      <3> QED
        BY <1>1, <1>5, <2>2, <2>3, <3>1, <3>3, <3>6, <3>7, <3>8 DEF StreamStands
    <2> QED
      BY <2>4, <2>5
  <1>8. stream' \in [Viewers -> Streams]
    <2>1. DOMAIN stream' = Viewers /\ stream' = [v \in Viewers |-> stream'[v]]
      BY <1>1
    <2> QED
      BY <1>7, <2>1
  <1>9. LiveTypes'
    BY <1>1, <1>2, <1>8 DEF LiveInv, LiveTypes
  <1> QED
    BY <1>6, <1>7, <1>9 DEF LiveInv

(***************************************************************************)
(* Blocks, privacy, what is published and what is playing.                 *)
(***************************************************************************)
LEMMA AtMostMore ==
  ASSUME NEW s \in Seq(Messages), NEW n \in Nat, NEW k \in Nat, n <= k, AtMost(s, n)
  PROVE  AtMost(s, k)
  <1>0. \A i \in DOMAIN s : s[i] \in Messages
    OBVIOUS
  <1>1. \A i \in DOMAIN s : s[i].shows \in Nat
    BY <1>0 DEF Messages
  <1> QED
    BY <1>1 DEF AtMost

LEMMA StreamsStay ==
  ASSUME LiveInv, UNCHANGED <<stream, behind>>, LiveTypes', UpdatesStand', playing <= playing',
         \A v \in Viewers : v \notin missed' => v \notin missed /\ EndComes(v)',
         \A v \in Viewers : Settled' => NewestComes(v)'
  PROVE  LiveInv'
  <1> SUFFICES ASSUME NEW v \in Viewers PROVE StreamStands(v)'
    BY DEF LiveInv
  <1>1. StreamStands(v) /\ stream[v] \in Streams /\ playing \in Nat /\ playing' \in Nat
    BY AsItStands DEF LiveTypes
  <1>2. stream[v].shows \in Nat /\ stream[v].buffer \in Seq(Messages)
    BY <1>1 DEF Streams
  <1>3. AtMost(stream[v].buffer, playing) /\ stream[v].shows <= playing
    BY <1>1 DEF StreamStands
  <1>4. AtMost(stream[v].buffer, playing') /\ stream[v].shows <= playing'
    BY <1>1, <1>2, <1>3, AtMostMore
  <1> QED
    BY <1>1, <1>4 DEF StreamStands

\* What the hub misses is the exception for who it would have closed, or for
\* what plays.
LEMMA HubLosesHolds ==
  ASSUME LiveInv, HubLoses
  PROVE  LiveInv'
  <1> DEFINE m == Head(bus)
  <1>1. /\ bus \in Seq(Messages) /\ bus # <<>> /\ bus' = Tail(bus)
        /\ lostOnes' = lostOnes + 1
        /\ missed' = missed \cup {v \in m.close : Listening(v)}
        /\ crossed' = (crossed \/ (IsUpdate(m) /\ ~HasUpdate(Tail(bus)) /\ m.shows = playing))
        /\ UNCHANGED <<hidden, shunned, playing, player, republish, owesClose, stream, events,
                       behind>>
    BY DEF HubLoses, LiveInv, LiveTypes
  <1>2. m \in Messages /\ Tail(bus) \in Seq(Messages)
    BY <1>1, TailOf
  <1>3. /\ \A v : Closes(bus, v) <=> (v \in m.close \/ Closes(Tail(bus), v))
        /\ HasUpdate(bus) <=> (IsUpdate(m) \/ HasUpdate(Tail(bus)))
        /\ AtMost(bus, playing) => m.shows <= playing /\ AtMost(Tail(bus), playing)
        /\ NewestIs(bus, playing) => NewestIs(Tail(bus), playing)
        /\ NewestIs(bus, playing) /\ IsUpdate(m) /\ ~HasUpdate(Tail(bus)) => m.shows = playing
    BY <1>1, TailFacts
  <1> HIDE DEF m
  <1>4. LiveTypes' /\ playing \in Nat
    <2>1. lostOnes' \in Nat /\ missed' \subseteq Viewers /\ crossed' \in BOOLEAN
      BY <1>1, <1>2 DEF LiveInv, LiveTypes, Messages
    <2> QED
      BY <1>1, <1>2, <2>1 DEF LiveInv, LiveTypes
  <1>5. UpdatesStand'
    <2>1. AtMost(bus', playing) /\ (~crossed' => ~crossed)
      BY <1>1, <1>3 DEF LiveInv, UpdatesStand
    <2> QED
      BY <1>1, <2>1 DEF LiveInv, UpdatesStand
  <1>6. ASSUME NEW v \in Viewers, v \notin missed' PROVE v \notin missed /\ EndComes(v)'
    <2>1. v \notin missed /\ EndComes(v)
      BY <1>1, <1>6, AsItStands DEF StreamStands
    <2>2. CASE ~Listening(v)
      BY <1>1, <2>1, <2>2 DEF Listening, EndComes
    <2>3. CASE Listening(v)
      <3>1. Closes(bus, v) => Closes(Tail(bus), v)
        BY <1>1, <1>3, <1>6, <2>3
      <3>2. ClosingComes(v) => ClosingComes(v)'
        BY <1>1, <3>1 DEF ClosingComes, Closes
      <3> QED
        BY <1>1, <2>1, <3>2 DEF EndComes, MayLook
    <2> QED
      BY <2>2, <2>3
  <1>7. ASSUME NEW v \in Viewers, Settled' PROVE NewestComes(v)'
    <2>1. NewestComes(v) /\ ~(IsUpdate(m) /\ ~HasUpdate(Tail(bus)) /\ m.shows = playing)
      BY <1>1, <1>7, AsItStands DEF StreamStands, Settled
    <2>2. NewestIs(bus, playing)
      BY <2>1 DEF NewestComes
    <2>3. NewestIs(bus', playing) /\ (HasUpdate(bus') <=> HasUpdate(bus))
      BY <1>1, <1>3, <2>1, <2>2
    <2> QED
      BY <1>1, <2>1, <2>3 DEF NewestComes, Listening
  <1> QED
    BY <1>1, <1>4, <1>5, <1>6, <1>7, StreamsStay

\* Blocks and privacy come and go; who loses sight is owed a closing message.
LEMMA SightChanges ==
  ASSUME LiveInv,
         UNCHANGED <<playing, player, republish, bus, stream, lostOnes, missed, behind,
                     crossed>>,
         hidden' \in BOOLEAN, shunned' \subseteq Viewers, events' \in 0 .. MaxEvents,
         owesClose' \subseteq Messages, owesClose \subseteq owesClose',
         \A m \in owesClose' \ owesClose : m.shows = 0 /\ (IsUpdate(m) => Viewers = {}),
         \A v \in Viewers : (hidden' /\ ~hidden) \/ (v \in shunned' /\ v \notin shunned) =>
                              \E m \in owesClose' : v \in m.close
  PROVE  LiveInv'
  <1>1. LiveTypes' /\ playing \in Nat
    BY DEF LiveInv, LiveTypes
  <1>2. UpdatesStand'
    BY <1>1 DEF LiveInv, UpdatesStand
  <1>3. ASSUME NEW v \in Viewers, v \notin missed' PROVE EndComes(v)'
    <2>1. EndComes(v)
      BY <1>3, AsItStands DEF StreamStands
    <2>2. ClosingComes(v) => ClosingComes(v)'
      BY DEF ClosingComes
    <2>3. (\E m \in owesClose' : v \in m.close) => ClosingComes(v)'
      BY DEF ClosingComes
    <2>4. hidden \in BOOLEAN
      BY DEF LiveInv, LiveTypes
    <2> QED
      BY <2>1, <2>2, <2>3, <2>4 DEF EndComes, MayLook
  <1>4. ASSUME NEW v \in Viewers, Settled' PROVE NewestComes(v)'
    <2>1. NewestComes(v)
      BY <1>4, AsItStands DEF StreamStands, Settled
    <2> QED
      BY <2>1 DEF NewestComes, Listening
  <1> QED
    BY <1>1, <1>2, <1>3, <1>4, StreamsStay

LEMMA EventsLeft ==
  ASSUME LiveInv, events < MaxEvents
  PROVE  events + 1 \in 0 .. MaxEvents
BY LiveConstants DEF LiveInv, LiveTypes

LEMMA ChangesHold ==
  ASSUME LiveInv,
         \/ \E v \in Viewers : BlockViewer(v) \/ UnblockViewer(v)
         \/ SetPrivate \/ SetPublic
  PROVE  LiveInv'
  <1>1. /\ hidden \in BOOLEAN /\ shunned \subseteq Viewers /\ owesClose \subseteq Messages
        /\ events \in 0 .. MaxEvents
    BY DEF LiveInv, LiveTypes
  <1>2. CASE \E v \in Viewers : BlockViewer(v)
    <2> PICK v \in Viewers : BlockViewer(v)
      BY <1>2
    <2>1. CloseFor(v) \in Messages /\ CloseFor(v).shows = 0 /\ CloseFor(v).close = {v}
      BY DEF CloseFor, Messages
    <2>2. shunned' = shunned \cup {v} /\ owesClose' = owesClose \cup {CloseFor(v)}
      BY DEF BlockViewer
    <2>3. events' \in 0 .. MaxEvents
      BY EventsLeft DEF BlockViewer
    <2>4. UNCHANGED <<hidden, playing, player, republish, bus, stream, lostOnes, missed,
                      behind, crossed>>
      BY DEF BlockViewer
    <2> QED
      BY <1>1, <2>1, <2>2, <2>3, <2>4, SightChanges DEF IsUpdate
  <1>3. CASE \E v \in Viewers : UnblockViewer(v)
    BY <1>1, <1>3, SightChanges DEF UnblockViewer
  <1>4. CASE SetPrivate
    <2>1. CloseOthers \in Messages /\ CloseOthers.shows = 0 /\ CloseOthers.close = Viewers
      BY DEF CloseOthers, Messages
    <2>2. hidden' = TRUE /\ owesClose' = owesClose \cup {CloseOthers}
      BY <1>4 DEF SetPrivate
    <2>3. events' \in 0 .. MaxEvents
      BY <1>4, EventsLeft DEF SetPrivate
    <2>4. UNCHANGED <<shunned, playing, player, republish, bus, stream, lostOnes, missed,
                      behind, crossed>>
      BY <1>4 DEF SetPrivate
    <2> QED
      BY <1>1, <2>1, <2>2, <2>3, <2>4, SightChanges DEF IsUpdate
  <1>5. CASE SetPublic
    BY <1>1, <1>5, SightChanges DEF SetPublic
  <1> QED
    BY <1>2, <1>3, <1>4, <1>5

LEMMA PublishCloseHolds ==
  ASSUME LiveInv, NEW m \in owesClose, PublishClose(m)
  PROVE  LiveInv'
  <1>1. /\ owesClose' = owesClose \ {m} /\ m \in Messages
        /\ UNCHANGED <<hidden, shunned, playing, player, republish, stream, events, behind,
                       crossed>>
        /\ \/ bus' = Append(bus, m) /\ UNCHANGED <<lostOnes, missed>>
           \/ lostOnes' = lostOnes + 1 /\ UNCHANGED bus /\ missed' = missed \cup {v \in m.close : Listening(v)}
    BY DEF PublishClose, Send, SendFails, LiveInv, LiveTypes
  <1>2. bus \in Seq(Messages) /\ m.shows <= playing /\ (IsUpdate(m) => Viewers = {})
        /\ AtMost(bus, playing) /\ playing \in Nat /\ m.close \subseteq Viewers
    BY <1>1 DEF LiveInv, LiveTypes, UpdatesStand, Messages
  <1>3. /\ Append(bus, m) \in Seq(Messages)
        /\ \A v : Closes(Append(bus, m), v) <=> (Closes(bus, v) \/ v \in m.close)
        /\ HasUpdate(Append(bus, m)) <=> (HasUpdate(bus) \/ IsUpdate(m))
        /\ AtMost(bus, playing) /\ m.shows <= playing => AtMost(Append(bus, m), playing)
        /\ NewestIs(bus, playing) /\ ~IsUpdate(m) => NewestIs(Append(bus, m), playing)
    BY <1>1, <1>2, AppendOf, AppendFacts
  <1>4. LiveTypes'
    <2>0. lostOnes \in Nat /\ lostOnes + 1 \in Nat /\ missed \subseteq Viewers
      BY DEF LiveInv, LiveTypes
    <2>1. lostOnes' \in Nat /\ missed' \subseteq Viewers /\ bus' \in Seq(Messages)
      BY <1>1, <1>2, <1>3, <2>0
    <2>2. owesClose' \subseteq Messages
      BY <1>1 DEF LiveInv, LiveTypes
    <2> QED
      BY <1>1, <2>1, <2>2 DEF LiveInv, LiveTypes
  <1>5. UpdatesStand'
    BY <1>1, <1>2, <1>3 DEF LiveInv, UpdatesStand
  <1>6. ASSUME NEW v \in Viewers, v \notin missed' PROVE v \notin missed /\ EndComes(v)'
    <2>1. v \notin missed /\ EndComes(v)
      BY <1>1, <1>6, AsItStands DEF StreamStands
    <2>0. CASE ~Listening(v)
      BY <1>1, <2>0, <2>1 DEF Listening, EndComes
    <2>2. ClosingComes(v) <=> \/ \E x \in owesClose : v \in x.close
                              \/ Closes(bus, v) \/ Closes(stream[v].buffer, v)
      BY DEF ClosingComes, Closes
    <2>3. ClosingComes(v)' <=> \/ \E x \in owesClose' : v \in x.close
                               \/ Closes(bus', v) \/ Closes(stream[v].buffer, v)
      BY <1>1 DEF ClosingComes, Closes
    <2>4. Listening(v) /\ v \in m.close => Closes(bus', v)
      BY <1>1, <1>3, <1>6
    <2>5. Closes(bus, v) => Closes(bus', v)
      BY <1>1, <1>3
    <2>6. Listening(v) /\ ClosingComes(v) => ClosingComes(v)'
      BY <1>1, <2>2, <2>3, <2>4, <2>5
    <2> QED
      BY <1>1, <2>0, <2>1, <2>6 DEF EndComes, MayLook
  <1>7. ASSUME NEW v \in Viewers, Settled' PROVE NewestComes(v)'
    <2>1. NewestComes(v)
      BY <1>1, <1>7, AsItStands DEF StreamStands, Settled
    <2>2. NewestIs(bus', playing) /\ (HasUpdate(bus') <=> HasUpdate(bus))
      BY <1>1, <1>2, <1>3, <2>1 DEF NewestComes
    <2> QED
      BY <1>1, <2>1, <2>2 DEF NewestComes, Listening
  <1> QED
    BY <1>1, <1>2, <1>4, <1>5, <1>6, <1>7, StreamsStay

\* What is playing changes, or is read: nobody's sight does.
LEMMA SightStays ==
  ASSUME LiveInv, UNCHANGED <<hidden, shunned, owesClose, stream, missed>>,
         NEW v \in Viewers, v \notin missed', \A u : Closes(bus, u) => Closes(bus', u)
  PROVE  EndComes(v)'
  <1>1. EndComes(v)
    BY AsItStands DEF StreamStands
  <1>2. ClosingComes(v) => ClosingComes(v)'
    BY DEF ClosingComes, Closes
  <1> QED
    BY <1>1, <1>2 DEF EndComes, MayLook

LEMMA PlayerFacts ==
  ASSUME LiveInv, NEW p \in Players
  PROVE  /\ player \in [Players -> [at : {"idle", "stored", "read"}, read : Nat]]
         /\ player[p].read \in Nat /\ player[p].read <= playing /\ playing \in Nat
         /\ bus \in Seq(Messages) /\ AtMost(bus, playing)
         /\ \A m \in owesClose : m \in Messages /\ m.shows \in Nat
BY DEF LiveInv, LiveTypes, UpdatesStand, Messages

LEMMA UpsertHolds ==
  ASSUME LiveInv, NEW p \in Players, Upsert(p)
  PROVE  LiveInv'
  <1>1. /\ player[p].at = "idle" /\ playing' = playing + 1
        /\ player' = [player EXCEPT ![p].at = "stored"]
        /\ crossed' = (republish.at # "idle" \/ \E q \in Players : player[q].at # "idle")
        /\ UNCHANGED <<hidden, shunned, republish, owesClose, bus, stream, lostOnes, missed, behind>>
    BY DEF Upsert
  <1>2. events' \in 0 .. MaxEvents
    BY EventsLeft DEF Upsert
  <1>3. /\ player' \in [Players -> [at : {"idle", "stored", "read"}, read : Nat]]
        /\ player'[p].at = "stored" /\ player'[p].read = player[p].read
        /\ \A q \in Players \ {p} : player'[q] = player[q]
    BY <1>1, PlayerFacts
  <1>4. playing' \in Nat /\ playing <= playing' /\ playing \in Nat
    BY <1>1, PlayerFacts
  <1>5. LiveTypes'
    BY <1>1, <1>2, <1>3, <1>4 DEF LiveInv, LiveTypes
  <1>6. AtMost(bus, playing')
    BY <1>4, PlayerFacts, AtMostMore
  <1>7. UpdatesStand'
    <2>1. \A q \in Players : player'[q].read <= playing'
      BY <1>1, <1>3, PlayerFacts
    <2>2. \A m \in owesClose : m.shows <= playing' /\ (IsUpdate(m) => Viewers = {})
      BY <1>1, PlayerFacts DEF LiveInv, UpdatesStand
    <2>3. ~crossed' => \A q \in Players \ {p} : player'[q].at = "idle"
      BY <1>1, <1>3
    <2>4. republish'.read <= playing' /\ (~crossed' => republish'.at = "idle")
      <3>1. republish.read \in Nat /\ republish.read <= playing
        BY DEF LiveInv, LiveTypes, UpdatesStand
      <3>2. republish.read <= playing'
        BY <1>4, <3>1
      <3>3. republish' = republish
        BY <1>1
      <3>4. ~crossed' => republish.at = "idle"
        BY <1>1
      <3> QED
        BY <3>2, <3>3, <3>4
    <2> QED
      BY <1>1, <1>3, <1>6, <2>1, <2>2, <2>3, <2>4 DEF UpdatesStand
  <1>8. ~Settled'
    BY <1>3 DEF Settled
  <1>9. \A v \in Viewers : v \notin missed' => v \notin missed /\ EndComes(v)'
    BY <1>1, SightStays
  <1> QED
    BY <1>1, <1>4, <1>5, <1>7, <1>8, <1>9, StreamsStay

LEMMA ReadBackHolds ==
  ASSUME LiveInv, NEW p \in Players, ReadBack(p)
  PROVE  LiveInv'
  <1>1. /\ player[p].at = "stored"
        /\ player' = [player EXCEPT ![p] = [at |-> "read", read |-> playing]]
        /\ UNCHANGED <<hidden, shunned, playing, republish, owesClose, bus, stream, events,
                       lostOnes, missed, behind, crossed>>
    BY DEF ReadBack
  <1>2. /\ player' \in [Players -> [at : {"idle", "stored", "read"}, read : Nat]]
        /\ player'[p].at = "read" /\ player'[p].read = playing
        /\ \A q \in Players \ {p} : player'[q] = player[q]
        /\ playing \in Nat
    BY <1>1, PlayerFacts
  <1>3. LiveTypes'
    BY <1>1, <1>2 DEF LiveInv, LiveTypes
  <1>4. UpdatesStand'
    <2>1. \A q \in Players : /\ player'[q].at # "idle" <=> player[q].at # "idle"
                             /\ player'[q].read <= playing
                             /\ player'[q].at = "read" => q = p \/ player[q].at = "read"
      BY <1>1, <1>2, PlayerFacts
    <2>2. \A q \in Players : player'[q].at = "read" =>
             player'[q].read = playing \/ (player[q].at = "read" /\ player'[q].read = player[q].read)
      BY <1>2
    <2> QED
      BY <1>1, <2>1, <2>2 DEF LiveInv, UpdatesStand
  <1>5. ~Settled'
    BY <1>2 DEF Settled
  <1>6. \A v \in Viewers : v \notin missed' => v \notin missed /\ EndComes(v)'
    BY <1>1, SightStays
  <1> QED
    BY <1>1, <1>2, <1>3, <1>4, <1>5, <1>6, StreamsStay

LEMMA PublishUpdateHolds ==
  ASSUME LiveInv, NEW p \in Players, PublishUpdate(p)
  PROVE  LiveInv'
  <1> DEFINE u == Update(player[p].read)
  <1>1. /\ player[p].at = "read"
        /\ player' = [player EXCEPT ![p] = [at |-> "idle", read |-> 0]]
        /\ \/ bus' = Append(bus, u) /\ UNCHANGED <<crossed, lostOnes>>
           \/ UNCHANGED bus /\ crossed' = TRUE /\ lostOnes' = lostOnes + 1
        /\ UNCHANGED <<hidden, shunned, playing, republish, owesClose, stream, events, missed,
                       behind>>
    BY DEF PublishUpdate, Send, SendFails
  <1>2. /\ player' \in [Players -> [at : {"idle", "stored", "read"}, read : Nat]]
        /\ player'[p].at = "idle" /\ player'[p].read = 0
        /\ \A q \in Players \ {p} : player'[q] = player[q]
        /\ playing \in Nat /\ bus \in Seq(Messages) /\ AtMost(bus, playing)
    BY <1>1, PlayerFacts
  <1>3. u \in Messages /\ IsUpdate(u) /\ u.shows = player[p].read /\ u.shows <= playing
    BY PlayerFacts DEF Update, Messages, IsUpdate
  <1> HIDE DEF u
  <1>4. /\ Append(bus, u) \in Seq(Messages)
        /\ \A v : Closes(Append(bus, u), v) <=> (Closes(bus, v) \/ v \in u.close)
        /\ HasUpdate(Append(bus, u))
        /\ AtMost(Append(bus, u), playing)
        /\ u.shows = playing => NewestIs(Append(bus, u), playing)
    BY <1>2, <1>3, AppendOf, AppendFacts
  <1>5. LiveTypes'
    <2>0. lostOnes \in Nat /\ lostOnes + 1 \in Nat
      BY DEF LiveInv, LiveTypes
    <2>1. lostOnes' \in Nat /\ bus' \in Seq(Messages)
      BY <1>1, <1>2, <1>4, <2>0
    <2>2. crossed' \in BOOLEAN
      BY <1>1 DEF LiveInv, LiveTypes
    <2> QED
      BY <1>1, <1>2, <2>1, <2>2 DEF LiveInv, LiveTypes
  <1>6. UpdatesStand'
    <2>1. \A q \in Players : /\ player'[q].at # "idle" => player[q].at # "idle"
                             /\ player'[q].read <= playing
                             /\ player'[q].at = "read" =>
                                  player[q].at = "read" /\ player'[q].read = player[q].read
      BY <1>1, <1>2, PlayerFacts
    <2>2. AtMost(bus', playing)
      BY <1>1, <1>2, <1>4
    <2>3. ~crossed' => ~crossed
      BY <1>1
    <2> QED
      BY <1>1, <2>1, <2>2, <2>3 DEF LiveInv, UpdatesStand
  <1>7. ASSUME NEW v \in Viewers, Settled' PROVE NewestComes(v)'
    <2>1. ~crossed /\ bus' = Append(bus, u)
      BY <1>1, <1>7 DEF Settled
    <2>2. u.shows = playing
      BY <1>1, <1>3, <2>1 DEF LiveInv, UpdatesStand
    <2> QED
      BY <1>1, <1>4, <2>1, <2>2 DEF NewestComes
  <1>8. \A v \in Viewers : v \notin missed' => v \notin missed /\ EndComes(v)'
    <2>1. \A w : Closes(bus, w) => Closes(bus', w)
      BY <1>1, <1>4
    <2> QED
      BY <1>1, <2>1, SightStays
  <1> QED
    BY <1>1, <1>2, <1>5, <1>6, <1>7, <1>8, StreamsStay

\* What the worker read to publish again is what plays, unless it changed since.
LEMMA RepublishesHold ==
  ASSUME LiveInv, ReadPlaying \/ Republish
  PROVE  LiveInv'
  <1>0. /\ republish \in [at : {"idle", "read"}, read : Nat, times : Nat]
        /\ republish.read <= playing /\ playing \in Nat
        /\ bus \in Seq(Messages) /\ AtMost(bus, playing) /\ lostOnes \in Nat
    BY DEF LiveInv, LiveTypes, UpdatesStand
  <1>1. CASE ReadPlaying
    <2>1. /\ republish' = [at |-> "read", read |-> playing, times |-> republish.times + 1]
          /\ UNCHANGED <<hidden, shunned, playing, player, owesClose, bus, stream, events,
                         lostOnes, missed, behind, crossed>>
      BY <1>1 DEF ReadPlaying
    <2>2. /\ republish' \in [at : {"idle", "read"}, read : Nat, times : Nat]
          /\ republish'.read = playing
      BY <1>0, <2>1
    <2>3. LiveTypes' /\ UpdatesStand'
      BY <1>0, <2>1, <2>2 DEF LiveInv, LiveTypes, UpdatesStand
    <2>4. \A v \in Viewers : v \notin missed' => v \notin missed /\ EndComes(v)'
      BY <2>1, SightStays
    <2>5. ASSUME NEW v \in Viewers, Settled' PROVE NewestComes(v)'
      <3>1. NewestComes(v)
        BY <2>1, <2>5, AsItStands DEF StreamStands, Settled
      <3> QED
        BY <2>1, <3>1 DEF NewestComes, Listening
    <2> QED
      BY <1>0, <2>1, <2>3, <2>4, <2>5, StreamsStay
  <1>2. CASE Republish
    <2> DEFINE u == Update(republish.read)
    <2>1. /\ republish.at = "read"
          /\ republish' = [republish EXCEPT !.at = "idle", !.read = 0]
          /\ \/ bus' = Append(bus, u) /\ UNCHANGED lostOnes
             \/ UNCHANGED bus /\ lostOnes' = lostOnes + 1
          /\ UNCHANGED <<hidden, shunned, playing, player, owesClose, stream, events, missed,
                         behind, crossed>>
      BY <1>2 DEF Republish, Send, SendFails
    <2>2. /\ republish' \in [at : {"idle", "read"}, read : Nat, times : Nat]
          /\ republish'.at = "idle" /\ republish'.read = 0
      BY <1>0, <2>1
    <2>3. u \in Messages /\ IsUpdate(u) /\ u.shows = republish.read /\ u.shows <= playing
      BY <1>0 DEF Update, Messages, IsUpdate
    <2> HIDE DEF u
    <2>4. /\ Append(bus, u) \in Seq(Messages)
          /\ \A v : Closes(Append(bus, u), v) <=> (Closes(bus, v) \/ v \in u.close)
          /\ HasUpdate(Append(bus, u))
          /\ AtMost(Append(bus, u), playing)
          /\ u.shows = playing => NewestIs(Append(bus, u), playing)
      BY <1>0, <2>3, AppendOf, AppendFacts
    <2>5. LiveTypes'
      <3>0. lostOnes + 1 \in Nat
        BY <1>0
      <3>1. lostOnes' \in Nat /\ bus' \in Seq(Messages)
        BY <1>0, <2>1, <2>4, <3>0
      <3> QED
        BY <2>1, <2>2, <3>1 DEF LiveInv, LiveTypes
    <2>6. UpdatesStand'
      <3>1. AtMost(bus', playing)
        BY <1>0, <2>1, <2>4
      <3> QED
        BY <1>0, <2>1, <2>2, <3>1 DEF LiveInv, UpdatesStand
    <2>7. ASSUME NEW v \in Viewers, Settled' PROVE NewestComes(v)'
      <3>1. NewestComes(v) /\ ~crossed
        BY <2>1, <2>7, AsItStands DEF StreamStands, Settled
      <3>2. u.shows = playing
        BY <2>1, <2>3, <3>1 DEF LiveInv, UpdatesStand
      <3> QED
        BY <2>1, <2>4, <3>1, <3>2 DEF NewestComes, Listening
    <2>8. \A v \in Viewers : v \notin missed' => v \notin missed /\ EndComes(v)'
      <3>1. \A w : Closes(bus, w) => Closes(bus', w)
        BY <2>1, <2>4
      <3> QED
        BY <2>1, <3>1, SightStays
    <2> QED
      BY <1>0, <2>1, <2>5, <2>6, <2>7, <2>8, StreamsStay
  <1> QED
    BY <1>1, <1>2

(***************************************************************************)
(* The theorem.                                                            *)
(***************************************************************************)
LEMMA LiveBegins ==
  ASSUME LiveInit
  PROVE  LiveInv
  <1>1. LiveTypes
    <2>1. stream \in [Viewers -> Streams]
      BY NoStreamIs DEF LiveInit
    <2>2. bus \in Seq(Messages) /\ owesClose \subseteq Messages
      BY NothingThere DEF LiveInit
    <2>3. events \in 0 .. MaxEvents
      BY LiveConstants DEF LiveInit
    <2>4. player \in [Players -> [at : {"idle", "stored", "read"}, read : Nat]]
      BY DEF LiveInit
    <2> QED
      BY <2>1, <2>2, <2>3, <2>4 DEF LiveInit, LiveTypes
  <1>2. UpdatesStand
    BY NothingThere DEF LiveInit, UpdatesStand
  <1>3. ASSUME NEW v \in Viewers PROVE StreamStands(v)
    <2>1. stream[v] = NoStream /\ playing = 0 /\ bus = <<>> /\ missed = {}
      BY DEF LiveInit
    <2>2. EndComes(v)
      BY <2>1, NoStreamIs DEF EndComes
    <2>3. NewestComes(v)
      BY <2>1, NoStreamIs, NothingThere DEF NewestComes, Listening
    <2> QED
      BY <2>1, <2>2, <2>3, NoStreamIs, NothingThere, LiveConstants DEF StreamStands
  <1> QED
    BY <1>1, <1>2, <1>3 DEF LiveInv

LEMMA LiveStutters ==
  ASSUME LiveInv, UNCHANGED liveVars
  PROVE  LiveInv'
BY DEF LiveInv, LiveTypes, UpdatesStand, StreamStands, EndComes, NewestComes, Settled,
       ClosingComes, MayLook, Listening, liveVars

LEMMA LiveStepHolds ==
  ASSUME LiveInv, LiveNext
  PROVE  LiveInv'
  <1>1. CASE \E v \in Viewers : AskStream(v)
    BY <1>1, AsksHold
  <1>2. CASE \E v \in Viewers : \/ Listen(v) \/ Reread(v) \/ Recheck(v) \/ ShowCurrent(v)
                                \/ OpenStream(v)
    BY <1>2, RequestsHold
  <1>3. CASE \E v \in Viewers : Receive(v)
    BY <1>3, ReceivesHold
  <1>4. CASE \E v \in Viewers : Leave(v)
    BY <1>4, LeavesHold DEF Leave, NothingElse
  <1>5. CASE \/ \E v \in Viewers : BlockViewer(v) \/ UnblockViewer(v)
             \/ SetPrivate \/ SetPublic
    BY <1>5, ChangesHold
  <1>6. CASE Dispatch \/ HubLoses
    BY <1>6, DispatchHolds, HubLosesHolds
  <1>7. CASE \E m \in owesClose : PublishClose(m)
    BY <1>7, PublishCloseHolds
  <1>8. CASE \E p \in Players : Upsert(p) \/ ReadBack(p) \/ PublishUpdate(p)
    BY <1>8, UpsertHolds, ReadBackHolds, PublishUpdateHolds
  <1>9. CASE ReadPlaying \/ Republish
    BY <1>9, RepublishesHold
  <1> QED
    BY <1>1, <1>2, <1>3, <1>4, <1>5, <1>6, <1>7, <1>8, <1>9 DEF LiveNext

LEMMA StreamsHold ==
  ASSUME LiveInv
  PROVE  LiveTypeOK /\ StreamsEndWithSight /\ ShowsWhatPlays
  <1>1. LiveTypeOK
    BY DEF LiveInv, LiveTypes, LiveTypeOK, StreamStands, UpdatesStand
  <1>2. StreamsEndWithSight
    BY DEF LiveInv, StreamStands, EndComes, StreamsEndWithSight
  <1>3. ShowsWhatPlays
    <2> SUFFICES ASSUME NEW v \in Viewers, stream[v].at = "open", stream[v].buffer = <<>>,
                        bus = <<>>, \A p \in Players : player[p].at = "idle", ~crossed,
                        v \notin behind
                 PROVE  stream[v].shows = playing
      BY DEF ShowsWhatPlays
    <2>1. NewestComes(v)
      BY DEF LiveInv, StreamStands, Settled
    <2> QED
      BY <2>1, NothingThere DEF NewestComes
  <1> QED
    BY <1>1, <1>2, <1>3

\* An open stream of somebody who may not look any more ends, and one with
\* nothing left to receive shows what is playing (live.rs, live_now_playing).
LEMMA StreamsAreTrue == LiveSpec => [](LiveTypeOK /\ StreamsEndWithSight /\ ShowsWhatPlays)
  <1>1. LiveInit => LiveInv
    BY LiveBegins
  <1>2. LiveInv /\ [LiveNext]_liveVars => LiveInv'
    BY LiveStepHolds, LiveStutters
  <1>3. LiveInv => LiveTypeOK /\ StreamsEndWithSight /\ ShowsWhatPlays
    BY StreamsHold
  <1> QED
    BY <1>1, <1>2, <1>3, PTL DEF LiveSpec

\* Whatever is asked and changed, in whatever order: every way to a profile
\* agrees on who may see it and tells nobody that they are blocked; and a
\* stream ends with the right to see it, and shows what is playing
\* (middleware/visibility.rs, live.rs).
THEOREM SightIsRight == ProfilesSpec /\ LiveSpec => []SightHolds
  <1>1. /\ ProfilesTypeOK /\ DoorsAgree /\ BlockedFindNobody
        /\ LiveTypeOK /\ StreamsEndWithSight /\ ShowsWhatPlays
        => SightHolds
    BY DEF SightHolds
  <1> QED
    BY <1>1, DoorsAlwaysAgree, StreamsAreTrue, PTL

-----------------------------------------------------------------------------
(***************************************************************************)
(* Paging.                                                                 *)
(***************************************************************************)

(***************************************************************************)
(* A finite set has an element none of the others precedes.                *)
(***************************************************************************)
LEMMA MinimalExists ==
  ASSUME NEW S, IsFiniteSet(S), S # {}, NEW R,
         \A e \in S : <<e, e>> \notin R,
         \A e, f, g \in S : <<e, f>> \in R /\ <<f, g>> \in R => <<e, g>> \in R
  PROVE  \E e \in S : \A f \in S : <<f, e>> \notin R
  <1> DEFINE before(e) == {f \in S : <<f, e>> \in R}
             T == {before(e) : e \in S}
  <1>1. T \subseteq FiniteSubsetsOf(S) /\ T # {}
    <2>1. \A e \in S : before(e) \in SUBSET S
      OBVIOUS
    <2>2. PICK e \in S : TRUE
      OBVIOUS
    <2>3. before(e) \in T
      OBVIOUS
    <2>4. T \subseteq SUBSET S
      <3> HIDE DEF before
      <3> QED
        BY <2>1
    <2> HIDE DEF T
    <2> QED
      BY <2>3, <2>4, FS_FiniteSubsetsOfFinite
  <1>2. IsWellFoundedOn(StrictSubsetOrdering(S), FiniteSubsetsOf(S))
    BY FS_StrictSubsetOrderingWellFounded
  <1>3. \E x \in T : \A y \in T : <<y, x>> \notin StrictSubsetOrdering(S)
    <2> HIDE DEF T
    <2> QED
      BY <1>1, <1>2, WFMin
  <1>4. PICK e \in S : \A f \in S : <<before(f), before(e)>> \notin StrictSubsetOrdering(S)
    <2>1. PICK x \in T : \A y \in T : <<y, x>> \notin StrictSubsetOrdering(S)
      BY <1>3
    <2>2. PICK e \in S : x = before(e)
      BY <2>1
    <2>3. \A f \in S : before(f) \in T
      OBVIOUS
    <2> HIDE DEF before, T
    <2> QED
      BY <2>1, <2>2, <2>3
  <1>5. ASSUME NEW f \in S, <<f, e>> \in R
        PROVE  FALSE
    <2>1. before(f) \subseteq before(e)
      BY <1>5
    <2>2. f \in before(e) /\ f \notin before(f)
      BY <1>5
    <2>3. before(f) \in SUBSET S /\ before(e) \in SUBSET S
      OBVIOUS
    <2> HIDE DEF before
    <2>4. <<before(f), before(e)>> \in StrictSubsetOrdering(S)
      BY <2>1, <2>2, <2>3 DEF StrictSubsetOrdering
    <2> QED
      BY <1>4, <2>4
  <1> QED
    BY <1>5

LEMMA MaxIs ==
  ASSUME NEW S, S \subseteq Int, IsFiniteSet(S), S # {}
  PROVE  Max(S) \in S /\ \A x \in S : x <= Max(S)
  <1> DEFINE R == {r \in S \X S : r[1] > r[2]}
  <1>1. \E e \in S : \A f \in S : <<f, e>> \notin R
    <2>1. \A e \in S : <<e, e>> \notin R
      OBVIOUS
    <2>2. \A e, f, g \in S : <<e, f>> \in R /\ <<f, g>> \in R => <<e, g>> \in R
      OBVIOUS
    <2> HIDE DEF R
    <2> QED
      BY <2>1, <2>2, MinimalExists
  <1>2. PICK e \in S : \A f \in S : <<f, e>> \notin R
    BY <1>1
  <1>3. ASSUME NEW f \in S PROVE e >= f
    <2>1. e \in Int /\ f \in Int
      OBVIOUS
    <2>2. ~(f > e)
      BY <1>2
    <2> QED
      BY <2>1, <2>2
  <1> QED
    BY <1>3 DEF Max

LEMMA MinIs ==
  ASSUME NEW S, S \subseteq Int, IsFiniteSet(S), S # {}
  PROVE  Min(S) \in S /\ \A x \in S : Min(S) <= x
  <1> DEFINE R == {r \in S \X S : r[1] < r[2]}
  <1>1. \E e \in S : \A f \in S : <<f, e>> \notin R
    <2>1. \A e \in S : <<e, e>> \notin R
      OBVIOUS
    <2>2. \A e, f, g \in S : <<e, f>> \in R /\ <<f, g>> \in R => <<e, g>> \in R
      OBVIOUS
    <2> HIDE DEF R
    <2> QED
      BY <2>1, <2>2, MinimalExists
  <1>2. PICK e \in S : \A f \in S : <<f, e>> \notin R
    BY <1>1
  <1>3. ASSUME NEW f \in S PROVE e <= f
    <2>1. e \in Int /\ f \in Int
      OBVIOUS
    <2>2. ~(f < e)
      BY <1>2
    <2> QED
      BY <2>1, <2>2
  <1> QED
    BY <1>3 DEF Min

(***************************************************************************)
(* Entries, newest first.                                                  *)
(***************************************************************************)
Places == [at : Int, id : Int]

LEMMA EntriesArePlaces == Entries \subseteq Places
  <1>1. Moments \subseteq Int /\ EntryIds \subseteq Int
    BY PagingConstants
  <1> QED
    BY <1>1 DEF Entries, Places

LEMMA NewerOrders ==
  ASSUME NEW e \in Places, NEW f \in Places, NEW g \in Places
  PROVE  /\ ~Newer(e, e)
         /\ Newer(e, f) => ~Newer(f, e)
         /\ Newer(e, f) /\ Newer(f, g) => Newer(e, g)
         /\ e = f \/ Newer(e, f) \/ Newer(f, e)
BY DEF Newer, Places

LEMMA NewestExists ==
  ASSUME NEW X, X \subseteq Places, IsFiniteSet(X), X # {}
  PROVE  \E e \in X : \A f \in X : ~Newer(f, e)
  <1> DEFINE R == {r \in X \X X : Newer(r[1], r[2])}
  <1>1. \E e \in X : \A f \in X : <<f, e>> \notin R
    <2>1. \A e \in X : <<e, e>> \notin R
      BY NewerOrders
    <2>2. \A e, f, g \in X : <<e, f>> \in R /\ <<f, g>> \in R => <<e, g>> \in R
      BY NewerOrders
    <2> HIDE DEF R
    <2> QED
      BY <2>1, <2>2, MinimalExists
  <1> QED
    BY <1>1

LEMMA LastIs ==
  ASSUME NEW X, X \subseteq Places, IsFiniteSet(X), X # {}
  PROVE  LastOf(X) \in X /\ \A f \in X : f = LastOf(X) \/ Newer(f, LastOf(X))
  <1> DEFINE R == {r \in X \X X : Newer(r[2], r[1])}
  <1>1. \E e \in X : \A f \in X : <<f, e>> \notin R
    <2>1. \A e \in X : <<e, e>> \notin R
      BY NewerOrders
    <2>2. \A e, f, g \in X : <<e, f>> \in R /\ <<f, g>> \in R => <<e, g>> \in R
      BY NewerOrders
    <2> HIDE DEF R
    <2> QED
      BY <2>1, <2>2, MinimalExists
  <1>2. \E e \in X : \A f \in X : f = e \/ Newer(f, e)
    BY <1>1, NewerOrders
  <1> QED
    BY <1>2 DEF LastOf

(***************************************************************************)
(* The newest n of some entries.                                           *)
(***************************************************************************)
Ahead(S, e) == {f \in S : Newer(f, e)}

LEMMA AheadCounts ==
  ASSUME NEW S, IsFiniteSet(S), NEW e
  PROVE  IsFiniteSet(Ahead(S, e)) /\ Cardinality(Ahead(S, e)) \in Nat
  <1>1. Ahead(S, e) \in SUBSET S
    BY DEF Ahead
  <1> QED
    BY <1>1, FS_Subset, FS_CardinalityType

LEMMA AmongNewest ==
  ASSUME NEW S, NEW n, NEW e
  PROVE  e \in NewestOf(S, n) <=> e \in S /\ Cardinality(Ahead(S, e)) < n
BY DEF NewestOf, Ahead

LEMMA NewestFinite ==
  ASSUME NEW S, IsFiniteSet(S), NEW n
  PROVE  /\ NewestOf(S, n) \subseteq S /\ IsFiniteSet(NewestOf(S, n))
         /\ Cardinality(NewestOf(S, n)) \in Nat
  <1>1. NewestOf(S, n) \in SUBSET S
    BY DEF NewestOf
  <1> QED
    BY <1>1, FS_Subset, FS_CardinalityType

\* An entry among the newest stays there as others go.
LEMMA NewestStays ==
  ASSUME NEW S, IsFiniteSet(S), NEW T \in SUBSET S, NEW n \in Int, NEW e \in T,
         e \in NewestOf(S, n)
  PROVE  e \in NewestOf(T, n)
  <1>1. Ahead(T, e) \in SUBSET Ahead(S, e)
    BY DEF Ahead
  <1>2. IsFiniteSet(T)
    BY FS_Subset
  <1>3. Cardinality(Ahead(T, e)) <= Cardinality(Ahead(S, e))
    BY <1>1, AheadCounts, FS_Subset
  <1>4. Cardinality(Ahead(S, e)) \in Nat /\ Cardinality(Ahead(T, e)) \in Nat
    BY <1>2, AheadCounts
  <1>5. Cardinality(Ahead(S, e)) < n
    BY AmongNewest
  <1>6. Cardinality(Ahead(T, e)) < n
    BY <1>3, <1>4, <1>5
  <1> QED
    BY <1>6, AmongNewest

\* What is newer than one of the newest is one of them.
LEMMA NewestAbove ==
  ASSUME NEW S, S \subseteq Places, IsFiniteSet(S), NEW n \in Int, NEW m \in Int, n <= m,
         NEW e \in S, NEW f \in NewestOf(S, n), e = f \/ Newer(e, f)
  PROVE  e \in NewestOf(S, m)
  <1>1. f \in S /\ Cardinality(Ahead(S, f)) < n
    BY AmongNewest
  <1>2. Ahead(S, e) \in SUBSET Ahead(S, f)
    BY <1>1, NewerOrders DEF Ahead
  <1>3. Cardinality(Ahead(S, e)) <= Cardinality(Ahead(S, f))
    BY <1>2, AheadCounts, FS_Subset
  <1>4. Cardinality(Ahead(S, e)) \in Nat /\ Cardinality(Ahead(S, f)) \in Nat
    BY AheadCounts
  <1>5. Cardinality(Ahead(S, e)) < m
    BY <1>1, <1>3, <1>4
  <1> QED
    BY <1>5, AmongNewest

LEMMA NewestAtMost ==
  ASSUME NEW S, S \subseteq Places, IsFiniteSet(S), NEW n \in Nat
  PROVE  Cardinality(NewestOf(S, n)) <= n
  <1> DEFINE N == NewestOf(S, n)
  <1>1. N \subseteq S /\ IsFiniteSet(N) /\ Cardinality(N) \in Nat
    BY NewestFinite
  <1>2. CASE N = {}
    BY <1>2, FS_EmptySet
  <1>3. CASE N # {}
    <2> DEFINE l == LastOf(N)
    <2> HIDE DEF N
    <2>1. l \in N /\ \A f \in N : f = l \/ Newer(f, l)
      BY <1>1, <1>3, LastIs
    <2>2. Cardinality(Ahead(S, l)) < n
      BY <2>1, AmongNewest DEF N
    <2> HIDE DEF l
    <2>3. N \ {l} \in SUBSET Ahead(S, l)
      BY <1>1, <2>1 DEF Ahead
    <2>4. IsFiniteSet(Ahead(S, l)) /\ Cardinality(Ahead(S, l)) \in Nat
      BY AheadCounts
    <2>5. Cardinality(N \ {l}) <= Cardinality(Ahead(S, l))
      BY <2>3, <2>4, FS_Subset
    <2>6. Cardinality(N \ {l}) = Cardinality(N) - 1
      BY <1>1, <2>1, FS_RemoveElement
    <2> QED
      BY <1>1, <2>2, <2>4, <2>5, <2>6 DEF N
  <1> QED
    BY <1>2, <1>3

\* Fewer than asked for are all there are.
LEMMA NewestAll ==
  ASSUME NEW S, S \subseteq Places, IsFiniteSet(S), NEW n \in Nat,
         Cardinality(NewestOf(S, n)) < n
  PROVE  NewestOf(S, n) = S
  <1> DEFINE N == NewestOf(S, n)
             X == S \ N
  <1>1. N \subseteq S /\ IsFiniteSet(N) /\ Cardinality(N) \in Nat
    BY NewestFinite
  <1>2. ASSUME X # {} PROVE FALSE
    <2>1. IsFiniteSet(X) /\ X \subseteq Places
      BY FS_Difference
    <2>2. PICK e \in X : \A f \in X : ~Newer(f, e)
      BY <1>2, <2>1, NewestExists
    <2> HIDE DEF N
    <2>3. Ahead(S, e) \in SUBSET N
      BY <2>2 DEF Ahead
    <2>4. Cardinality(Ahead(S, e)) <= Cardinality(N)
      BY <1>1, <2>3, FS_Subset
    <2>5. Cardinality(Ahead(S, e)) \in Nat
      BY AheadCounts
    <2>6. Cardinality(Ahead(S, e)) < n
      BY <1>1, <2>4, <2>5 DEF N
    <2> QED
      BY <2>6, <2>2, AmongNewest DEF N
  <1> QED
    BY <1>1, <1>2

(***************************************************************************)
(* The invariant. What is on the pages shown so far is a beginning of the  *)
(* list, as far as it has stayed: for each kind of list, from where it     *)
(* reads on.                                                               *)
(***************************************************************************)
Keysets == {"loves", "tags", "blocks", "follows", "feed"}
Numbered == {"numbered", "numbered loves"}

WalkRecords ==
  [at : {"page", "ended"}, before : Places, number : Nat, seen : SUBSET Entries,
   twice : SUBSET Entries, kept : SUBSET Entries, grew : BOOLEAN, shrank : BOOLEAN,
   crowded : SUBSET Moments]
PageRecords ==
  [at : {"none"}]
  \cup [at : {"windows"}, found : SUBSET Entries, upper : Places, window : Nat, latest : Int]
  \cup [at : {"window", "rest"}, found : SUBSET Entries, cutoff : Int]

EntriesStand(es, w) ==
  /\ es \subseteq Entries /\ IsFiniteSet(es)
  /\ w \in WalkRecords /\ w.kept \subseteq es /\ Crowded(es) \subseteq w.crowded

\* By a cursor: what is not below it has been seen, and nothing below it.
KeysetStands(l, w) ==
  /\ w.twice = {}
  /\ w.at = "page" => /\ \A e \in w.seen : ~Newer(w.before, e)
                      /\ \A e \in w.kept : ~Newer(w.before, e) => e \in w.seen
  /\ w.at = "ended" => \A e \in w.kept : e \in w.seen \/ (l = "feed" /\ e.at <= FEED_FLOOR)

\* A page of the feed, between its cursor and the windows read so far.
WindowsStand(l, p, w) ==
  /\ l = "feed" /\ w.at = "page"
  /\ IsFiniteSet(p.found) /\ Cardinality(p.found) < PAGE
  /\ \A e \in Entries : Newer(p.upper, e) => Newer(w.before, e)
  /\ \A e \in p.found : Newer(w.before, e) /\ ~Newer(p.upper, e)
  /\ \A e \in w.kept : Newer(w.before, e) /\ ~Newer(p.upper, e) => e \in p.found
  /\ \A e \in w.kept : e.at <= p.latest

\* By time: of entries alone in their moment.
RecentStands(w) ==
  /\ w.twice = {}
  /\ w.at = "page" => /\ \A e \in w.seen : w.before.at <= e.at
                      /\ \A e \in w.kept : w.before.at <= e.at /\ e.at \notin w.crowded
                                             => e \in w.seen
  /\ w.at = "ended" => \A e \in w.kept : e.at \notin w.crowded => e \in w.seen

\* A page of recent scrobbles, once its latest is known.
CutoffStands(l, p, w) ==
  /\ l = "recent" /\ w.at = "page"
  /\ IsFiniteSet(p.found) /\ Cardinality(p.found) < PAGE
  /\ p.cutoff <= w.before.at
  /\ \A e \in w.kept : e.at < w.before.at => e.at < p.cutoff
  /\ p.at = "window" => p.found = {}
  /\ p.at = "rest" =>
       /\ \A e \in p.found : p.cutoff - RECENT_WINDOW <= e.at /\ e.at < p.cutoff
       /\ \A e \in w.kept : p.cutoff - RECENT_WINDOW <= e.at /\ e.at < p.cutoff => e \in p.found

\* By number: without losses the pages so far hold what would be on them now,
\* and without additions nothing else.
NumberedStands(es, w) ==
  /\ ~w.shrank => /\ w.at = "page" => w.kept \cap NewestOf(es, PAGE * w.number) \subseteq w.seen
                  /\ w.at = "ended" => w.kept \subseteq w.seen
  /\ ~w.grew => /\ w.twice = {}
                /\ w.at = "page" => w.seen \cap es \subseteq NewestOf(es, PAGE * w.number)

PagingInv ==
  /\ list \in PagedLists
  /\ EntriesStand(entries, walk) /\ page \in PageRecords
  /\ list \in Keysets => KeysetStands(list, walk)
  /\ list = "recent" => RecentStands(walk)
  /\ list \in Numbered => NumberedStands(entries, walk)
  /\ page.at = "windows" => WindowsStand(list, page, walk)
  /\ page.at \in {"window", "rest"} => CutoffStands(list, page, walk)

NoPageRecord == [at |-> "none"]

LEMMA NoPageIs == NoPageRecord \in PageRecords /\ NoPageRecord.at = "none"
BY DEF NoPageRecord, PageRecords

LEMMA InvIs ==
  ASSUME PagingInv
  PROVE  /\ entries \subseteq Entries /\ entries \subseteq Places /\ IsFiniteSet(entries)
         /\ walk \in WalkRecords /\ walk.kept \subseteq entries
         /\ Crowded(entries) \subseteq walk.crowded /\ page \in PageRecords
         /\ walk.before \in Places /\ walk.number \in Nat
         /\ walk.seen \subseteq Entries /\ walk.kept \subseteq Entries
         /\ walk.seen \subseteq Places /\ walk.kept \subseteq Places
BY EntriesArePlaces DEF PagingInv, EntriesStand, WalkRecords

\* What a page that is seen leaves.
LEMMA SeeIs ==
  ASSUME PagingInv, NEW shown, shown \subseteq Entries, NEW more \in BOOLEAN, NEW fields,
         fields.before \in Places, fields.number \in Nat, See(shown, more, fields)
  PROVE  /\ walk'.at = IF more THEN "page" ELSE "ended"
         /\ walk'.before = fields.before /\ walk'.number = fields.number
         /\ walk'.seen = walk.seen \cup shown
         /\ walk'.twice = walk.twice \cup (walk.seen \cap shown)
         /\ walk'.kept = walk.kept /\ walk'.grew = walk.grew /\ walk'.shrank = walk.shrank
         /\ walk'.crowded = walk.crowded
         /\ page' = NoPageRecord /\ list' = list /\ entries' = entries
         /\ EntriesStand(entries, walk')
  <1>1. walk \in WalkRecords
    BY InvIs
  <1>2. walk'.at \in {"page", "ended"}
    BY DEF See
  <1>3. walk' \in WalkRecords
    BY <1>1 DEF See, WalkRecords
  <1> QED
    BY <1>3 DEF See, NoPageRecord, PagingInv, EntriesStand

LEMMA SeeHolds ==
  ASSUME PagingInv, page' = NoPageRecord, list' = list, entries' = entries,
         EntriesStand(entries, walk'),
         list \in Keysets => KeysetStands(list, walk'),
         list = "recent" => RecentStands(walk'),
         list \in Numbered => NumberedStands(entries, walk')
  PROVE  PagingInv'
BY NoPageIs DEF PagingInv

(***************************************************************************)
(* By a cursor.                                                            *)
(***************************************************************************)

\* Everything down to the last of the newest is among them.
LEMMA DownToLast ==
  ASSUME NEW S, S \subseteq Places, IsFiniteSet(S), NEW n \in Nat, NEW l \in NewestOf(S, n),
         NEW e \in S, ~Newer(l, e)
  PROVE  e \in NewestOf(S, n)
  <1>1. l \in S
    BY AmongNewest
  <1>2. e = l \/ Newer(e, l)
    BY <1>1, NewerOrders
  <1> QED
    BY <1>1, <1>2, NewestAbove

LEMMA CursorPageHolds ==
  ASSUME PagingInv, list \in Keysets \ {"feed"}, walk.at = "page", CursorPage
  PROVE  PagingInv'
  <1> DEFINE B == Below(entries, walk.before)
             rows == NewestOf(B, PAGE + 1)
             more == Cardinality(rows) > PAGE
             shown == IF more THEN NewestOf(rows, PAGE) ELSE rows
             fields == [walk EXCEPT !.before = IF more THEN LastOf(shown) ELSE Start]
  <1>1. See(shown, more, fields)
    BY DEF CursorPage
  <1>2. /\ entries \subseteq Places /\ IsFiniteSet(entries) /\ walk \in WalkRecords
        /\ walk.kept \subseteq entries /\ walk.before \in Places
        /\ walk.seen \subseteq Places /\ entries \subseteq Entries
    BY InvIs
  <1>3. PAGE \in Nat /\ PAGE >= 1 /\ PAGE + 1 \in Nat
    BY PagingConstants
  <1>4. /\ B \subseteq entries /\ IsFiniteSet(B)
        /\ \A e \in entries : e \in B <=> Newer(walk.before, e)
    BY <1>2, FS_Subset DEF Below
  <1>5. Start \in Places
    <2>1. Moments \subseteq Int /\ Moments # {} /\ IsFiniteSet(Moments)
      BY PagingConstants
    <2>2. Max(Moments) \in Int
      BY <2>1, MaxIs
    <2>3. Max(Moments) + 1 \in Int
      BY <2>2
    <2> QED
      BY <2>3 DEF Start, Places
  <1>6. /\ walk.twice = {} /\ \A e \in walk.seen : ~Newer(walk.before, e)
        /\ \A e \in walk.kept : ~Newer(walk.before, e) => e \in walk.seen
    BY DEF PagingInv, KeysetStands
  <1> HIDE DEF B
  <1>7. rows \subseteq B /\ IsFiniteSet(rows) /\ Cardinality(rows) \in Nat
    BY <1>4, NewestFinite
  <1>8. B \subseteq Places /\ rows \subseteq Places
    BY <1>2, <1>4, <1>7
  <1>9. CASE ~more
    <2>1. rows = B
      BY <1>3, <1>4, <1>7, <1>8, <1>9, NewestAll
    <2>2. fields.before = Start /\ fields.number = walk.number /\ walk.number \in Nat
      BY <1>2, <1>9 DEF WalkRecords
    <2>3. shown = B /\ B \subseteq Entries
      BY <1>2, <1>4, <1>9, <2>1
    <2>4. more = FALSE
      BY <1>9
    <2> HIDE DEF more, shown, fields
    <2>5. /\ walk'.at = "ended" /\ walk'.seen = walk.seen \cup B
          /\ walk'.twice = walk.twice \cup (walk.seen \cap B) /\ walk'.kept = walk.kept
          /\ page' = NoPageRecord /\ list' = list /\ entries' = entries
          /\ EntriesStand(entries, walk')
      BY <1>1, <1>5, <2>4, <2>2, <2>3, SeeIs
    <2>6. KeysetStands(list, walk')
      BY <1>2, <1>4, <1>6, <2>5 DEF KeysetStands
    <2> QED
      BY <2>5, <2>6, SeeHolds DEF Keysets, Numbered
  <1>10. CASE more
    <2> DEFINE l == LastOf(shown)
    <2>1. shown = NewestOf(rows, PAGE) /\ fields = [walk EXCEPT !.before = l]
      BY <1>10
    <2>2. fields.before = l /\ fields.number = walk.number /\ walk.number \in Nat
      BY <1>2, <2>1 DEF WalkRecords
    <2> HIDE DEF rows, more, shown, fields
    <2>3. shown \subseteq rows /\ IsFiniteSet(shown) /\ Cardinality(shown) \in Nat
      BY <1>7, <2>1, NewestFinite
    <2>4. shown # {}
      <3>1. ASSUME shown = {} PROVE FALSE
        <4>1. Cardinality(NewestOf(rows, PAGE)) < PAGE
          BY <1>3, <2>1, <3>1, FS_EmptySet
        <4>2. NewestOf(rows, PAGE) = rows
          BY <1>3, <1>7, <1>8, <4>1, NewestAll
        <4> QED
          BY <1>3, <1>7, <1>10, <4>1, <4>2 DEF more
      <3> QED
        BY <3>1
    <2>5. l \in shown /\ \A f \in shown : f = l \/ Newer(f, l)
      BY <1>8, <2>3, <2>4, LastIs
    <2> HIDE DEF l
    <2>6. l \in Places /\ l \in rows /\ l \in B /\ Newer(walk.before, l)
      BY <1>4, <1>7, <1>8, <2>3, <2>5
    <2>7. shown \subseteq Entries /\ shown \subseteq Places /\ shown \subseteq B
      BY <1>2, <1>4, <1>7, <1>8, <2>3
    <2>8. /\ walk'.at = "page" /\ walk'.before = l /\ walk'.seen = walk.seen \cup shown
          /\ walk'.twice = walk.twice \cup (walk.seen \cap shown) /\ walk'.kept = walk.kept
          /\ page' = NoPageRecord /\ list' = list /\ entries' = entries
          /\ EntriesStand(entries, walk')
      <3>1. more = TRUE
        BY <1>10 DEF more
      <3> QED
        BY <1>1, <2>2, <2>6, <2>7, <3>1, SeeIs
    <2>9. ASSUME NEW e \in walk.seen \cup shown PROVE ~Newer(l, e)
      <3>1. e \in Places
        BY <1>2, <2>7
      <3>2. CASE e \in shown
        BY <2>5, <2>6, <3>1, <3>2, NewerOrders
      <3>3. CASE e \in walk.seen
        BY <1>2, <1>6, <2>6, <3>1, <3>3, NewerOrders
      <3> QED
        BY <3>2, <3>3
    <2>10. ASSUME NEW e \in walk.kept, ~Newer(l, e) PROVE e \in walk.seen \cup shown
      <3>1. CASE ~Newer(walk.before, e)
        BY <1>6, <3>1
      <3>2. CASE Newer(walk.before, e)
        <4>1. e \in B
          BY <1>2, <1>4, <3>2
        <4>2. e \in rows
          BY <1>3, <1>4, <1>8, <2>6, <2>10, <4>1, DownToLast DEF rows
        <4>3. e \in shown
          BY <1>3, <1>7, <1>8, <2>1, <2>5, <2>10, <4>2, DownToLast
        <4> QED
          BY <4>3
      <3> QED
        BY <3>1, <3>2
    <2>11. walk.seen \cap shown = {}
      BY <1>2, <1>4, <1>6, <2>7
    <2>12. KeysetStands(list, walk')
      BY <1>6, <2>8, <2>9, <2>10, <2>11 DEF KeysetStands
    <2> QED
      BY <2>8, <2>12, SeeHolds DEF Keysets, Numbered
  <1> QED
    BY <1>9, <1>10

(***************************************************************************)
(* The feed.                                                               *)
(***************************************************************************)
LEMMA LatestIs ==
  ASSUME PagingInv
  PROVE  LET latest == Max({0} \cup {e.at : e \in entries})
         IN  latest \in Int /\ \A e \in entries : e.at <= latest
  <1> DEFINE T == {0} \cup {e.at : e \in entries}
  <1>1. entries \subseteq Entries
    BY InvIs
  <1>2. IsFiniteSet(Moments \cup {0}) /\ Moments \cup {0} \subseteq Int
    BY PagingConstants, FS_AddElement
  <1>3. T \in SUBSET (Moments \cup {0})
    BY <1>1 DEF Entries
  <1>4. 0 \in T /\ \A e \in entries : e.at \in T
    OBVIOUS
  <1> HIDE DEF T
  <1>5. IsFiniteSet(T) /\ T \subseteq Int /\ T # {}
    BY <1>2, <1>3, <1>4, FS_Subset
  <1>6. Max(T) \in T /\ \A x \in T : x <= Max(T)
    BY <1>5, MaxIs
  <1> QED
    BY <1>4, <1>5, <1>6 DEF T

LEMMA BeginFeedPageHolds ==
  ASSUME PagingInv, BeginFeedPage
  PROVE  PagingInv'
  <1> DEFINE latest == Max({0} \cup {e.at : e \in entries})
             p == [at |-> "windows", found |-> {}, upper |-> walk.before,
                   window |-> FIRST_WINDOW, latest |-> latest]
  <1>1. page' = p /\ UNCHANGED <<list, entries, walk>> /\ list = "feed" /\ walk.at = "page"
    BY DEF BeginFeedPage, ReadOn, AsksFor
  <1>2. latest \in Int /\ \A e \in entries : e.at <= latest
    BY LatestIs
  <1> HIDE DEF latest
  <1>3. walk.before \in Places /\ FIRST_WINDOW \in Nat
    BY InvIs, PagingConstants
  <1>4. p \in PageRecords
    BY <1>2, <1>3 DEF PageRecords
  <1>5. WindowsStand(list, p, walk)
    <2>1. /\ p.found = {} /\ p.upper = walk.before /\ p.latest = latest
      OBVIOUS
    <2>2. IsFiniteSet({}) /\ Cardinality({}) < PAGE
      BY FS_EmptySet, PagingConstants
    <2>3. walk.kept \subseteq entries
      BY InvIs
    <2> HIDE DEF p
    <2> QED
      BY <1>1, <1>2, <2>1, <2>2, <2>3 DEF WindowsStand
  <1>6. p.at = "windows"
    OBVIOUS
  <1> HIDE DEF p
  <1> QED
    BY <1>1, <1>4, <1>5, <1>6 DEF PagingInv

\* The cardinality of two sets apart.
LEMMA ApartCounts ==
  ASSUME NEW S, IsFiniteSet(S), NEW T, IsFiniteSet(T), S \cap T = {}
  PROVE  /\ IsFiniteSet(S \cup T)
         /\ Cardinality(S \cup T) = Cardinality(S) + Cardinality(T)
         /\ Cardinality(S) \in Nat /\ Cardinality(T) \in Nat
  <1>1. /\ IsFiniteSet(S \cup T)
        /\ Cardinality(S \cup T) = Cardinality(S) + Cardinality(T) - Cardinality(S \cap T)
    BY FS_Union
  <1>2. Cardinality(S \cap T) = 0
    BY FS_EmptySet
  <1>3. Cardinality(S) \in Nat /\ Cardinality(T) \in Nat
    BY FS_CardinalityType
  <1> QED
    BY <1>1, <1>2, <1>3

LEMMA FeedWindowHolds ==
  ASSUME PagingInv, FeedWindow
  PROVE  PagingInv'
  <1> DEFINE lower == Max({page.upper.at - page.window, FEED_FLOOR})
             wanted == PAGE - Cardinality(page.found)
             W == {e \in Below(entries, page.upper) : e.at >= lower}
             read == NewestOf(W, wanted)
             R == IF page.latest >= lower THEN read ELSE {}
             F == page.found \cup R
             l == LastOf(F)
             q == [page EXCEPT !.found = F, !.upper = [at |-> lower, id |-> 0],
                               !.window = @ * GROWTH]
  <1>1. /\ page.at = "windows"
        /\ IF page.upper.at <= FEED_FLOOR THEN See(page.found, FALSE, walk)
           ELSE IF Cardinality(F) = PAGE THEN See(F, TRUE, [walk EXCEPT !.before = l])
           ELSE ReadOn(q)
    BY DEF FeedWindow
  <1>2. /\ entries \subseteq Places /\ IsFiniteSet(entries) /\ walk \in WalkRecords
        /\ walk.kept \subseteq entries /\ walk.before \in Places
        /\ walk.seen \subseteq Places /\ entries \subseteq Entries /\ walk.number \in Nat
        /\ walk.kept \subseteq Places
    BY InvIs
  <1>3. PAGE \in Nat /\ PAGE >= 1 /\ FEED_FLOOR \in Int /\ GROWTH \in Nat
    BY PagingConstants
  <1>4. WindowsStand(list, page, walk)
    BY <1>1 DEF PagingInv
  <1>5. /\ list = "feed" /\ walk.at = "page"
        /\ IsFiniteSet(page.found) /\ Cardinality(page.found) < PAGE
        /\ \A e \in Entries : Newer(page.upper, e) => Newer(walk.before, e)
        /\ \A e \in page.found : Newer(walk.before, e) /\ ~Newer(page.upper, e)
        /\ \A e \in walk.kept : Newer(walk.before, e) /\ ~Newer(page.upper, e)
                                   => e \in page.found
        /\ \A e \in walk.kept : e.at <= page.latest
    BY <1>4 DEF WindowsStand
  <1>6. /\ page \in [at : {"windows"}, found : SUBSET Entries, upper : Places, window : Nat,
                      latest : Int]
        /\ page.found \subseteq Entries /\ page.upper \in Places /\ page.window \in Nat
        /\ page.latest \in Int /\ page.upper.at \in Int /\ page.upper.id \in Int
    BY <1>1 DEF PagingInv, PageRecords, Places
  <1>7. /\ walk.twice = {} /\ \A e \in walk.seen : ~Newer(walk.before, e)
        /\ \A e \in walk.kept : ~Newer(walk.before, e) => e \in walk.seen
    BY <1>5 DEF PagingInv, KeysetStands, Keysets
  <1>8. page.found \subseteq Places
    BY <1>6, EntriesArePlaces
  <1>9. CASE page.upper.at <= FEED_FLOOR
    <2>1. See(page.found, FALSE, walk)
      BY <1>1, <1>9
    <2>2. /\ walk'.at = "ended" /\ walk'.seen = walk.seen \cup page.found
          /\ walk'.twice = walk.twice \cup (walk.seen \cap page.found)
          /\ walk'.kept = walk.kept
          /\ page' = NoPageRecord /\ list' = list /\ entries' = entries
          /\ EntriesStand(entries, walk')
      BY <1>2, <1>6, <2>1, SeeIs
    <2>3. walk'.twice = {}
      BY <1>5, <1>7, <2>2
    <2>4. ASSUME NEW e \in walk.kept PROVE e \in walk'.seen \/ e.at <= FEED_FLOOR
      <3>1. CASE ~Newer(walk.before, e)
        BY <1>7, <2>2, <3>1
      <3>2. CASE Newer(walk.before, e) /\ ~Newer(page.upper, e)
        BY <1>5, <2>2, <3>2
      <3>3. CASE Newer(page.upper, e)
        <4>1. e.at \in Int
          BY <1>2 DEF Places
        <4>2. e.at <= page.upper.at
          BY <1>6, <3>3, <4>1 DEF Newer
        <4> QED
          BY <1>3, <1>6, <1>9, <4>1, <4>2
      <3> QED
        BY <3>1, <3>2, <3>3
    <2>5. KeysetStands(list, walk')
      BY <1>5, <2>2, <2>3, <2>4 DEF KeysetStands
    <2> QED
      BY <1>5, <2>2, <2>5, SeeHolds DEF Numbered
  <1>10. CASE ~(page.upper.at <= FEED_FLOOR)
    <2>1. lower \in Int /\ lower <= page.upper.at
      <3> DEFINE a == page.upper.at - page.window
                 T == {a, FEED_FLOOR}
      <3>1. a \in Int /\ a <= page.upper.at /\ FEED_FLOOR <= page.upper.at
        BY <1>3, <1>6, <1>10
      <3> HIDE DEF a
      <3>2. IsFiniteSet({a} \cup {FEED_FLOOR})
        BY FS_Singleton, FS_AddElement
      <3>3. T = {a} \cup {FEED_FLOOR} /\ T \subseteq Int /\ T # {}
        BY <1>3, <3>1
      <3> HIDE DEF T
      <3>4. Max(T) \in T
        BY <3>2, <3>3, MaxIs
      <3> QED
        BY <1>3, <3>1, <3>4 DEF T, a
    <2> HIDE DEF lower
    <2>2. wanted \in Nat /\ wanted >= 1 /\ Cardinality(page.found) + wanted = PAGE
      <3>1. Cardinality(page.found) \in Nat
        BY <1>5, FS_CardinalityType
      <3> QED
        BY <1>3, <1>5, <3>1
    <2>3. /\ W \in SUBSET entries
          /\ \A e \in entries : e \in W <=> Newer(page.upper, e) /\ e.at >= lower
      BY DEF Below
    <2> HIDE DEF W, wanted
    <2>4. IsFiniteSet(W) /\ W \subseteq Places
      BY <1>2, <2>3, FS_Subset
    <2>5. /\ read \subseteq W /\ IsFiniteSet(read) /\ Cardinality(read) \in Nat
          /\ Cardinality(read) <= wanted
      BY <2>2, <2>4, NewestFinite, NewestAtMost
    <2>6. Cardinality(read) < wanted => read = W
      BY <2>2, <2>4, NewestAll
    <2> HIDE DEF read
    <2>7. R \subseteq read /\ (R = read \/ (R = {} /\ page.latest < lower))
      <3>1. CASE page.latest >= lower
        BY <3>1
      <3>2. CASE ~(page.latest >= lower)
        <4>1. page.latest < lower
          BY <1>6, <2>1, <3>2
        <4>2. R = {}
          BY <3>2
        <4> QED
          BY <4>1, <4>2
      <3> QED
        BY <3>1, <3>2
    <2>8. IsFiniteSet(R)
      BY <2>5, <2>7, FS_Subset
    <2> HIDE DEF R
    <2>9. \A e \in R : e \in W /\ e \in entries /\ Newer(page.upper, e) /\ e.at >= lower
      BY <2>3, <2>5, <2>7
    <2>10. page.found \cap R = {}
      BY <1>5, <2>9
    <2>11. /\ IsFiniteSet(F) /\ Cardinality(F) = Cardinality(page.found) + Cardinality(R)
           /\ Cardinality(R) \in Nat
      BY <1>5, <2>8, <2>10, ApartCounts
    <2>12. \A e \in F : e \in Entries /\ e \in Places /\ Newer(walk.before, e)
      BY <1>2, <1>5, <1>6, <1>8, <2>9
    <2>13. \A e \in F : e \in page.found \/ e \in R
      OBVIOUS
    <2>14. page.found \subseteq F /\ R \subseteq F
      OBVIOUS
    <2> HIDE DEF F
    <2>15. CASE Cardinality(F) = PAGE
      <3>1. R # {}
        <4>1. ASSUME R = {} PROVE FALSE
          <5>1. Cardinality(R) = 0
            BY <4>1, FS_EmptySet
          <5>2. Cardinality(page.found) \in Nat
            BY <1>5, FS_CardinalityType
          <5> QED
            BY <1>3, <1>5, <2>11, <2>15, <5>1, <5>2
        <4> QED
          BY <4>1
      <3>2. R = read
        BY <2>7, <3>1
      <3>3. l \in F /\ \A f \in F : f = l \/ Newer(f, l)
        <4>1. F # {} /\ F \subseteq Places
          BY <2>12, <2>14, <3>1
        <4> QED
          BY <2>11, <4>1, LastIs
      <3> HIDE DEF l
      <3>4. l \in R
        <4>1. PICK r \in R : TRUE
          BY <3>1
        <4>2. /\ r \in Places /\ l \in Places /\ Newer(page.upper, r)
              /\ (r = l \/ Newer(r, l))
          BY <2>9, <2>12, <2>14, <3>3
        <4>3. Newer(page.upper, l)
          BY <1>6, <4>2, NewerOrders
        <4> QED
          BY <1>5, <2>13, <3>3, <4>3
      <3>5. See(F, TRUE, [walk EXCEPT !.before = l])
        BY <1>1, <1>10, <2>15
      <3>6. l \in Places /\ Newer(walk.before, l) /\ F \subseteq Entries
        BY <2>12, <3>3
      <3> DEFINE fields == [walk EXCEPT !.before = l]
      <3>7. fields.before = l /\ fields.number = walk.number
        BY <1>2 DEF WalkRecords
      <3>8. See(F, TRUE, fields)
        BY <3>5
      <3> HIDE DEF fields
      <3>9. /\ walk'.at = "page" /\ walk'.before = l /\ walk'.seen = walk.seen \cup F
            /\ walk'.twice = walk.twice \cup (walk.seen \cap F) /\ walk'.kept = walk.kept
            /\ page' = NoPageRecord /\ list' = list /\ entries' = entries
            /\ EntriesStand(entries, walk')
        BY <1>2, <3>6, <3>7, <3>8, SeeIs
      <3>10. walk.seen \cap F = {}
        BY <1>7, <2>12
      <3>11. ASSUME NEW e \in walk.seen \cup F PROVE ~Newer(l, e)
        <4>1. CASE e \in F
          BY <2>12, <3>3, <3>6, <4>1, NewerOrders
        <4>2. CASE e \in walk.seen
          BY <1>2, <1>7, <3>6, <4>2, NewerOrders
        <4> QED
          BY <4>1, <4>2
      <3>12. ASSUME NEW e \in walk.kept, ~Newer(l, e) PROVE e \in walk.seen \cup F
        <4>1. CASE ~Newer(walk.before, e)
          BY <1>7, <4>1
        <4>2. CASE Newer(walk.before, e) /\ ~Newer(page.upper, e)
          BY <1>5, <2>14, <4>2
        <4>3. CASE Newer(page.upper, e)
          <5>1. e \in entries /\ e \in Places /\ (e = l \/ Newer(e, l))
            BY <1>2, <3>6, <3>12, NewerOrders
          <5>2. e.at >= lower
            <6>1. l.at >= lower /\ l.at \in Int /\ e.at \in Int
              BY <2>9, <3>4, <3>6, <5>1 DEF Places
            <6>2. e.at >= l.at
              BY <5>1, <6>1 DEF Newer
            <6> QED
              BY <2>1, <6>1, <6>2
          <5>3. e \in W
            BY <2>3, <4>3, <5>1, <5>2
          <5>4. e \in NewestOf(W, wanted)
            BY <2>2, <2>4, <3>2, <3>4, <3>12, <5>3, DownToLast DEF read
          <5> QED
            BY <2>14, <3>2, <5>4 DEF read
        <4> QED
          BY <4>1, <4>2, <4>3
      <3>13. KeysetStands(list, walk')
        BY <1>7, <3>9, <3>10, <3>11, <3>12 DEF KeysetStands
      <3> QED
        BY <1>5, <3>9, <3>13, SeeHolds DEF Numbered
    <2>16. CASE Cardinality(F) # PAGE
      <3>1. page' = q /\ UNCHANGED <<list, entries, walk>>
        BY <1>1, <1>10, <2>16 DEF ReadOn
      <3>2. F \subseteq Entries
        BY <2>12
      <3> DEFINE u == [at |-> lower, id |-> 0]
      <3>3. u \in Places /\ u.at = lower /\ u.id = 0
        BY <2>1 DEF Places
      <3>4. page.window * GROWTH \in Nat
        BY <1>3, <1>6
      <3>5. q = [page EXCEPT !.found = F, !.upper = u, !.window = page.window * GROWTH]
        BY <1>6
      <3> HIDE DEF u, q
      <3>6. /\ q \in [at : {"windows"}, found : SUBSET Entries, upper : Places, window : Nat,
                       latest : Int]
            /\ q.at = "windows" /\ q.found = F /\ q.upper = u /\ q.latest = page.latest
        BY <1>6, <3>2, <3>3, <3>4, <3>5
      <3>7. q \in PageRecords
        BY <3>6 DEF PageRecords
      <3>8. Cardinality(F) < PAGE /\ Cardinality(R) < wanted
        <4>1. Cardinality(page.found) \in Nat /\ Cardinality(F) \in Nat
          BY <1>5, <2>11, FS_CardinalityType
        <4>2. Cardinality(R) <= Cardinality(read)
          BY <2>5, <2>7, FS_Subset
        <4> QED
          BY <1>3, <2>2, <2>5, <2>11, <2>16, <4>1, <4>2
      <3>9. ASSUME NEW e \in Places
            PROVE  /\ e.at \in Int /\ e.id \in Int
                   /\ Newer(u, e) <=> lower > e.at \/ (lower = e.at /\ 0 > e.id)
                   /\ Newer(page.upper, e) <=> \/ page.upper.at > e.at
                                               \/ (page.upper.at = e.at /\ page.upper.id > e.id)
        <4>1. e.at \in Int /\ e.id \in Int
          BY <3>9 DEF Places
        <4>2. Newer(u, e) <=> lower > e.at \/ (lower = e.at /\ 0 > e.id)
          BY <3>3 DEF Newer
        <4> QED
          BY <4>1, <4>2 DEF Newer
      <3>10. ASSUME NEW e \in Entries, Newer(u, e) PROVE Newer(walk.before, e)
        <4>1. e \in Places /\ e.id > 0
          <5>1. EntryIds \subseteq Nat \ {0}
            BY PagingConstants
          <5>2. e.id \in EntryIds /\ e \in Places
            BY EntriesArePlaces DEF Entries
          <5>3. e.id \in Nat /\ e.id # 0
            BY <5>1, <5>2
          <5> QED
            BY <5>2, <5>3
        <4>2. e.at \in Int /\ e.id \in Int
          BY <4>1, <3>9
        <4>3. lower > e.at \/ (lower = e.at /\ 0 > e.id)
          BY <3>9, <3>10, <4>1
        <4>4. page.upper.at > e.at
          BY <1>6, <2>1, <4>1, <4>2, <4>3
        <4>5. Newer(page.upper, e)
          BY <4>4 DEF Newer
        <4> QED
          BY <1>5, <4>5
      <3>11. ASSUME NEW e \in F PROVE Newer(walk.before, e) /\ ~Newer(u, e)
        <4>1. Newer(walk.before, e) /\ e \in Places
          BY <2>12
        <4>2. EntryIds \subseteq Nat
          BY PagingConstants
        <4>3. e \in Entries
          BY <2>12
        <4>4. e.id \in Nat /\ e.at \in Int
          BY <3>9, <4>1, <4>2, <4>3 DEF Entries
        <4>5. e.at >= lower
          <5>1. CASE e \in R
            BY <2>9, <5>1
          <5>2. CASE e \in page.found
            <6>1. ~(page.upper.at > e.at)
              BY <1>5, <3>9, <4>1, <5>2
            <6> QED
              BY <1>6, <2>1, <4>4, <6>1
          <5> QED
            BY <2>13, <5>1, <5>2
        <4>6. ~(lower > e.at) /\ ~(0 > e.id)
          BY <2>1, <4>4, <4>5
        <4> QED
          BY <3>9, <4>1, <4>6
      <3>12. ASSUME NEW e \in walk.kept, Newer(walk.before, e), ~Newer(u, e) PROVE e \in F
        <4>1. e \in Places /\ e \in entries /\ e.at <= page.latest
          BY <1>2, <1>5
        <4>2. CASE ~Newer(page.upper, e)
          BY <1>5, <2>14, <3>12, <4>2
        <4>3. CASE Newer(page.upper, e)
          <5>1. e.at \in Int /\ ~(lower > e.at)
            <6>1. Newer(u, e) <=> lower > e.at \/ (lower = e.at /\ 0 > e.id)
              BY <3>9, <4>1
            <6> QED
              BY <3>9, <3>12, <4>1, <6>1
          <5>2. e \in W
            BY <2>1, <2>3, <4>1, <4>3, <5>1
          <5>3. R = read
            BY <1>6, <2>1, <2>7, <4>1, <5>1
          <5> QED
            BY <2>6, <2>14, <3>8, <5>2, <5>3
        <4> QED
          BY <4>2, <4>3
      <3>13. WindowsStand(list, q, walk)
        BY <1>5, <2>11, <3>6, <3>8, <3>10, <3>11, <3>12 DEF WindowsStand
      <3> QED
        BY <3>1, <3>6, <3>7, <3>13 DEF PagingInv
    <2> QED
      BY <2>15, <2>16
  <1> QED
    BY <1>9, <1>10

(***************************************************************************)
(* Recent scrobbles.                                                       *)
(***************************************************************************)
LEMMA MinOfTwo ==
  ASSUME NEW a \in Int, NEW b \in Int
  PROVE  /\ Min({a, b}) \in {a, b}
         /\ Min({a, b}) <= a /\ Min({a, b}) <= b
  <1> DEFINE T == {a, b}
  <1>1. T = {a} \cup {b} /\ T \subseteq Int /\ T # {} /\ a \in T /\ b \in T
    OBVIOUS
  <1>2. IsFiniteSet({a} \cup {b})
    BY FS_Singleton, FS_AddElement
  <1> HIDE DEF T
  <1>3. Min(T) \in T /\ \A x \in T : Min(T) <= x
    BY <1>1, <1>2, MinIs
  <1> QED
    BY <1>1, <1>3 DEF T

LEMMA GetRecentScrobblesHolds ==
  ASSUME PagingInv, GetRecentScrobbles
  PROVE  PagingInv'
  <1> DEFINE latest == Max({0} \cup {e.at : e \in entries})
             cutoff == Min({walk.before.at, latest + 1})
             p == [at |-> "window", found |-> {}, cutoff |-> cutoff]
  <1>1. page' = p /\ UNCHANGED <<list, entries, walk>> /\ list = "recent" /\ walk.at = "page"
    BY DEF GetRecentScrobbles, ReadOn, AsksFor
  <1>2. latest \in Int /\ \A e \in entries : e.at <= latest
    BY LatestIs
  <1>3. walk.before.at \in Int /\ walk.kept \subseteq entries /\ entries \subseteq Places
    BY InvIs DEF Places
  <1> HIDE DEF latest
  <1>4. /\ cutoff \in {walk.before.at, latest + 1} /\ cutoff \in Int
        /\ cutoff <= walk.before.at
    <2>1. latest + 1 \in Int
      BY <1>2
    <2> QED
      BY <1>3, <2>1, MinOfTwo
  <1> HIDE DEF cutoff
  <1>5. p \in PageRecords /\ p.at = "window" /\ p.found = {} /\ p.cutoff = cutoff
    BY <1>4 DEF PageRecords
  <1> HIDE DEF p
  <1>6. ASSUME NEW e \in walk.kept, e.at < walk.before.at PROVE e.at < cutoff
    <2>1. e.at <= latest /\ e.at \in Int
      BY <1>2, <1>3 DEF Places
    <2> QED
      BY <1>2, <1>3, <1>4, <1>6, <2>1
  <1>7. IsFiniteSet({}) /\ Cardinality({}) < PAGE
    BY FS_EmptySet, PagingConstants
  <1>8. CutoffStands(list, p, walk)
    BY <1>1, <1>4, <1>5, <1>6, <1>7 DEF CutoffStands
  <1> QED
    BY <1>1, <1>5, <1>8 DEF PagingInv

\* Two entries of one moment crowd it.
LEMMA TwoCrowd ==
  ASSUME NEW S, S \subseteq Entries, IsFiniteSet(S), NEW e \in S, NEW f \in S,
         e # f, e.at = f.at
  PROVE  e.at \in Crowded(S)
  <1> DEFINE T == {x \in S : x.at = e.at}
  <1>1. T \in SUBSET S /\ {e} \cup {f} \in SUBSET T
    OBVIOUS
  <1> HIDE DEF T
  <1>2. IsFiniteSet(T) /\ Cardinality(T) \in Nat
    BY <1>1, FS_Subset, FS_CardinalityType
  <1>3. IsFiniteSet({e}) /\ Cardinality({e}) = 1
    BY FS_Singleton
  <1>4. IsFiniteSet({e} \cup {f}) /\ Cardinality({e} \cup {f}) = 2
    <2>1. f \notin {e}
      OBVIOUS
    <2> DEFINE E == {e}
    <2> HIDE DEF E
    <2>2. IsFiniteSet(E \cup {f}) /\ Cardinality(E \cup {f}) = Cardinality(E) + 1
      BY <1>3, <2>1, FS_AddElement DEF E
    <2> QED
      BY <1>3, <2>2 DEF E
  <1>5. Cardinality({e} \cup {f}) <= Cardinality(T)
    BY <1>1, <1>2, FS_Subset
  <1>6. Cardinality(T) > 1
    BY <1>2, <1>4, <1>5
  <1>7. e.at \in Moments
    BY DEF Entries
  <1> QED
    BY <1>6, <1>7 DEF Crowded, T

LEMMA AnyNewestIs ==
  ASSUME NEW S, IsFiniteSet(S), NEW n \in Nat, NEW s \in AnyNewest(S, n)
  PROVE  /\ s \subseteq S /\ IsFiniteSet(s) /\ Cardinality(s) \in Nat /\ Cardinality(s) <= n
         /\ Cardinality(s) < n => s = S
         /\ \A e \in s, f \in S \ s : e.at >= f.at
  <1>1. /\ s \in SUBSET S /\ Cardinality(s) = Min({n, Cardinality(S)})
        /\ \A e \in s, f \in S \ s : e.at >= f.at
    BY DEF AnyNewest
  <1>2. Cardinality(S) \in Nat
    BY FS_CardinalityType
  <1>3. /\ Min({n, Cardinality(S)}) \in {n, Cardinality(S)}
        /\ Min({n, Cardinality(S)}) <= n
    <2>1. n \in Int /\ Cardinality(S) \in Int
      BY <1>2
    <2> QED
      BY <2>1, MinOfTwo
  <1>4. IsFiniteSet(s) /\ (Cardinality(S) = Cardinality(s) => S = s)
    BY <1>1, FS_Subset
  <1>5. Cardinality(s) \in Nat
    BY <1>4, FS_CardinalityType
  <1>6. Cardinality(s) < n => Cardinality(s) = Cardinality(S)
    BY <1>1, <1>2, <1>3, <1>5
  <1> QED
    BY <1>1, <1>3, <1>4, <1>5, <1>6

LEMMA RecentBetweenHolds ==
  ASSUME PagingInv, RecentBetween
  PROVE  PagingInv'
  <1> DEFINE from == page.cutoff - RECENT_WINDOW
             B == {e \in entries : e.at < page.cutoff
                                   /\ (IF page.at = "window" THEN e.at >= from ELSE e.at < from)}
             n == PAGE - Cardinality(page.found)
  <1>1. PICK s \in AnyNewest(B, n) :
          /\ page.at \in {"window", "rest"}
          /\ LET shown == page.found \cup s IN
             IF page.at = "window" /\ Cardinality(shown) < PAGE
             THEN ReadOn([page EXCEPT !.at = "rest", !.found = shown])
             ELSE See(shown, Cardinality(shown) = PAGE,
                      [walk EXCEPT !.before = [at |-> Min({e.at : e \in shown} \cup {page.cutoff}),
                                               id |-> 0]])
    BY DEF RecentBetween
  <1>2. /\ entries \subseteq Places /\ IsFiniteSet(entries) /\ walk \in WalkRecords
        /\ walk.kept \subseteq entries /\ walk.before.at \in Int
        /\ walk.seen \subseteq Places /\ entries \subseteq Entries /\ walk.number \in Nat
        /\ walk.kept \subseteq Places /\ Crowded(entries) \subseteq walk.crowded
    BY InvIs DEF Places
  <1>3. PAGE \in Nat /\ PAGE >= 1 /\ RECENT_WINDOW \in Int
    BY PagingConstants
  <1>4. CutoffStands(list, page, walk)
    BY <1>1 DEF PagingInv
  <1>5. /\ list = "recent" /\ walk.at = "page"
        /\ IsFiniteSet(page.found) /\ Cardinality(page.found) < PAGE
        /\ page.cutoff <= walk.before.at
        /\ \A e \in walk.kept : e.at < walk.before.at => e.at < page.cutoff
        /\ page.at = "window" => page.found = {}
        /\ page.at = "rest" =>
             /\ \A e \in page.found : from <= e.at /\ e.at < page.cutoff
             /\ \A e \in walk.kept : from <= e.at /\ e.at < page.cutoff => e \in page.found
    BY <1>4 DEF CutoffStands
  <1>6. /\ page \in [at : {"window", "rest"}, found : SUBSET Entries, cutoff : Int]
        /\ page.found \subseteq Entries /\ page.cutoff \in Int
    BY <1>1 DEF PagingInv, PageRecords
  <1>7. from \in Int
    BY <1>3, <1>6
  <1>8. RecentStands(walk)
    BY <1>5 DEF PagingInv
  <1>9. /\ walk.twice = {} /\ \A e \in walk.seen : walk.before.at <= e.at
        /\ \A e \in walk.kept : walk.before.at <= e.at /\ e.at \notin walk.crowded
                                  => e \in walk.seen
    BY <1>5, <1>8 DEF RecentStands
  <1>10. page.found \subseteq Places
    BY <1>6, EntriesArePlaces
  <1> HIDE DEF from
  <1>11. /\ B \in SUBSET entries
         /\ \A e \in entries : e \in B <=>
              e.at < page.cutoff /\ (IF page.at = "window" THEN e.at >= from ELSE e.at < from)
    OBVIOUS
  <1> HIDE DEF B
  <1>12. IsFiniteSet(B)
    BY <1>2, <1>11, FS_Subset
  <1>13. n \in Nat /\ n >= 1 /\ Cardinality(page.found) + n = PAGE
         /\ Cardinality(page.found) \in Nat
    <2>1. Cardinality(page.found) \in Nat
      BY <1>5, FS_CardinalityType
    <2> QED
      BY <1>3, <1>5, <2>1
  <1> HIDE DEF n
  <1>14. /\ s \subseteq B /\ IsFiniteSet(s) /\ Cardinality(s) \in Nat /\ Cardinality(s) <= n
         /\ Cardinality(s) < n => s = B
         /\ \A e \in s, f \in B \ s : e.at >= f.at
    BY <1>1, <1>12, <1>13, AnyNewestIs
  <1>15. \A e \in s : /\ e \in entries /\ e \in Entries /\ e \in Places /\ e.at < page.cutoff
                      /\ (IF page.at = "window" THEN e.at >= from ELSE e.at < from)
    BY <1>2, <1>11, <1>14
  <1>16. \A e \in Places : e.at \in Int
    BY DEF Places
  <1>17. page.found \cap s = {}
    BY <1>1, <1>5, <1>7, <1>10, <1>15, <1>16
  <1> DEFINE shown == page.found \cup s
  <1>18. /\ IsFiniteSet(shown) /\ Cardinality(shown) = Cardinality(page.found) + Cardinality(s)
    BY <1>5, <1>14, <1>17, ApartCounts
  <1>19. \A e \in shown : e \in Entries /\ e \in Places /\ e.at < page.cutoff
    <2>1. \A e \in page.found : e.at < page.cutoff
      BY <1>1, <1>5
    <2> QED
      BY <1>6, <1>10, <1>15, <2>1
  <1>20. /\ page.found \subseteq shown /\ s \subseteq shown
         /\ \A e \in shown : e \in page.found \/ e \in s
    OBVIOUS
  <1>21. page.at = "window" => shown = s
    BY <1>5
  <1> HIDE DEF shown
  <1>22. CASE page.at = "window" /\ Cardinality(shown) < PAGE
    <2> DEFINE q == [page EXCEPT !.at = "rest", !.found = shown]
    <2>1. page' = q /\ UNCHANGED <<list, entries, walk>>
      BY <1>1, <1>22 DEF ReadOn, shown
    <2>2. shown \subseteq Entries
      BY <1>19
    <2>3. /\ q \in PageRecords /\ q.at = "rest" /\ q.found = shown /\ q.cutoff = page.cutoff
      BY <1>6, <2>2 DEF PageRecords
    <2> HIDE DEF q
    <2>4. s = B /\ shown = B
      BY <1>3, <1>13, <1>14, <1>18, <1>21, <1>22
    <2>5. \A e \in B : from <= e.at /\ e.at < page.cutoff
      BY <1>2, <1>7, <1>11, <1>16, <1>22
    <2>6. \A e \in walk.kept : from <= e.at /\ e.at < page.cutoff => e \in B
      BY <1>2, <1>7, <1>11, <1>16, <1>22
    <2>7. CutoffStands(list, q, walk)
      BY <1>5, <1>18, <1>22, <2>3, <2>4, <2>5, <2>6 DEF CutoffStands, from
    <2> QED
      BY <2>1, <2>3, <2>7 DEF PagingInv
  <1>23. CASE ~(page.at = "window" /\ Cardinality(shown) < PAGE)
    <2> DEFINE T == {e.at : e \in shown} \cup {page.cutoff}
               m == Min(T)
               more == Cardinality(shown) = PAGE
               place == [at |-> m, id |-> 0]
               fields == [walk EXCEPT !.before = place]
    <2>1. See(shown, more, fields)
      BY <1>1, <1>23 DEF shown
    <2>2. m \in Int /\ m <= page.cutoff /\ (\A e \in shown : m <= e.at)
          /\ (m = page.cutoff \/ \E e \in shown : m = e.at)
      <3>1. IsFiniteSet(Moments \cup {page.cutoff}) /\ Moments \cup {page.cutoff} \subseteq Int
        <4>1. IsFiniteSet(Moments) /\ Moments \subseteq Int
          BY PagingConstants
        <4> QED
          BY <1>6, <4>1, FS_AddElement
      <3>2. T \in SUBSET (Moments \cup {page.cutoff})
        BY <1>19 DEF Entries
      <3>3. page.cutoff \in T /\ \A e \in shown : e.at \in T
        OBVIOUS
      <3>4. \A x \in T : x = page.cutoff \/ \E e \in shown : x = e.at
        OBVIOUS
      <3> HIDE DEF T
      <3>5. IsFiniteSet(T) /\ T \subseteq Int /\ T # {}
        BY <3>1, <3>2, <3>3, FS_Subset
      <3>6. Min(T) \in T /\ \A x \in T : Min(T) <= x
        BY <3>5, MinIs
      <3> QED
        BY <3>3, <3>4, <3>5, <3>6
    <2> HIDE DEF m, T
    <2>3. place \in Places /\ place.at = m
      BY <2>2 DEF Places
    <2> HIDE DEF place
    <2>4. /\ fields.before = place /\ fields.number = walk.number
          /\ fields.before \in Places /\ fields.number \in Nat
      BY <1>2, <2>3 DEF WalkRecords
    <2> HIDE DEF fields
    <2>5. more \in BOOLEAN /\ shown \subseteq Entries
      BY <1>19
    <2> HIDE DEF more
    <2>6. /\ walk'.at = IF more THEN "page" ELSE "ended"
          /\ walk'.before = place /\ walk'.seen = walk.seen \cup shown
          /\ walk'.twice = walk.twice \cup (walk.seen \cap shown) /\ walk'.kept = walk.kept
          /\ walk'.crowded = walk.crowded
          /\ page' = NoPageRecord /\ list' = list /\ entries' = entries
          /\ EntriesStand(entries, walk')
      BY <2>1, <2>4, <2>5, SeeIs
    <2>7. walk.seen \cap shown = {}
      <3>1. ASSUME NEW e \in walk.seen, e \in shown PROVE FALSE
        <4>1. e.at \in Int /\ e.at < page.cutoff /\ walk.before.at <= e.at
          BY <1>2, <1>9, <1>16, <1>19, <3>1
        <4> QED
          BY <1>2, <1>5, <1>6, <4>1
      <3> QED
        BY <3>1
    <2>8. \A e \in walk.seen \cup shown : m <= e.at
      <3>1. ASSUME NEW e \in walk.seen PROVE m <= e.at
        <4>1. e.at \in Int /\ walk.before.at <= e.at
          BY <1>2, <1>9, <1>16
        <4> QED
          BY <1>2, <1>5, <1>6, <2>2, <4>1
      <3> QED
        BY <2>2, <3>1
    <2>9. ASSUME NEW e \in walk.kept, e.at < page.cutoff, m <= e.at, e.at \notin walk.crowded
          PROVE  e \in shown
      <3>1. e \in entries /\ e.at \in Int
        BY <1>2, <1>16
      <3>2. CASE page.at = "rest" /\ from <= e.at
        BY <1>5, <1>20, <2>9, <3>2
      <3>3. CASE ~(page.at = "rest" /\ from <= e.at)
        <4>1. PICK f \in shown : m = f.at
          BY <2>2, <2>9, <3>1, <1>6
        <4>2. f.at \in Int /\ f \in Places
          BY <1>16, <1>19
        <4>3. f \in s
          <5>1. CASE page.at = "window"
            BY <1>21, <5>1
          <5>2. CASE page.at = "rest"
            <6>1. e.at < from
              BY <1>7, <3>1, <3>3, <5>2
            <6>2. f.at < from
              BY <1>7, <2>9, <3>1, <4>1, <4>2, <6>1
            <6>3. f \notin page.found
              BY <1>5, <1>7, <4>2, <5>2, <6>2
            <6> QED
              BY <1>20, <6>3
          <5> QED
            BY <1>1, <5>1, <5>2
        <4>4. f \in entries
          BY <1>15, <4>3
        <4>5. e \in B
          <5>1. CASE page.at = "window"
            <6>1. f.at >= from
              BY <1>15, <4>3, <5>1
            <6>2. e.at >= from
              BY <1>7, <2>9, <3>1, <4>1, <4>2, <6>1
            <6> QED
              BY <1>11, <2>9, <3>1, <5>1, <6>2
          <5>2. CASE page.at = "rest"
            <6>1. e.at < from
              BY <1>7, <3>1, <3>3, <5>2
            <6> QED
              BY <1>11, <2>9, <3>1, <5>2, <6>1
          <5> QED
            BY <1>1, <5>1, <5>2
        <4>6. ASSUME e \notin s PROVE FALSE
          <5>1. f.at >= e.at
            BY <1>14, <4>3, <4>5, <4>6
          <5>2. e.at = f.at
            BY <2>9, <3>1, <4>1, <4>2, <5>1
          <5>3. e # f
            BY <4>3, <4>6
          <5>4. e.at \in Crowded(entries)
            BY <1>2, <3>1, <4>4, <5>2, <5>3, TwoCrowd
          <5> QED
            BY <1>2, <2>9, <5>4
        <4> QED
          BY <1>20, <4>6
      <3> QED
        BY <3>2, <3>3
    <2>10. \A e \in walk.kept : e.at \in Int /\ (e.at < page.cutoff \/ walk.before.at <= e.at)
      BY <1>2, <1>5, <1>16
    <2>11. more => \A e \in walk.kept : m <= e.at /\ e.at \notin walk.crowded
                                          => e \in walk.seen \cup shown
      BY <1>9, <2>9, <2>10
    <2>12. ~more => \A e \in walk.kept : e.at \notin walk.crowded => e \in walk.seen \cup shown
      <3> SUFFICES ASSUME ~more, NEW e \in walk.kept, e.at \notin walk.crowded,
                          e \notin walk.seen
                   PROVE  e \in shown
        OBVIOUS
      <3>1. e.at < page.cutoff /\ e.at \in Int /\ e \in entries
        BY <1>2, <1>9, <2>10
      <3>2. Cardinality(shown) # PAGE
        BY DEF more
      <3>3. Cardinality(s) < n
        BY <1>3, <1>13, <1>14, <1>18, <3>2
      <3>4. page.at = "rest"
        BY <1>1, <1>3, <1>13, <1>14, <1>18, <1>23, <3>3
      <3>5. s = B
        BY <1>14, <3>3
      <3>6. CASE from <= e.at
        BY <1>5, <1>20, <3>1, <3>4, <3>6
      <3>7. CASE ~(from <= e.at)
        <4>1. e.at < from
          BY <1>7, <3>1, <3>7
        <4>2. e \in B
          BY <1>11, <3>1, <3>4, <4>1
        <4> QED
          BY <1>20, <3>5, <4>2
      <3> QED
        BY <3>6, <3>7
    <2>13. RecentStands(walk')
      BY <1>9, <2>3, <2>6, <2>7, <2>8, <2>11, <2>12 DEF RecentStands
    <2> QED
      BY <1>5, <2>6, <2>13, SeeHolds DEF Keysets, Numbered
  <1> QED
    BY <1>22, <1>23

(***************************************************************************)
(* Numbered pages.                                                         *)
(***************************************************************************)
LEMMA NumberedPageHolds ==
  ASSUME PagingInv, list \in Numbered, walk.at = "page", NumberedPage
  PROVE  PagingInv'
  <1> DEFINE from == PAGE * walk.number
             P == NewestOf(entries, from)
             A == NewestOf(entries, from + PAGE)
             shown == A \ P
             more == Cardinality(shown) = PAGE
             fields == [walk EXCEPT !.number = @ + 1]
  <1>1. See(shown, more, fields)
    BY DEF NumberedPage
  <1>2. /\ entries \subseteq Places /\ IsFiniteSet(entries) /\ walk \in WalkRecords
        /\ walk.kept \subseteq entries /\ walk.number \in Nat /\ walk.before \in Places
        /\ entries \subseteq Entries
    BY InvIs
  <1>3. PAGE \in Nat /\ PAGE >= 1
    BY PagingConstants
  <1>4. from \in Nat /\ from + PAGE \in Nat /\ PAGE * (walk.number + 1) = from + PAGE
    BY <1>2, <1>3
  <1>5. /\ ~walk.shrank => walk.kept \cap P \subseteq walk.seen
        /\ ~walk.grew => walk.twice = {} /\ walk.seen \cap entries \subseteq P
    BY DEF PagingInv, NumberedStands
  <1>6. /\ fields.before \in Places /\ fields.number \in Nat
        /\ fields.number = walk.number + 1
    BY <1>2 DEF WalkRecords
  <1> HIDE DEF from, fields
  <1>7. /\ P \subseteq entries /\ IsFiniteSet(P) /\ Cardinality(P) \in Nat
        /\ Cardinality(P) <= from
        /\ A \subseteq entries /\ IsFiniteSet(A) /\ Cardinality(A) \in Nat
        /\ Cardinality(A) <= from + PAGE
    BY <1>2, <1>4, NewestFinite, NewestAtMost
  <1>8. Cardinality(P) < from => P = entries
    BY <1>2, <1>4, NewestAll
  <1>9. Cardinality(A) < from + PAGE => A = entries
    BY <1>2, <1>4, NewestAll
  <1>10. P \subseteq A
    <2>1. from \in Int /\ from + PAGE \in Int /\ from <= from + PAGE
      BY <1>3, <1>4
    <2> QED
      BY <1>2, <1>7, <2>1, NewestAbove
  <1> HIDE DEF P, A
  <1>11. /\ IsFiniteSet(shown) /\ Cardinality(shown) = Cardinality(A) - Cardinality(P)
    <2>1. A \cap P = P
      BY <1>10
    <2> QED
      BY <1>7, <2>1, FS_Difference
  <1>12. shown \subseteq Entries /\ more \in BOOLEAN
    BY <1>2, <1>7
  <1>13. A = P \cup shown /\ P \cap shown = {} /\ shown \subseteq entries
    BY <1>7, <1>10
  <1>14. ~more => A = entries
    <2>1. CASE P = entries
      BY <1>7, <1>10, <2>1
    <2>2. CASE P # entries
      <3>1. Cardinality(P) = from
        BY <1>4, <1>7, <1>8, <2>2
      <3>2. ~more => Cardinality(A) < from + PAGE
        BY <1>3, <1>4, <1>7, <1>11, <3>1
      <3> QED
        BY <1>9, <3>2
    <2> QED
      BY <2>1, <2>2
  <1> HIDE DEF shown, more
  <1>15. /\ walk'.at = IF more THEN "page" ELSE "ended"
         /\ walk'.number = walk.number + 1 /\ walk'.seen = walk.seen \cup shown
         /\ walk'.twice = walk.twice \cup (walk.seen \cap shown) /\ walk'.kept = walk.kept
         /\ walk'.grew = walk.grew /\ walk'.shrank = walk.shrank
         /\ page' = NoPageRecord /\ list' = list /\ entries' = entries
         /\ EntriesStand(entries, walk')
    BY <1>1, <1>6, <1>12, SeeIs
  <1>16. NewestOf(entries, PAGE * walk'.number) = A
    BY <1>4, <1>15 DEF A
  <1>17. ~walk.shrank => walk.kept \cap A \subseteq walk'.seen
    BY <1>5, <1>13, <1>15
  <1>18. ~walk.grew => walk'.twice = {} /\ walk'.seen \cap entries \subseteq A
    BY <1>5, <1>13, <1>15
  <1>19. ~walk.shrank /\ ~more => walk.kept \subseteq walk'.seen
    BY <1>2, <1>14, <1>17
  <1>20. NumberedStands(entries, walk')
    BY <1>15, <1>16, <1>17, <1>18, <1>19 DEF NumberedStands
  <1> QED
    BY <1>15, <1>20, SeeHolds DEF Keysets, Numbered

(***************************************************************************)
(* Changes of the list.                                                    *)
(***************************************************************************)
LEMMA ComesHolds ==
  ASSUME PagingInv, walk.at # "ended", NEW e \in Entries, e \notin entries,
         entries' = entries \cup {e}, UNCHANGED <<list, page>>,
         walk' = [walk EXCEPT !.grew = TRUE, !.crowded = @ \cup Crowded(entries \cup {e})]
  PROVE  PagingInv'
  <1> DEFINE es == entries \cup {e}
             w == [walk EXCEPT !.grew = TRUE, !.crowded = walk.crowded \cup Crowded(es)]
  <1>1. /\ entries \subseteq Entries /\ IsFiniteSet(entries) /\ walk \in WalkRecords
        /\ walk.kept \subseteq entries /\ walk.number \in Nat
    BY InvIs
  <1>2. Crowded(es) \subseteq Moments
    BY DEF Crowded
  <1>3. es \subseteq Entries /\ IsFiniteSet(es) /\ entries \in SUBSET es
    BY <1>1, FS_AddElement
  <1>4. walk' = w /\ entries' = es
    BY <1>1 DEF WalkRecords
  <1> HIDE DEF es
  <1>5. /\ w \in WalkRecords /\ w.at = walk.at /\ w.before = walk.before
        /\ w.number = walk.number /\ w.seen = walk.seen /\ w.twice = walk.twice
        /\ w.kept = walk.kept /\ w.grew = TRUE /\ w.shrank = walk.shrank
        /\ w.crowded = walk.crowded \cup Crowded(es)
    BY <1>1, <1>2 DEF WalkRecords
  <1> HIDE DEF w
  <1>6. EntriesStand(es, w)
    BY <1>1, <1>3, <1>5 DEF EntriesStand
  <1>7. list \in Keysets => KeysetStands(list, w)
    BY <1>5 DEF PagingInv, KeysetStands
  <1>8. list = "recent" => RecentStands(w)
    BY <1>5 DEF PagingInv, RecentStands
  <1>9. list \in Numbered => NumberedStands(es, w)
    <2> DEFINE n == PAGE * walk.number
    <2>1. n \in Int
      BY <1>1, PagingConstants
    <2>2. walk.at = "page"
      BY <1>1 DEF WalkRecords
    <2> SUFFICES ASSUME list \in Numbered PROVE NumberedStands(es, w)
      OBVIOUS
    <2>3. ~walk.shrank => walk.kept \cap NewestOf(entries, n) \subseteq walk.seen
      BY <2>2 DEF PagingInv, NumberedStands
    <2> HIDE DEF n
    <2>4. walk.kept \cap NewestOf(es, n) \subseteq walk.kept \cap NewestOf(entries, n)
      BY <1>1, <1>3, <2>1, NewestStays
    <2> QED
      BY <1>5, <2>2, <2>3, <2>4 DEF NumberedStands, n
  <1>10. page.at = "windows" => WindowsStand(list, page, w)
    BY <1>5 DEF PagingInv, WindowsStand
  <1>11. page.at \in {"window", "rest"} => CutoffStands(list, page, w)
    BY <1>5 DEF PagingInv, CutoffStands
  <1> QED
    BY <1>4, <1>6, <1>7, <1>8, <1>9, <1>10, <1>11 DEF PagingInv

LEMMA GoesHolds ==
  ASSUME PagingInv, walk.at # "ended", NEW e \in entries,
         entries' = entries \ {e}, UNCHANGED <<list, page>>,
         walk' = [walk EXCEPT !.kept = @ \ {e}, !.shrank = TRUE]
  PROVE  PagingInv'
  <1> DEFINE es == entries \ {e}
             w == [walk EXCEPT !.kept = walk.kept \ {e}, !.shrank = TRUE]
  <1>1. /\ entries \subseteq Entries /\ IsFiniteSet(entries) /\ walk \in WalkRecords
        /\ walk.kept \subseteq entries /\ walk.kept \subseteq Entries /\ walk.number \in Nat
        /\ Crowded(entries) \subseteq walk.crowded
    BY InvIs
  <1>2. es \subseteq Entries /\ IsFiniteSet(es) /\ es \in SUBSET entries
    BY <1>1, FS_RemoveElement
  <1>3. walk' = w /\ entries' = es
    BY <1>1 DEF WalkRecords
  <1>4. walk.kept \ {e} \subseteq es /\ walk.kept \ {e} \subseteq Entries
    BY <1>1
  <1> HIDE DEF es
  <1>5. /\ w \in WalkRecords /\ w.at = walk.at /\ w.before = walk.before
        /\ w.number = walk.number /\ w.seen = walk.seen /\ w.twice = walk.twice
        /\ w.kept = walk.kept \ {e} /\ w.grew = walk.grew /\ w.shrank = TRUE
        /\ w.crowded = walk.crowded
    BY <1>1, <1>4 DEF WalkRecords
  <1> HIDE DEF w
  <1>6. Crowded(es) \subseteq Crowded(entries)
    <2>1. ASSUME NEW m \in Crowded(es) PROVE m \in Crowded(entries)
      <3> DEFINE T == {f \in es : f.at = m}
                 U == {f \in entries : f.at = m}
      <3>1. m \in Moments /\ Cardinality(T) > 1
        BY <2>1 DEF Crowded
      <3>2. U \in SUBSET entries /\ T \in SUBSET U
        BY <1>2
      <3> HIDE DEF T, U
      <3>3. IsFiniteSet(U) /\ IsFiniteSet(T) /\ Cardinality(T) <= Cardinality(U)
        BY <1>1, <3>2, FS_Subset
      <3>4. Cardinality(U) \in Nat /\ Cardinality(T) \in Nat
        BY <3>3, FS_CardinalityType
      <3>5. Cardinality(U) > 1
        BY <3>1, <3>3, <3>4
      <3> QED
        BY <3>1, <3>5 DEF Crowded, U
    <2> QED
      BY <2>1
  <1>7. EntriesStand(es, w)
    BY <1>1, <1>2, <1>4, <1>5, <1>6 DEF EntriesStand
  <1>8. list \in Keysets => KeysetStands(list, w)
    BY <1>5 DEF PagingInv, KeysetStands
  <1>9. list = "recent" => RecentStands(w)
    BY <1>5 DEF PagingInv, RecentStands
  <1>10. list \in Numbered => NumberedStands(es, w)
    <2> DEFINE n == PAGE * walk.number
    <2>1. n \in Int
      BY <1>1, PagingConstants
    <2>2. walk.at = "page"
      BY <1>1 DEF WalkRecords
    <2> SUFFICES ASSUME list \in Numbered PROVE NumberedStands(es, w)
      OBVIOUS
    <2>3. ~walk.grew => walk.twice = {} /\ walk.seen \cap entries \subseteq NewestOf(entries, n)
      BY <2>2 DEF PagingInv, NumberedStands
    <2> HIDE DEF n
    <2>4. NewestOf(entries, n) \cap es \subseteq NewestOf(es, n)
      BY <1>1, <1>2, <2>1, NewestStays
    <2>5. ~walk.grew => walk.seen \cap es \subseteq NewestOf(es, n)
      BY <1>2, <2>3, <2>4
    <2> QED
      BY <1>5, <2>2, <2>3, <2>5 DEF NumberedStands, n
  <1>11. page.at = "windows" => WindowsStand(list, page, w)
    BY <1>5 DEF PagingInv, WindowsStand
  <1>12. page.at \in {"window", "rest"} => CutoffStands(list, page, w)
    BY <1>5 DEF PagingInv, CutoffStands
  <1> QED
    BY <1>3, <1>7, <1>8, <1>9, <1>10, <1>11, <1>12 DEF PagingInv

LEMMA ListChangesHold ==
  ASSUME PagingInv, ListChanges
  PROVE  PagingInv'
  <1>1. PICK e \in Entries :
          \/ /\ e \notin entries /\ entries' = entries \cup {e}
             /\ walk' = [walk EXCEPT !.grew = TRUE, !.crowded = @ \cup Crowded(entries \cup {e})]
          \/ /\ e \in entries /\ entries' = entries \ {e}
             /\ walk' = [walk EXCEPT !.kept = @ \ {e}, !.shrank = TRUE]
    BY DEF ListChanges
  <1>2. walk.at # "ended" /\ UNCHANGED <<list, page>>
    BY DEF ListChanges
  <1> QED
    BY <1>1, <1>2, ComesHolds, GoesHolds

(***************************************************************************)
(* Every step.                                                             *)
(***************************************************************************)
LEMMA EntriesFinite == IsFiniteSet(Entries)
  <1> DEFINE E == [x \in Moments \X EntryIds |-> [at |-> x[1], id |-> x[2]]]
  <1>1. IsFiniteSet(Moments \X EntryIds)
    BY PagingConstants, FS_Product
  <1>2. E \in [Moments \X EntryIds -> Entries]
    BY DEF Entries
  <1>3. ASSUME NEW e \in Entries PROVE \E x \in Moments \X EntryIds : E[x] = e
    <2>1. e.at \in Moments /\ e.id \in EntryIds /\ e = [at |-> e.at, id |-> e.id]
      BY DEF Entries
    <2>2. <<e.at, e.id>> \in Moments \X EntryIds
      BY <2>1
    <2>3. E[<<e.at, e.id>>] = [at |-> e.at, id |-> e.id]
      BY <2>2
    <2> HIDE DEF E
    <2> QED
      BY <2>1, <2>2, <2>3
  <1> HIDE DEF E
  <1>4. E \in Surjection(Moments \X EntryIds, Entries)
    BY <1>2, <1>3 DEF Surjection
  <1> QED
    BY <1>1, <1>4, FS_Surjection

LEMMA PagingBegins ==
  ASSUME PagingInit
  PROVE  PagingInv
  <1>1. entries \in SUBSET Entries /\ list \in PagedLists
    BY DEF PagingInit
  <1>2. IsFiniteSet(entries)
    BY <1>1, EntriesFinite, FS_Subset
  <1>3. Start \in Places /\ \A e \in Entries : Newer(Start, e)
    <2>1. Moments \subseteq Int /\ Moments # {} /\ IsFiniteSet(Moments)
      BY PagingConstants
    <2>2. Max(Moments) \in Int /\ \A m \in Moments : m <= Max(Moments)
      BY <2>1, MaxIs
    <2>3. Start.at = Max(Moments) + 1 /\ Start \in Places
      BY <2>2 DEF Start, Places
    <2>4. ASSUME NEW e \in Entries PROVE Newer(Start, e)
      <3>1. e.at \in Moments /\ e.at \in Int
        BY <2>1 DEF Entries
      <3>2. Start.at > e.at
        BY <2>2, <2>3, <3>1
      <3> QED
        BY <3>2 DEF Newer
    <2> QED
      BY <2>3, <2>4
  <1> DEFINE w == [at |-> "page", before |-> Start, number |-> 0, seen |-> {}, twice |-> {},
                   kept |-> entries, grew |-> FALSE, shrank |-> FALSE,
                   crowded |-> Crowded(entries)]
  <1>4. walk = w /\ page = NoPageRecord
    BY DEF PagingInit, NoPageRecord
  <1>5. Crowded(entries) \subseteq Moments
    BY DEF Crowded
  <1>6. /\ w \in WalkRecords /\ w.at = "page" /\ w.before = Start /\ w.number = 0
        /\ w.seen = {} /\ w.twice = {} /\ w.kept = entries /\ w.crowded = Crowded(entries)
    BY <1>1, <1>3, <1>5 DEF WalkRecords
  <1> HIDE DEF w
  <1>7. EntriesStand(entries, w)
    BY <1>1, <1>2, <1>6 DEF EntriesStand
  <1>8. KeysetStands(list, w)
    BY <1>1, <1>3, <1>6 DEF KeysetStands
  <1>9. RecentStands(w)
    <2>1. ASSUME NEW e \in entries PROVE ~(Start.at <= e.at)
      <3>1. Moments \subseteq Int /\ Moments # {} /\ IsFiniteSet(Moments)
        BY PagingConstants
      <3>2. e.at \in Moments /\ e.at \in Int
        BY <1>1, <3>1 DEF Entries
      <3>3. Max(Moments) \in Int /\ e.at <= Max(Moments)
        BY <3>1, <3>2, MaxIs
      <3>4. Start.at = Max(Moments) + 1
        BY DEF Start
      <3> QED
        BY <3>2, <3>3, <3>4
    <2> QED
      BY <1>6, <2>1 DEF RecentStands
  <1>10. NumberedStands(entries, w)
    <2>1. NewestOf(entries, PAGE * w.number) = {}
      <3>1. PAGE * w.number = 0
        BY <1>6, PagingConstants
      <3>2. \A e \in entries : Cardinality(Ahead(entries, e)) \in Nat
        BY <1>2, AheadCounts
      <3>3. \A e \in entries : ~(Cardinality(Ahead(entries, e)) < 0)
        BY <3>2
      <3> QED
        BY <3>1, <3>3 DEF NewestOf, Ahead
    <2> QED
      BY <1>6, <2>1 DEF NumberedStands
  <1> QED
    BY <1>1, <1>4, <1>7, <1>8, <1>9, <1>10, NoPageIs DEF PagingInv

LEMMA PagingStep ==
  ASSUME PagingInv, [PagingNext]_pagingVars
  PROVE  PagingInv'
  <1>1. CASE UNCHANGED pagingVars
    BY <1>1 DEF pagingVars, PagingInv
  <1>2. CASE ListChanges
    BY <1>2, ListChangesHold
  <1>3. CASE LovedPage \/ MyTags \/ ListBlocks \/ ListFollows
    <2>1. list \in Keysets \ {"feed"} /\ walk.at = "page" /\ CursorPage
      BY <1>3 DEF LovedPage, MyTags, ListBlocks, ListFollows, AsksFor, Keysets
    <2> QED
      BY <2>1, CursorPageHolds
  <1>4. CASE BeginFeedPage \/ FeedWindow
    BY <1>4, BeginFeedPageHolds, FeedWindowHolds
  <1>5. CASE GetRecentScrobbles \/ RecentBetween
    BY <1>5, GetRecentScrobblesHolds, RecentBetweenHolds
  <1>6. CASE RecentScrobblesPage \/ LovesPageAt
    <2>1. list \in Numbered /\ walk.at = "page" /\ NumberedPage
      BY <1>6 DEF RecentScrobblesPage, LovesPageAt, AsksFor, Numbered
    <2> QED
      BY <2>1, NumberedPageHolds
  <1> QED
    BY <1>1, <1>2, <1>3, <1>4, <1>5, <1>6 DEF PagingNext

LEMMA InvSeesAll ==
  ASSUME PagingInv
  PROVE  WalkSeesAll
  <1> SUFFICES ASSUME walk.at = "ended" PROVE WalkSeesAll
    BY DEF WalkSeesAll
  <1>1. CASE list \in Keysets
    <2>1. /\ walk.twice = {}
          /\ \A e \in walk.kept : e \in walk.seen \/ (list = "feed" /\ e.at <= FEED_FLOOR)
      BY <1>1 DEF PagingInv, KeysetStands
    <2>2. \A e \in walk.kept : e.at \in Int
      BY InvIs DEF Places
    <2>3. FEED_FLOOR \in Int
      BY PagingConstants
    <2>4. {e \in walk.kept : e.at > FEED_FLOOR} \subseteq walk.seen
      BY <2>1, <2>2, <2>3
    <2> QED
      BY <1>1, <2>1, <2>4 DEF WalkSeesAll, Keysets
  <1>2. CASE list = "recent"
    BY <1>2 DEF PagingInv, RecentStands, WalkSeesAll
  <1>3. CASE list \in Numbered
    BY <1>3 DEF PagingInv, NumberedStands, WalkSeesAll, Numbered
  <1>4. CASE list \notin Keysets /\ list # "recent" /\ list \notin Numbered
    BY <1>4 DEF WalkSeesAll, Keysets, Numbered
  <1> QED
    BY <1>1, <1>2, <1>3, <1>4

\* However long the list and the pages, and whatever comes and goes between
\* them: a walk to the end shows every entry that stayed, and none twice, but
\* for what pages by time and by number must miss (cursor.rs, feed.rs,
\* scrobbles.rs, compat/lastfm.rs).
THEOREM WalksSeeAll == PagingSpec => []WalkSeesAll
  <1>1. PagingInit => PagingInv
    BY PagingBegins
  <1>2. PagingInv /\ [PagingNext]_pagingVars => PagingInv'
    BY PagingStep
  <1>3. PagingInv => WalkSeesAll
    BY InvSeesAll
  <1> QED
    BY <1>1, <1>2, <1>3, PTL DEF PagingSpec
=============================================================================
