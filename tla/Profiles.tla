------------------------------- MODULE Profiles -------------------------------
(* Who sees a profile. The native pages, the Last.fm and ListenBrainz       *)
(* protocols and the lists each ask in their own order, a statement at a    *)
(* time, while the owner changes what they ask about. One owner; the viewer *)
(* is the owner, another account, or nobody signed in.                      *)
EXTENDS Integers

CONSTANTS
    Items,           \* what the owner may make: of play, love, tag, playing
    MaxSightChanges  \* bound: changes of what they ask about

ASSUME ProfilesConstants == MaxSightChanges \in Nat

PageDoors == {"profile", "friends", "recent", "top", "heatmap", "charts", "loved", "tags",
              "live", "similar"}
LastfmDoors == {"user.getInfo", "user.getRecentTracks", "user.getLovedTracks", "track.getTags",
                "user.getTopTags"}
InfoDoors == {"track.getInfo", "artist.getInfo"}
FeedbackDoors == {"get-feedback", "get-feedback-for-recordings"}
ListDoors == {"search", "followers", "feed"}
Doors == PageDoors \cup LastfmDoors \cup InfoDoors \cup FeedbackDoors \cup ListDoors \cup {"own"}
DoorViewers == {"owner", "other", "nobody"}

VARIABLES
    profile,         \* private, closing (delete_after), blocked (the owner
                     \* blocks the other), blocking, followed, listed, gone
    items,           \* made so far
    secret,          \* those made in private, and never public since
    asking,          \* the request
    sightChanges

profileVars == <<profile, items, secret, asking, sightChanges>>

Toggles == {"private", "blocked", "blocking", "followed", "listed"}

ReasonNames == {"gone", "closing", "private", "blocked", "blocking", "unfollowed", "unlisted"}
Answers == {"shown", "missing", "forbidden"}

\* A request: where it is, what it asks for whom, the privacy it read, the
\* reasons that have held since it began and whether nothing changed since,
\* and what it shows.
NotAsking == [at |-> "idle", door |-> "own", viewer |-> "owner", private |-> FALSE,
              held |-> {}, steady |-> TRUE, shown |-> {}]

ProfilesInit ==
    /\ profile \in {p \in
         [private : BOOLEAN, blocked : BOOLEAN, blocking : {FALSE},
          followed : BOOLEAN, listed : BOOLEAN, closing : {FALSE}, gone : {FALSE}] :
            ~(p.blocked /\ p.followed)}
    /\ items = {} /\ secret = {}
    /\ asking = NotAsking
    /\ sightChanges = 0

-----------------------------------------------------------------------------
\* Why a viewer may not see the profile through a door, as it stands.
Reasons(p, door, viewer) ==
    {r \in ReasonNames :
        CASE r = "gone" -> p.gone
          [] r = "closing" -> p.closing /\ door # "own"
          [] r = "private" -> p.private /\ (viewer # "owner" \/ door \in {"search", "feed"})
          [] r = "blocked" -> p.blocked /\ viewer = "other"
          [] r = "blocking" -> p.blocking /\ viewer = "other" /\ door \in ListDoors
          [] r = "unfollowed" -> ~p.followed /\ door \in {"followers", "feed"}
          [] r = "unlisted" -> ~p.listed /\ door = "similar" /\ viewer # "owner"}

\* A change of the profile while the request is under way: the reasons that
\* have held all along.
Meanwhile(p) ==
    /\ profile' = p
    /\ asking' = IF asking.at = "idle" THEN asking
                 ELSE IF asking.at \in Answers THEN NotAsking
                 ELSE [asking EXCEPT !.held = @ \cap Reasons(p, asking.door, asking.viewer),
                                     !.steady = FALSE]

Count == sightChanges < MaxSightChanges /\ sightChanges' = sightChanges + 1

\* Settings, a block or unblock (which ends the follow), a follow.
Toggle(field) ==
    /\ Count /\ ~profile.gone /\ ~profile.closing
    /\ field = "followed" => ~profile.blocked /\ ~profile.blocking
    /\ LET p == [profile EXCEPT ![field] = ~@] IN
       Meanwhile(IF p.blocked \/ p.blocking THEN [p EXCEPT !.followed = FALSE] ELSE p)
    /\ secret' = IF field = "private" /\ profile.private THEN {} ELSE secret
    /\ UNCHANGED items

AskOrCancelDeletion ==
    /\ Count /\ ~profile.gone
    /\ Meanwhile([profile EXCEPT !.closing = ~@])
    /\ UNCHANGED <<items, secret>>

EraseProfile ==
    /\ Count /\ profile.closing /\ ~profile.gone
    /\ Meanwhile([profile EXCEPT !.gone = TRUE])
    /\ items' = {} /\ secret' = {}

MakeItem(i) ==
    /\ i \notin items /\ ~profile.gone
    /\ items' = items \cup {i}
    /\ secret' = IF profile.private THEN secret \cup {i} ELSE secret
    /\ UNCHANGED <<profile, asking, sightChanges>>

-----------------------------------------------------------------------------
(* A request.                                                               *)

AnswerRequest(answer, shown) ==
    /\ asking' = [asking EXCEPT !.at = answer, !.private = FALSE, !.shown = shown]
    /\ UNCHANGED <<profile, items, secret, sightChanges>>

Proceed(fields) ==
    /\ asking' = fields
    /\ UNCHANGED <<profile, items, secret, sightChanges>>

BeginRequest(door, viewer) ==
    /\ asking.at = "idle"
    /\ door = "own" => viewer = "owner"
    /\ door = "feed" => viewer = "other"
    /\ Proceed([NotAsking EXCEPT !.at = "begun", !.door = door, !.viewer = viewer,
                                 !.held = Reasons(profile, door, viewer)])

EndRequest ==
    /\ asking.at \in Answers
    /\ Proceed(NotAsking)

\* The row as read; a missing account or one waiting to be erased answers
\* alike.
FindUser ==
    /\ asking.at = "begun" /\ asking.door \notin ListDoors \cup {"own"}
    /\ IF profile.gone \/ profile.closing THEN AnswerRequest("missing", {})
       ELSE Proceed([asking EXCEPT !.at = IF asking.viewer = "owner" THEN "own" ELSE "found",
                                   !.private = profile.private])

\* A live stream, now that it listens, asks again.
FindUserAgain ==
    /\ asking.at = "listening"
    /\ IF profile.gone \/ profile.closing THEN AnswerRequest("missing", {})
       ELSE Proceed([asking EXCEPT !.at = "found again", !.private = profile.private])

\* ensure_profile_visible: a block, read now, before the privacy read then.
EnsureVisible ==
    /\ asking.at \in {"found", "found again"} /\ asking.door \in PageDoors
    /\ IF profile.blocked /\ asking.viewer = "other" THEN AnswerRequest("missing", {})
       ELSE IF asking.private THEN AnswerRequest("forbidden", {})
       ELSE Proceed([asking EXCEPT !.at =
                        IF asking.at = "found" /\ asking.door = "live" THEN "listening"
                        ELSE IF asking.door = "similar" THEN "setting" ELSE "allowed"])

\* Someone else's taste neighbours are shown only if they chose to be listed.
ReadSetting ==
    /\ asking.at = "setting"
    /\ IF profile.gone \/ ~profile.listed THEN AnswerRequest("missing", {})
       ELSE Proceed([asking EXCEPT !.at = "allowed"])

\* visible_user, and ListenBrainz's visible.
VisibleUser ==
    /\ asking.at = "found" /\ asking.door \in LastfmDoors
    /\ IF profile.blocked /\ asking.viewer = "other" THEN AnswerRequest("missing", {})
       ELSE IF asking.private THEN AnswerRequest("forbidden", {})
       ELSE Proceed([asking EXCEPT !.at = "allowed"])

ListenBrainzVisible ==
    /\ asking.at = "found" /\ asking.door \in FeedbackDoors
    /\ IF profile.blocked /\ asking.viewer = "other" THEN AnswerRequest("missing", {})
       ELSE IF asking.private THEN AnswerRequest("forbidden", {})
       ELSE Proceed([asking EXCEPT !.at = "allowed"])

\* Variant: the user named in track.getInfo, privacy alone.
SeenIfPublic ==
    /\ asking.at = "found" /\ asking.door \in InfoDoors
    /\ IF asking.private THEN AnswerRequest("missing", {}) ELSE Proceed([asking EXCEPT !.at = "allowed"])

\* seen_user, which never says why an account's plays are left out.
SeenUser ==
    /\ asking.at = "found" /\ asking.door \in InfoDoors
    /\ IF asking.private \/ (profile.blocked /\ asking.viewer = "other") THEN AnswerRequest("missing", {})
       ELSE Proceed([asking EXCEPT !.at = "allowed"])

\* What a door shows of the profile, in statements of its own.
Show(door, kinds) ==
    /\ asking.at \in {"allowed", "own"} /\ asking.door = door
    /\ IF profile.gone THEN AnswerRequest("missing", {}) ELSE AnswerRequest("shown", items \cap kinds)

GetProfile == Show("profile", {})
GetFriends == Show("friends", {})
RecentScrobbles == Show("recent", {"play"})
TopLists == Show("top", {"play"})
ActivityHeatmap == Show("heatmap", {"play"})
PersonalCharts == Show("charts", {"play"})
UserLoved == Show("loved", {"love"})
UserTags == Show("tags", {"tag"})
LiveNowPlaying == Show("live", {"playing"})
SimilarUsers == Show("similar", {})
UserInfo == Show("user.getInfo", {})
RecentTracks == Show("user.getRecentTracks", {"play", "playing", "love"})
LovedTracks == Show("user.getLovedTracks", {"love"})
UserEntityTags == Show("track.getTags", {"tag"})
UserTopTags == Show("user.getTopTags", {"tag"})
TrackInfo == Show("track.getInfo", {"play", "love"})
ArtistInfo == Show("artist.getInfo", {"play"})
GetFeedback == Show("get-feedback", {"love"})
GetFeedbackForRecordings == Show("get-feedback-for-recordings", {"love"})
FeedEntries == Show("feed", {"play", "love"})

\* The owner's own pages, whatever the profile's privacy.
OwnPages ==
    /\ asking.at = "begun" /\ asking.door = "own"
    /\ IF profile.gone THEN AnswerRequest("missing", {}) ELSE AnswerRequest("shown", items)

\* Lists name only accounts their one statement finds visible.
Search ==
    /\ asking.at = "begun" /\ asking.door = "search"
    /\ LET p == profile IN
       IF p.gone \/ p.closing \/ p.private \/ (asking.viewer = "other" /\ (p.blocked \/ p.blocking))
       THEN AnswerRequest("missing", {}) ELSE AnswerRequest("shown", {})

FollowList ==
    /\ asking.at = "begun" /\ asking.door = "followers"
    /\ LET p == profile IN
       IF \/ p.gone \/ p.closing \/ ~p.followed
          \/ p.private /\ asking.viewer # "owner"
          \/ asking.viewer = "other" /\ (p.blocked \/ p.blocking)
       THEN AnswerRequest("missing", {}) ELSE AnswerRequest("shown", {})

\* The feed's accounts are read once, and then their plays.
ActiveFollows ==
    /\ asking.at = "begun" /\ asking.door = "feed"
    /\ LET p == profile IN
       IF p.gone \/ p.closing \/ p.private \/ ~p.followed \/ p.blocked \/ p.blocking
       THEN AnswerRequest("missing", {}) ELSE Proceed([asking EXCEPT !.at = "allowed"])

ProfilesNext ==
    \/ \E field \in Toggles : Toggle(field)
    \/ AskOrCancelDeletion \/ EraseProfile
    \/ \E i \in Items : MakeItem(i)
    \/ \E door \in Doors, viewer \in DoorViewers : BeginRequest(door, viewer)
    \/ EndRequest
    \/ FindUser \/ EnsureVisible \/ FindUserAgain \/ ReadSetting
    \/ VisibleUser \/ ListenBrainzVisible \/ SeenUser
    \/ GetProfile \/ GetFriends \/ RecentScrobbles \/ TopLists \/ ActivityHeatmap
    \/ PersonalCharts \/ UserLoved \/ UserTags \/ LiveNowPlaying \/ SimilarUsers
    \/ UserInfo \/ RecentTracks \/ LovedTracks \/ UserEntityTags \/ UserTopTags
    \/ TrackInfo \/ ArtistInfo \/ GetFeedback \/ GetFeedbackForRecordings
    \/ OwnPages \/ Search \/ FollowList \/ ActiveFollows \/ FeedEntries

ProfilesSpec == ProfilesInit /\ [][ProfilesNext]_profileVars

-----------------------------------------------------------------------------
ProfileRecords ==
    [private : BOOLEAN, blocked : BOOLEAN, blocking : BOOLEAN, followed : BOOLEAN,
     listed : BOOLEAN, closing : BOOLEAN, gone : BOOLEAN]
AskingRecords ==
    [at : {"idle", "begun", "found", "listening", "found again", "setting", "allowed", "own"}
          \cup Answers,
     door : Doors, viewer : DoorViewers, private : BOOLEAN, held : SUBSET ReasonNames,
     steady : BOOLEAN, shown : SUBSET Items]

ProfilesTypeOK ==
    /\ profile \in ProfileRecords /\ asking \in AskingRecords
    /\ secret \subseteq items /\ items \subseteq Items
    /\ sightChanges \in 0 .. MaxSightChanges

Answered == asking.at \in Answers

\* No door shows a profile to someone who, for one and the same reason, may
\* not have seen it at any time since asking; if nothing changed meanwhile,
\* every door shows it to those who may.
DoorsAgree ==
    Answered =>
        /\ asking.at = "shown" => asking.held = {}
        /\ asking.steady => (asking.at = "shown" <=> asking.held = {})

\* Nobody learns that an account blocks them from being told it is private:
\* it answers as one that doesn't exist (visibility.rs).
BlockedFindNobody ==
    Answered /\ "blocked" \in asking.held => asking.at = "missing"

\* What is played in private is its owner's alone (visibility.rs, "A private
\* profile is its owner's alone").
PrivateStaysPrivate ==
    asking.at = "shown" /\ asking.viewer # "owner" => asking.shown \cap secret = {}
=============================================================================
