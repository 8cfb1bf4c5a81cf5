----------------------------- MODULE MCAccounts ------------------------------
(* What accounts do and see, each component on its own: they share no state   *)
(* that these models keep, so a behaviour is one component's, chosen when it  *)
(* begins.  The others hold a first state.                                    *)
EXTENDS Social, Sessions, Tags, Images, Bios, Scrobblers, Sight, Paging

CONSTANTS ann, bob, k1, k2   \* model values (k1 and k2 are requests in flight, too)

VARIABLE part   \* the component that moves

\* Two accounts act on each other, and a third is followed or blocked.
TwoPeople == {1, 2}
ThreePairs == {<<1, 2>>, <<2, 1>>, <<1, 3>>}

NoTags == names = {} /\ standing = [u \in Taggers |-> "counts"]

FourMoments == 1 .. 4
AllLists == {"loves", "tags", "blocks", "follows", "feed", "recent", "numbered", "numbered loves"}

OpenProfile == \A field \in DOMAIN profile : ~profile[field]

BioTexts == {"plain", "spam", "lastfm"}
LinksOf == [t \in BioTexts |-> IF t = "spam" THEN {"h"} ELSE {}]

AccountSymmetry == Permutations({ann, bob}) \cup Permutations({k1, k2})

-----------------------------------------------------------------------------
Parts == {"social", "tags", "bios", "images", "sessions", "scrobblers", "profiles", "streams", "paging"}

accountsInit ==
    /\ part \in Parts
    /\ SocialInit
    /\ TagsInit /\ (part # "tags" => NoTags)
    /\ BiosInit
    /\ ImagesInit
    /\ SessionsInit
    /\ ScrobblersInit
    /\ ProfilesInit /\ (part # "profiles" => OpenProfile)
    /\ LiveInit
    /\ PagingInit /\ (part # "paging" => list = "loves" /\ entries = {})

accountsNext ==
    /\ UNCHANGED part
    /\ IF part = "social" THEN SocialNext ELSE UNCHANGED socialVars
    /\ IF part = "tags" THEN TagsNext ELSE UNCHANGED tagVars
    /\ IF part = "bios" THEN BiosNext ELSE UNCHANGED biosVars
    /\ IF part = "images" THEN ImagesNext ELSE UNCHANGED imagesVars
    /\ IF part = "sessions" THEN SessionsNext ELSE UNCHANGED sessionVars
    /\ IF part = "scrobblers" THEN ScrobblersNext ELSE UNCHANGED scrobblersVars
    /\ IF part = "profiles" THEN ProfilesNext ELSE UNCHANGED profileVars
    /\ IF part = "streams" THEN LiveNext ELSE UNCHANGED liveVars
    /\ IF part = "paging" THEN PagingNext ELSE UNCHANGED pagingVars

accountsVars == <<part, socialVars, tagVars, biosVars, imagesVars, sessionVars,
      scrobblersVars, profileVars, liveVars, pagingVars>>

accountsSpec == accountsInit /\ [][accountsNext]_accountsVars

=============================================================================
