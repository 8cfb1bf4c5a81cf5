SPECIFICATION accountsSpec
CONSTANTS
    ann = ann
    bob = bob
    k1 = k1
    k2 = k2
    People <- TwoPeople
    Pairs <- ThreePairs
    Sessions = {k1, k2}
    MAX_FOLLOWING = 1
    MAX_BLOCKS = 1
    Tracks = {"x", "y"}
    MAX_LOVED_TRACKS = 1
    MaxPairTimes = 2
    Requests = {k1, k2}
    SESSION_CACHE_SECS = 1
    SESSION_LIFE = 2
    MaxSessionTime = 3
    MaxCredentials = 2
    Taggers = {1, 2}
    TagNames = {"x", "y"}
    TagRequests = {k1, k2}
    MAX_TAGS_PER_ENTITY = 1
    MAX_TAGGINGS = 2
    MIN_LISTENERS = 2
    MAX_ENTITY_TAGS = 1
    MaxTagTimes = 3
    Uploaders = {ann, bob}
    Keys = {k1, k2}
    ImageRequests = {k1, k2}
    MIN_VOTES_TO_DEFAULT = 2
    MaxStops = 1
    MaxImageEvents = 4
    Entities = {"a"}
    Editors = {ann, bob}
    Texts <- BioTexts
    ImportedTexts = {"lastfm"}
    HostsOf <- LinksOf
    Repeated = {"spam"}
    LongTexts = {}
    LINK_BIOS_PER_AUTHOR = 1
    LINK_BIOS_PER_DAY = 2
    EDITS_PER_DAY = 2
    EDITS_PER_BIO = 1
    Forced = {FALSE}
    MaxRevisions = 3
    MaxCommands = 2
    Users = {1}
    ApiKeys = {"k"}
    AuthTokens = {"t"}
    CredentialIds = {k1, k2}
    Handshakes = {"h"}
    PlayerSessions = {"s"}
    Submitters = {ann, bob}
    Played = {1, 2}
    Skipped = {2}
    Invalid = {}
    DAILY_LIMIT = 1
    MaxCompatEvents = 3
    MaxFailures = 1
    MaxCounted = 3
    Moments <- FourMoments
    EntryIds = {1, 2}
    PagedLists <- AllLists
    PAGE = 2
    FEED_FLOOR = 1
    FIRST_WINDOW = 1
    GROWTH = 2
    RECENT_WINDOW = 1
    MaxEntries = 3
    MaxListChanges = 2
    Items = {"play"}
    MaxSightChanges = 2
    Viewers = {ann, bob}
    Players = {k1, k2}
    BUFFER = 1
    MaxEvents = 2
    MaxRepublishes = 1
    MaxLost = 1
INVARIANTS
    BlocksAndCapsHold
    TagsHold
    BiosHold
    ImagesHold
    CredentialsEnd
    SubmissionsHold
    SightHolds
    WalkSeesAll
SYMMETRY AccountSymmetry
CHECK_DEADLOCK FALSE
