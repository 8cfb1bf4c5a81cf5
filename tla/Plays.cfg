SPECIFICATION playsSpec
CONSTANTS
    w1 = w1
    w2 = w2
    Tracks = {1, 2, 3}
    Unnamed = {3}
    PAGE_LIMIT = 1
    PAGES_PER_SEGMENT = 1
    ToInclusive = FALSE
    LIVE_OVERLAP = 1
    DUPLICATE_WINDOW = 1
    REIMPORT_OVERLAP = 2
    MaxTime = 3
    MaxListens = 2
    MaxWalks = 2
    MaxShifted = 1
    FirstSecond = 2
    Hearable <- ThreeListens
    Profiles = {w1, w2}
    Unusable = {2}
    RecentPlays = 2
    MaxPlays = 3
    MaxLinks = 2
    MaxPollFaults = 1
    Recordings = {w1, w2}
    RecordingLength <- EqualLengths
    Redirects <- OneRedirect
    Shared = {w1, w2}
    Catalogs <- OneEach
    ClaimBatch = 2
    MaxAttempts = 2
    MaxFaults = 2
    MaxRequests = 1
    Listeners = {1, 2}
    MaxRuns = 2
    MaxTasteChanges = 2
    StartWeighed = {1}
    StartListed = {1}
    Listens = {1, 2}
    ChartKinds = {"artists", "tracks", "albums"}
    TrackOf <- TwoTracks
    ArtistOf <- OneArtist
    AlbumOf <- OneAlbum
    Late = {2}
    Ranges = {"7d"}
    Covers <- Week
    ChartLabels = {"counted", "duplicate"}
    ChartRequests = {"r"}
    PER_HOUR = 2
    PERSONAL_CACHE = 1
    MaxTicks = 1
    MaxRelabels = 1
    ChartViewers = {w1, w2}
    Followed = {1, 2}
    ChartEntities = {1}
    MAX_COVERED = 1
    MIN_CREDIT = 1
    MAX_POSITIONS = 1
    COMMUNITY_CACHE = 1
    MaxChartTicks = 1
    MaxFollowChanges = 1
    Recommendable = {w1, w2}
    MAX_SKIPS = 1
    MaxPageEvents = 4
    LiveWriters = {w1, w2}
    PageWriters = {"i"}
    Submissions <- TwoSubmissions
    PagePlays <- OnePage
    MaxCrashes = 1
    Albums = {1, 2}
    Voters = {1, 2}
    LastPlay = 2
    MaxChanges = 2
    Suspects = {"u"}
    WindowDays = 2
    MaxDay = 3
    MaxDetections = 2
    MaxSetups = 1
INVARIANTS
    EveryPlayOnce
    AttributionHolds
    EnrichmentHolds
    FairWeights
    TasteHolds
    KeptPagesHold
PROPERTY StepsHold
SYMMETRY PlaysSymmetry
CHECK_DEADLOCK FALSE
