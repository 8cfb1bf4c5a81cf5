SPECIFICATION FairSpec
CONSTANTS
    u1 = u1
    u2 = u2
    j1 = j1
    j2 = j2
    d1 = d1
    d2 = d2
    c1 = c1
    NoJob = NoJob
    NoWorker = NoWorker
    Absent = Absent
    Live = Live
    Jobs = {j1, j2}
    Users = {u1, u2}
    UserOf <- TwoUsers
    Daemons = {d1}
    Clis = {}
    Plays <- TwoPlays
    TimeOf <- TwoTimes
    PageOf <- TwoPages
    Pages = 2
    SegmentPages = 1
    LovedPages = 1
    SlicePages = 1
    MaxAttempts = 2
    MaxScrobbles = 9
    LivePlays <- NoneLive
    MaxFaults = 1
PROPERTY ImportsEnd
PROPERTY LeftoversHanded
PROPERTY EveryImportGetsItsTurn
