SPECIFICATION Spec
CONSTANTS
    u1 = u1
    u2 = u2
    j1 = j1
    j2 = j2
    d1 = d1
    d2 = d2
    c1 = c1
    NoJob = NoJob
    NoWorker = NoWorker
    Absent = Absent
    Live = Live
    Jobs = {j1, j2}
    Users = {u1}
    UserOf <- OneUser
    Daemons = {d1}
    Clis = {c1}
    Plays <- TwoPlays
    TimeOf <- TwoTimes
    PageOf <- TwoPages
    Pages = 2
    SegmentPages = 1
    LovedPages = 1
    SlicePages = 2
    MaxAttempts = 1
    MaxScrobbles = 1
    LivePlays <- NewestLive
    MaxFaults = 1
INVARIANT TypeOK
INVARIANT Counted
INVARIANT CapHolds
PROPERTY EndedStays
PROPERTY KeepsContract
