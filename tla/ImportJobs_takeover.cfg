SPECIFICATION Spec
CONSTANTS
    u1 = u1
    u2 = u2
    j1 = j1
    j2 = j2
    d1 = d1
    d2 = d2
    c1 = c1
    NoJob = NoJob
    NoWorker = NoWorker
    Absent = Absent
    Live = Live
    Jobs = {j1}
    Users = {u1}
    UserOf <- OneUser
    Daemons = {d1, d2}
    Clis = {}
    Plays <- ThreePlays
    TimeOf <- ThreeTimes
    PageOf <- ThreePages
    Pages = 3
    SegmentPages = 1
    LovedPages = 1
    SlicePages = 3
    MaxAttempts = 1
    MaxScrobbles = 9
    LivePlays <- NewestLive
    MaxFaults = 2
INVARIANT HolderInStep
INVARIANT CompleteWhenDone
INVARIANT HandedOver
PROPERTY CursorForward
