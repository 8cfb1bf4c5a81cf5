\* Live scrobbles of two days, the first in its day's tail, which is too old
\* for weights; nothing fails.
SPECIFICATION Spec
CONSTANTS
    Plays <- ThreePlays
    DayOf <- TwoDays
    Tail <- Late
    Imported = {}
    Lengthless = {}
    LastDay = 2
    FirstRetained = 2
    RecentDays = {}
    Rulesets = 1
    Operators = {"operator"}
    MaxCommands = 1
    MaxFaults = 0
INVARIANTS TypeOK LabelsAreReal ToldIsLabelled TailReachesNextDay WeightsFollowLabels
CONSTRAINT TwoScrobbled
CHECK_DEADLOCK FALSE
