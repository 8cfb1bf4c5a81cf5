\* The worker and the command, a day, a ranking over it, any one fault.
SPECIFICATION FairSpec
CONSTANTS
    Days <- OneDay
    Periods = {"year"}
    Covers <- YearOfOne
    Kinds = {"artist", "track"}
    Erasers = {"worker", "command"}
    Operators = {"command"}
    Batch = 1
    MaxFaults = 1
PROPERTIES EraseEnds RankingsForget
CHECK_DEADLOCK FALSE
