\* One day, a live and an imported scrobble, any one fault or new thresholds.
SPECIFICATION FairSpec
CONSTANTS
    Plays <- TwoPlays
    DayOf <- OneDay
    Tail = {}
    Imported <- Late
    Lengthless <- Late
    LastDay = 1
    FirstRetained = 1
    RecentDays = {1}
    Rulesets = 2
    Operators = {}
    MaxCommands = 0
    MaxFaults = 1
PROPERTIES LabelsSettle QueuesDrain
CHECK_DEADLOCK FALSE
