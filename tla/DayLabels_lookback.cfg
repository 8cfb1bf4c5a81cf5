\* Two days; the worker may restart once.
SPECIFICATION FairSpec
CONSTANTS
    Plays <- TwoPlays
    DayOf <- NextDay
    Tail <- Late
    Imported = {}
    Lengthless = {}
    LastDay = 2
    FirstRetained = 1
    RecentDays = {}
    Rulesets = 1
    Operators = {}
    MaxCommands = 0
    MaxFaults = 1
PROPERTY LookbackSettles
CHECK_DEADLOCK FALSE
