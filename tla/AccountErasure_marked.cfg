\* The worker alone, a day and a ranking over it; nothing fails.
SPECIFICATION Spec
CONSTANTS
    Days <- OneDay
    Periods = {"year"}
    Covers <- YearOfOne
    Kinds = {"artist", "track"}
    Erasers = {"worker"}
    Operators = {}
    Batch = 1
    MaxFaults = 0
INVARIANT ErasedIsMarked
CHECK_DEADLOCK FALSE
