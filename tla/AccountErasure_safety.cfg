\* The worker and the command, two days, one ranking, one fault.
SPECIFICATION Spec
CONSTANTS
    Days <- TwoDays
    Periods = {"year"}
    Covers <- YearOfTwo
    Kinds = {"artist", "track"}
    Erasers = {"worker", "command"}
    Operators = {"command"}
    Batch = 1
    MaxFaults = 1
INVARIANTS TypeOK RestorableIsWhole NothingComesBack MarkedUnlessPassed
CHECK_DEADLOCK FALSE
