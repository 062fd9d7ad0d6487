CONSTANTS
    Grace = 1
    MaxTicks = 5
    MaxRetargets = 1
SPECIFICATION LiveSpec
INVARIANTS
    NothingCarriedOver
PROPERTIES
    PauseEnds
CHECK_DEADLOCK FALSE
