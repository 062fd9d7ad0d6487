CONSTANTS
    Grace = 1
    MaxTicks = 5
    MaxRetargets = 1
SPECIFICATION Spec
INVARIANTS
    IndependentlyResumable
CHECK_DEADLOCK FALSE
