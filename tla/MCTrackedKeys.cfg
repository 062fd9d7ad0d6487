CONSTANTS
    NumKeys = 2
    MaxAttempts = 4
    HasClock = TRUE
    Transport = "lossy"
SPECIFICATION Spec
INVARIANTS
    HeldIsOwed
PROPERTIES
    FailedReleaseAccounts
    DischargedOnlyWhenUp
