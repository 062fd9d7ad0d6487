CONSTANTS
    MaxNativeEvents = 2
    CriticalCapacity = 1
    MaxStates = 1
    MaxSnapshots = 1
    MaxOther = 0
SPECIFICATION Spec
INVARIANTS
    FinalizerCompletes
CHECK_DEADLOCK FALSE
