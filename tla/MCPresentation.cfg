CONSTANTS
    MaxNativeEvents = 2
    CriticalCapacity = 1
    MaxStates = 1
    MaxSnapshots = 2
    MaxOther = 1
SPECIFICATION Spec
INVARIANTS
    LifecycleInOrder
    SnapshotsSettled
    RetiredAfterTerminal
PROPERTIES
    LifecycleArrives
    SessionEnds
CHECK_DEADLOCK FALSE
