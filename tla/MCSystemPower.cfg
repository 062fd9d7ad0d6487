CONSTANTS
    c1 = c1
    c2 = c2
    o1 = o1
    Callbacks = {c1, c2}
    Owners = {o1}
    Attempts = 2
    LastEpoch = 5
    CommandReasons = {"Quit", "PanicRelease"}
SPECIFICATION Spec
INVARIANTS
    RundownExcludesCallbacks
    SuspendedImpliesLatched
    AtMostOneLateDown
    LatchWakesWorker
PROPERTIES
    SessionStartsClean
    LatchedNeverArms
    LifecycleCompletes
    SuspendStopsWorker
