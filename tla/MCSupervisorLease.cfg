CONSTANTS
    s1 = s1
    Supervisors = {s1}
    Timeout = 1
    MaxTicks = 4
SPECIFICATION Spec
INVARIANTS
    AtMostOneLateDown
    NoSignalAfterCompletion
PROPERTIES
    ProvenFresh
    SilenceStopsWorker
    ExpiryEndsSession
CHECK_DEADLOCK FALSE
