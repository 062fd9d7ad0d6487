SPECIFICATION Spec
CONSTANTS
    MaxSessions = 2
    MaxCallers = 1
    Methods = {"skip"}
    World = {"identity", "delivery", "close"}
    Sessions <- MCSessions
    NoSession = 0
CHECK_DEADLOCK FALSE
INVARIANTS
    KeyboardExclusive
    KeysReleasedIsTrue
PROPERTY
    StoppedNeverArms
