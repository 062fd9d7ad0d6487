SPECIFICATION Spec
CONSTANTS
    MaxSessions = 1
    MaxCallers = 1
    Methods = {"stop", "pause", "resume"}
    World = {"focus", "delivery"}
    Sessions <- MCSessions
    NoSession = 0
CHECK_DEADLOCK FALSE
PROPERTIES
    PlaybackRetires
    PauseAcknowledged
