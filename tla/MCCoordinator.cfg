CONSTANTS
    a = a
    b = b
    Keys = {a, b}
    TickNum = 2
    TickDen = 3
    HoldUs = 2
    FrameUs = 1
    MarginUs = 1
    PreRoll = 1
    SendTicks = 1
    MaxLate = 1
    MaxPause = 1
    MaxPauses = 1
    Times = {0, 1, 3, 5, 8}
    Beat <- MCBeat
    MaxFrames = 4
    Songs <- MCSongs
SPECIFICATION LiveSpec
INVARIANTS
    CompiledPairs
    AdmittedNeverDefers
    NeverRefused
    LedgerMatchesKeys
    EveryNoteAccounted
PROPERTIES
    KeysSpaced
    PlaybackEnds

CHECK_DEADLOCK FALSE
