CONSTANTS
    Ticks = {1, 2}
    MaxSequence = 4
SPECIFICATION ClockLiveSpec
INVARIANTS
PROPERTIES
    SnapshotIsAtomic
    LoadReturns
