CONSTANTS
    c1 = c1
    c2 = c2
    Controllers = {c1, c2}
    Windows = {1}
    Pids = {1, 2}
    MaxEpoch = 5
SYMMETRY Symmetry
SPECIFICATION Spec
INVARIANTS
    LiveIdentityIsValid
    AuthorityAtSend
PROPERTIES
    LoadIsAtomic
