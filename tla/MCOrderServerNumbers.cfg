CONSTANTS
    Clients = {c1, c2}
    Sockets = {s1, s2}
    MaxSends = 3
    MaxPending = 2
    StableLimit = 16
    Null = Null
SYMMETRY Symmetry
SPECIFICATION Spec
INVARIANT ExpectsNextNumber
CHECK_DEADLOCK FALSE
