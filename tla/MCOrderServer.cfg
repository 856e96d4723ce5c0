CONSTANTS
    Clients = {c1, c2}
    Sockets = {s1, s2}
    MaxSends = 4
    MaxPending = 3
    StableLimit = 2
    Null = Null
SYMMETRY Symmetry
SPECIFICATION Spec
INVARIANT TypeOK
INVARIANT ForwardedInOrder
INVARIANT RoundFlushed
INVARIANT OneSocketPerClient
INVARIANT AnswerHasSocket
CHECK_DEADLOCK FALSE
