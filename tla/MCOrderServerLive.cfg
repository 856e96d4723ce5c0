CONSTANTS
    Clients = {c1, c2}
    Sockets = {s1, s2}
    MaxSends = 2
    MaxPending = 2
    StableLimit = 1
    Null = Null
SPECIFICATION FairSpec
PROPERTY ForwardedIsAnswered
CHECK_DEADLOCK FALSE
