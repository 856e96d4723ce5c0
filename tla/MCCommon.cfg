CONSTANTS
    Msg = {m1, m2}
    NoMsg = NoMsg
    Size = 4
    MaxBacklog = 3
    ChecksSize = TRUE
    NumElems = 4
SPECIFICATION CommonSpec
INVARIANT TypeOK
INVARIANT AssertHolds
INVARIANT SizeCountsUnread
INVARIANT NoSharedSlot
INVARIANT HeldInUse
INVARIANT AssertsHold
PROPERTY ImplementsFIFO
PROPERTY DeliversAll
