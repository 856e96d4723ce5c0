CONSTANTS
    Msg = {m1, m2}
    NoMsg = NoMsg
    Size = 4
    MaxBacklog = 3
    ChecksSize = FALSE
SPECIFICATION Spec
INVARIANT AssertHolds
