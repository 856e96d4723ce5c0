CONSTANTS
    Clients = {c1, c2}
    OrderIds = {1, 3}
    Prices = {1, 2, 3}
    Qtys = {1}
    MaxOrderIds = 3
    MaxPriceLevels = 2
    MaxRequests = 4
    Null = Null
SPECIFICATION Spec
INVARIANT TypeOK
INVARIANT RingsWellFormed
INVARIANT PriorityInLine
INVARIANT ClientIndexLive
PROPERTY OrdersCancelable
PROPERTY AddsAnnounced
PROPERTY ImplementsLines
SYMMETRY Symmetry
CHECK_DEADLOCK FALSE
