CONSTANTS
    Clients = {c1}
    OrderIds = {0, 1}
    Prices = {1, 2}
    Qtys = {1}
    MaxOrderIds = 3
    MaxPriceLevels = 4
    MaxRequests = 2
    Null = Null
SPECIFICATION Spec
INVARIANT SidesNeverCross
CHECK_DEADLOCK FALSE
