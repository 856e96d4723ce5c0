CONSTANTS
    OrderIds = {1, 3}
    Prices = {1, 2, 3}
    Qtys = {1, 3}
    MaxOrderIds = 3
    MaxPriceLevels = 2
    QtyModulus = 4
    Null = Null
SPECIFICATION Spec
INVARIANT BestOfferIsBest
CHECK_DEADLOCK FALSE
