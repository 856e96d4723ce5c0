CONSTANTS
    FillPrices = {1, 4}
    OrderQtys = {1, 2, 3}
    max_order_size_ = 2
    max_position_ = 3
    MaxLoss = 1
    Scale = 466560
    Garbage = {0}
    GarbageQty = {0}
    MaxInt = 15
    MaxVolume = 6
    Price_INVALID = Price_INVALID
    NullPrice = NullPrice
SPECIFICATION PositionSpec
INVARIANT LossLimitHolds
CHECK_DEADLOCK FALSE
