CONSTANTS
    NumTickers = 2
    MaxOrderIds = 3
    BookSides = {BUY}
    Terms = {1, 2}
    MaxUpdates = 5
    Null = Null
    Prices = {1}
    Qtys = {1, 2}
    MaxOrders = 4
    MaxIgnored = 1
    LoopAdvances = TRUE
    FillPrices = {1, 4}
    OrderQtys = {1, 2, 3}
    max_order_size_ = 2
    max_position_ = 3
    MaxLoss = 1
    Scale = 466560
    Garbage = {0, 466560}
    GarbageQty = {31}
    MaxInt = 15
    MaxVolume = 6
    Price_INVALID = Price_INVALID
    NullPrice = NullPrice
    UpdateIds = {1, 3}
    UpdatePrices = {1, 2, 3}
    UpdateQtys = {1, 3}
    MaxPriceLevels = 2
    QtyModulus = 4
SPECIFICATION ObjectsSpec
INVARIANT SnapshotIsBook
 
INVARIANT OneOrderPerSide
INVARIANT RecordAgrees
INVARIANT IgnoredIsStuck
INVARIANT AllowedStaysWithin
INVARIANT LevelsHoldAdds
INVARIANT AddsUntilFull
PROPERTY LifeCycle
PROPERTY BooksBalance
CHECK_DEADLOCK FALSE
