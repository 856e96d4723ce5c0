CONSTANTS
    Prices = {1}
    Qtys = {1}
    MaxOrders = 2
    MaxIgnored = 0
    LoopAdvances = FALSE
SPECIFICATION OrdersFairSpec
PROPERTY PendingResolves
CHECK_DEADLOCK FALSE
