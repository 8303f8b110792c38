SPECIFICATION FairSpec
CONSTANTS
    o1 = o1
    w1 = w1
    w2 = w2
    Orders = {o1}
    Workers = {w1, w2}
    OrderType <- BalanceOrder
    Amount <- AmountOne
    Origin <- FromRecorded
    MaxBalance = 1
    MaxFaults = 1
    LateFaults = FALSE
PROPERTIES
    PendingIsSettled
CHECK_DEADLOCK FALSE
