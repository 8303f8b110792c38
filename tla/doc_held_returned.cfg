SPECIFICATION FairSpec
CONSTANTS
    o1 = o1
    w1 = w1
    w2 = w2
    Orders = {o1}
    Workers = {w1}
    OrderType <- BalanceOrder
    Amount <- AmountOne
    Origin <- FromCompleted
    MaxBalance = 1
    MaxFaults = 0
    LateFaults = FALSE
PROPERTIES
    DeductionIsReturned
CHECK_DEADLOCK FALSE
