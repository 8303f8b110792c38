SPECIFICATION Spec
CONSTANTS
    o1 = o1
    w1 = w1
    w2 = w2
    Orders = {o1}
    Workers = {w1, w2}
    OrderType <- BalanceOrder
    Amount <- AmountTwo
    Origin <- FromRecorded
    MaxBalance = 2
    MaxFaults = 1
    LateFaults = FALSE
SYMMETRY RequestSymmetry
INVARIANTS
    DeductedOnce
    DeductionIsKnown
    GatewayAgrees
    FullDeductionFirst
PROPERTIES
    KeepsPromise
CHECK_DEADLOCK FALSE
