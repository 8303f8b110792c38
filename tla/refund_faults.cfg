SPECIFICATION Spec
CONSTANTS
    o1 = o1
    w1 = w1
    w2 = w2
    Orders = {o1}
    Workers = {w1, w2}
    OrderType <- SubscriptionOrder
    Amount <- AmountTwo
    Origin <- FromAny
    MaxBalance = 0
    MaxFaults = 2
    LateFaults = TRUE
SYMMETRY RequestSymmetry
INVARIANTS
    TypeOK
    RefundExclusive
    PayoutPerFailure
    OrphanedByFailure
PROPERTIES
    FinalIsFinal
CHECK_DEADLOCK FALSE
