SPECIFICATION Spec
CONSTANTS
    o1 = o1
    o2 = o2
    w1 = w1
    w2 = w2
    Orders = {o1, o2}
    Workers = {w1, w2}
    OrderType <- SubscriptionAndLegacy
    Rebated = {}
    MaxPending = 2
    MaxFaults = 1
    LateFaults = TRUE
SYMMETRY WorkerSymmetry
INVARIANTS
    GrantedOnce
    CompletedIsDelivered
CHECK_DEADLOCK FALSE
