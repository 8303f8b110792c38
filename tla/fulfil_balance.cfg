SPECIFICATION AttendedSpec
CONSTANTS
    o1 = o1
    o2 = o2
    w1 = w1
    w2 = w2
    Orders = {o1}
    Workers = {w1, w2}
    OrderType <- OneBalance
    Rebated = {o1}
    MaxPending = 1
    MaxFaults = 2
    LateFaults = TRUE
INVARIANTS
    FulfillmentExclusive
    CompletedIsDelivered
    AckedIsTaken
PROPERTIES
    PaidStaysPaid
    KeepsPromise
    PaidIsDelivered
CHECK_DEADLOCK FALSE
