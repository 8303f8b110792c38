SPECIFICATION FairSpec
CONSTANTS
    j1 = j1
    w1 = w1
    w2 = w2
    c1 = c1
    Jobs = {j1}
    Workers = {w1, w2}
    NoWorker = NoWorker
    Clients = {c1}
    Hold = 2
    Costs = {1, 3}
    MaxRetries = 2
    FaultKinds = {"error", "late", "crash", "lapse"}
    MaxFaults = 2
    MaxBalance = 2
    OtherHolds = {2}
INVARIANTS
    TypeOK
    Conserved
    HandedFunded
    CompletedPaid
    EndedOnce
    OneWorker
    LeakExplained
PROPERTIES
    KeepsPromise
    QueuedHoldEnds
CHECK_DEADLOCK FALSE
