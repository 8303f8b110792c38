SPECIFICATION Spec
CONSTANTS
    j1 = j1
    w1 = w1
    w2 = w2
    c1 = c1
    Jobs = {j1}
    Workers = {w1}
    NoWorker = NoWorker
    Clients = {c1}
    Hold = 2
    Costs = {1}
    MaxRetries = 2
    FaultKinds = {}
    MaxFaults = 0
    MaxBalance = 2
    OtherHolds = {0}
INVARIANT NoLeak
CHECK_DEADLOCK FALSE
