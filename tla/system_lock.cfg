SPECIFICATION Spec
CONSTANTS
    w1 = w1
    w2 = w2
    Workers = {w1, w2}
    Fingerprints = {"update", "rollback"}
    TTL = 3
    Lease = 2
    Horizon = 4
SYMMETRY RequestSymmetry
INVARIANTS
    OneOperation
    LeaseIsRecorded
CHECK_DEADLOCK FALSE
