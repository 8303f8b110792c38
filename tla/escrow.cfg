SPECIFICATION Spec
CONSTANTS
    a = a
    b = b
    p1 = p1
    p2 = p2
    r1 = r1
    r2 = r2
    Nodes = {a, b}
    Procs = {p1, p2}
    Requests = {r1, r2}
    None = None
    Limits = {1, 2}
    MaxLimit = 2
    GrantMax = 1
    FaultKinds = {"error", "late", "crash", "lapse"}
    MaxFaults = 1
SYMMETRY MCSymmetry
INVARIANTS
    TypeOK
    Balanced
    Bounded
    LocalBacked
    NoOversell
    Registered
PROPERTIES
    LeaseGuards
CHECK_DEADLOCK FALSE
