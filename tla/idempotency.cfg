SPECIFICATION Spec
CONSTANTS
    w1 = w1
    w2 = w2
    Workers = {w1, w2}
    Fingerprints = {"payload1", "payload2"}
    TTL = 2
    Lease = 1
    Backoff = 1
    Horizon = 4
SYMMETRY RequestSymmetry
INVARIANTS
    SingleFlight
    ReplyIsOwn
PROPERTIES
    OncePerWindow
CHECK_DEADLOCK FALSE
