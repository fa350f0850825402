CONSTANTS
    r1 = r1  r2 = r2
    Requests = {r1, r2}
    ActionOf <- MCActionOf
    Flushers = {f1}
    FlushThreshold = 2
    MaxBatches = 2
    Ips = {a, b}
    ExemptIps = {b}
    Limit = 2
    WindowMs = 2
    MaxCount = 5
    Calls = {c1, c2}
    Ttl = 2
    MaxFetch = 1
    MaxTime = 6
    Compiles = {e1, e2}
    Principals = {p1, p2}
    Readers = {g1}
    Restarts = 1
    Absent = Absent
    Verifies = {v1, v2}
    Settlers = {s1}
    Viewers = {w1}
    Decisions = {"APPROVE"}
SPECIFICATION ServicesSpec
INVARIANTS
    ServicesTypeOK
    BatchHoldsItsEvents
    AtMostTwiceTheLimit
    AttestedWasListed
    RowsAreTrue
    ProofPageTrue
CHECK_DEADLOCK FALSE
