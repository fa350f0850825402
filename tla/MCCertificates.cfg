CONSTANTS
    i1 = i1  a1 = a1
    Requests = {r1, r2}
    IntentOf <- MCIntentOf
    ActionOf <- MCActionOf
    Intents = {i1}
    Actions = {a1}
    Bindings = {b}
    Binding = b
    Principals = {p}
    NoAccount = NoAccount
    NoBinding = NoBinding
    Decisions = {"APPROVE"}
    Price = 1
    InitialCredits = 2
    AttestationTTL = 1
    MaxTime = 1
    MaxDirect = 0
    Flushers = {}
    FlushThreshold = 3
    MaxBatches = 0
    Settlers = {s}
    SettledAction = a1
SPECIFICATION PipelineSpec
INVARIANTS
    CertConsistent
CHECK_DEADLOCK FALSE
