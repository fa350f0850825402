CONSTANTS
    i1 = i1  a1 = a1
    Requests = {r1}
    IntentOf <- MCIntentOf
    ActionOf <- MCActionOf
    Intents = {i1}
    Actions = {a1}
    Bindings = {b}
    Binding = b
    Principals = {p}
    NoAccount = NoAccount
    NoBinding = NoBinding
    Decisions = {"APPROVE"}
    Price = 1
    InitialCredits = 0
    AttestationTTL = 1
    MaxTime = 1
    MaxDirect = 0
    Flushers = {}
    FlushThreshold = 1
    MaxBatches = 0
    Settlers = {}
    SettledAction = a1
SPECIFICATION PipelineSpec
INVARIANTS
    UnbillableRefusedUpFront
CHECK_DEADLOCK FALSE
