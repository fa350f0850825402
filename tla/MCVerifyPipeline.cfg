CONSTANTS
    i1 = i1  a1 = a1
    Requests = {r1, r2}
    IntentOf <- MCIntentOf
    ActionOf <- MCActionOf
    Intents = {i1}
    Actions = {a1}
    Bindings = {b}
    Binding = b
    Principals = {p}
    NoAccount = NoAccount
    NoBinding = NoBinding
    Decisions = {"APPROVE"}
    Price = 1
    InitialCredits = 2
    AttestationTTL = 0
    MaxTime = 1
    MaxDirect = 1
    Flushers = {}
    FlushThreshold = 2
    MaxBatches = 0
    Settlers = {}
    SettledAction = a1
SPECIFICATION PipelineSpec
INVARIANTS
    AttestationBacked
    OkMeansAttested
    OneNonceOneAttestation
CHECK_DEADLOCK FALSE
