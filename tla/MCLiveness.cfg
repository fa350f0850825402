CONSTANTS
    i1 = i1  a1 = a1
    Requests = {r1}
    IntentOf <- MCIntentOf
    ActionOf <- MCActionOf
    Intents = {i1}
    Actions = {a1}
    Bindings = {b}
    Binding = b
    Principals = {p, q}
    NoAccount = NoAccount
    NoBinding = NoBinding
    Decisions = {"APPROVE", "REJECT"}
    Price = 1
    InitialCredits = 2
    AttestationTTL = 0
    MaxTime = 1
    MaxDirect = 0
    Flushers = {}
    FlushThreshold = 2
    MaxBatches = 0
    Settlers = {}
    SettledAction = a1
    Compiles = {c1}
    Readers = {g1}
    Restarts = 1
    None = None
    Probes = {s1, s2}
    Fallible = {"oracle_funded", "api"}
    MaxDown = 2
    MaxDefects = 0
SPECIFICATION LivenessSpec
INVARIANTS
    ChargedIsPrincipal
PROPERTIES
    VerifyEnds
    CompileEnds
    PageFollows
CHECK_DEADLOCK FALSE
