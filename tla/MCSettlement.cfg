CONSTANTS
    opaque = opaque
    Intents = {i1}
    Actions = {a1}
    Bindings <- MCBindings
    Principals = {u1}
    Users = {u1}
    Hook = Hook
    Vault = Vault
    Executor = Executor
    Bounty = Bounty
    Target = Target
    Calldata <- MCCalldata
    NoAccount = NoAccount
    NoBinding = NoBinding
    MaxTime = 3
    Amounts = {0, 1}
    Wealth = 2
    ChallengeDelay = 2
    MaxDepth = 2
SPECIFICATION SettlementSpec
INVARIANTS
    Solvent
    OneSettlementPerAttestation
PROPERTIES
    DeadSettlesNothing
    VetoWindow
CHECK_DEADLOCK FALSE
