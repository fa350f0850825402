CONSTANTS
    opaque = opaque
    Intents = {i1}
    Actions = {a1, a2}
    Bindings <- PlainBindings
    Principals = {u1}
    Users = {u1}
    Hook = Hook
    Vault = Vault
    Executor = Executor
    Bounty = Bounty
    Target = Target
    Calldata <- PlainCalldata
    NoAccount = NoAccount
    NoBinding = NoBinding
    MaxTime = 2
    Amounts = {1}
    Wealth = 1
    ChallengeDelay = 1
    MaxDepth = 2
SPECIFICATION FairSettlementSpec
INVARIANTS
    BountyPaidOnce
PROPERTIES
    RefundNeverBeatsApproval
    BountyDrains
CHECK_DEADLOCK FALSE
