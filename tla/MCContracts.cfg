CONSTANTS
    Users = {u1}
    Hook = Hook
    Nobody = Nobody
    Amounts = {0, 1, 2}
    Prices = {1}
    MaxDeposits = 3
    MaxDepth = 2
    Datas = {"x", "y"}
    MaxTokens = 2
    MaxProofs = 1
SPECIFICATION ContractsSpec
INVARIANTS
    ContractsTypeOK
    MeterSolvent
    AccountBalanced
    MintedComplete
PROPERTIES
    MetadataMovesByProof
