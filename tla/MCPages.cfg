CONSTANTS
    Accounts = {a1, a2}
    Plans = {p1}
    MaxIntents = 2
    MaxPresses = 7
    MaxSwitches = 3
    None = None
    MaxCalls = 2
    PlaybookPresses = 6
    SdkCalls = 1
    MarketPresses = 6
    MarketSwitches = 2
    Probes = {s1}
    Fallible = {"router", "tee", "oracle_funded", "oracle_role", "deployer_funded", "meter_settler", "rpc", "api"}
    MaxDown = 1
    MaxDefects = 2
SPECIFICATION PagesSpec
INVARIANTS
    PagesTypeOK
    PlaybookInOrder
    SessionsKeptApart
    SettledOnce
    FundsWereApproved
    ReadyIsServable
SYMMETRY AccountSymmetry
CHECK_DEADLOCK FALSE
