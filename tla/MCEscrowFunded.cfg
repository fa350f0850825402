CONSTANTS
    Accounts = {a1}
    Plans = {p1, p2}
    MaxIntents = 1
    MaxPresses = 7
    MaxCalls = 1
    MaxSwitches = 1
    None = None
SPECIFICATION MarketSpec
INVARIANT EscrowIsFunded
CHECK_DEADLOCK FALSE
