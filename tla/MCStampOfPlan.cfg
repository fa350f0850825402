CONSTANTS
  Accounts = {a1, a2}
  Plans = {p1, p2}
  MaxIntents = 2
  MaxPresses = 7
  MaxSwitches = 3
  None = None
SPECIFICATION StudioSpec
CHECK_DEADLOCK FALSE
INVARIANT StampIsOfPlan
