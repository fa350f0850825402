CONSTANTS
  Ips = {a, b}
  ExemptIps = {b}
  Limit = 2
  WindowMs = 2
  MaxTime = 5
  MaxCount = 5
SPECIFICATION RateSpec
INVARIANT EveryPaidRouteCapped
CHECK_DEADLOCK FALSE
