CONSTANTS
  Compiles = {c1}
  Principals = {p1}
  Readers = {r1}
  Restarts = 1
  None = None
SPECIFICATION EnvelopesSpec
INVARIANT StoredEnvelopeMatches
CHECK_DEADLOCK FALSE
