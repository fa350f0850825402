CONSTANTS
  Calls = {c1, c2}
  Ttl = 2
  MaxFetch = 2
  MaxTime = 7
SPECIFICATION TeeSpec
INVARIANT UnreachableIsUnattested
