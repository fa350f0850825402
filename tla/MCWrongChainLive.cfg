CONSTANTS
  Probes = {s1}
  Fallible = {"api"}
  MaxDown = 1
  MaxDefects = 1
SPECIFICATION ReadinessSpec
INVARIANT LiveIsOnTargetChain
