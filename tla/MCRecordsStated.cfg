CONSTANTS
  Verifies = {v1, v2}
  Settlers = {s1}
  Viewers = {p1}
  Decisions = {"APPROVE", "REJECT"}
SPECIFICATION RecordsSpec
INVARIANTS
  ProofIsAnchored
  StampCanSettle
