SPECIFICATION Spec
CONSTANTS
  d1 = d1
  d2 = d2
  d3 = d3
  Drones = {d1, d2, d3}
  MaxApprovals = 1
  MaxTerm = 2
  Nobody = Nobody
SYMMETRY Alike
INVARIANTS
  OneLeaderPerTerm
  BaseDecides
CHECK_DEADLOCK FALSE
