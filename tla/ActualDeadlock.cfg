SPECIFICATION Spec
CONSTANTS
  Null = Null
  p1 = p1  p2 = p2  k1 = k1  k2 = k2  k3 = k3  k4 = k4  r1 = r1  r2 = r2
  People = {p1, p2}
  MayCombine <- TwoPolicies
  Holders <- ForemanAndSupervisor
  Items = {i1}
  Commands = {k1, k2, k3, k4}
  Slots = {r1, r2}
  MaxRecords = 3
INVARIANTS CorrectionNeverDeadlocks
