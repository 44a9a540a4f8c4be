SPECIFICATION Spec
CONSTANTS
  p1 = p1
  Null = Null
  Undefined = Undefined
  Items = {i1, i2}
  Users = {u1}
  Owners = {u1}
  Approvers = {u1}
  Versions <- OneVersion
  Prices = {p1}
  HalfCost <- OneCost
  Quantities = {3}
  ManualPrices = {1}
SYMMETRY RowSymmetry
INVARIANTS TypeOK FrozenRowsProven TotalTrueOncePriced
PROPERTIES ImplementsFreeze ServerMoneyOnlyByKernel
