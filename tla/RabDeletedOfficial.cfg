SPECIFICATION Spec
CONSTANTS
  p1 = p1
  Null = Null
  Undefined = Undefined
  Items = {i1}
  Users = {u1, u2}
  Owners = {u1}
  Approvers = {u1}
  Versions <- OneVersion
  Prices = {p1}
  HalfCost <- OneCost
  Quantities = {1}
  ManualPrices = {1}
INVARIANT DeletedNeverOfficial
