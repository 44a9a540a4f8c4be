SPECIFICATION FairSpec
CONSTANTS
  p1 = p1
  Null = Null
  Undefined = Undefined
  Items = {i1}
  Users = {u1, u2}
  Owners = {u1}
  Approvers = {u2}
  Versions <- TwoVersions
  Prices = {p1}
  HalfCost <- TwoVersionCosts
  Quantities = {1}
  ManualPrices = {1}
INVARIANT ApprovedIffBaseline
PROPERTIES FreezeStandsOnAnswers DeletedProjectRests LockCommandEnds
