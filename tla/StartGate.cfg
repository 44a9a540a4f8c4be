SPECIFICATION Spec
CONSTANTS
  Null = Null
  i1 = i1  a = a  b = b  p = p  q = q  k1 = k1  k2 = k2
  Planners = {p, q}
  Openers = {a, b}
  Commands = {k1, k2}
  Days <- Day1To3
  Items = {i1}
  Quantity <- Two
  Drafts <- SomeDrafts
  MaxRevision = 3
SYMMETRY ClientsAlike
INVARIANTS TypeOK OneDayOne StartedBehindEveryGate WorkIsMeasuredAgainstASealedPlan GovernedSinceDayOne
PROPERTIES EditsWhatWasSeen ImplementsOfficialStart
