SPECIFICATION Spec
CONSTANTS
  Null = Null
  Prices = {p1, p2, p3}
  FromEvents = {}
  Humans = {a, b}
  Reviewers = {a}
  Publishers = {b}
  MayLeave = {}
  ContextOf <- OneContext
  LastDay = 2
  StatedDays = {0, 2}
  EscalateAge = 3
  ExpireAge = 3
SYMMETRY PriceSymmetry
CHECK_DEADLOCK FALSE
INVARIANTS CorrectionsFormChains
PROPERTIES AnswersNotRewritten ImplementsCatalog
