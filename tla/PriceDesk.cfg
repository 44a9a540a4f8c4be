SPECIFICATION Spec
CONSTANTS
  Null = Null
  Prices = {p1, p2, p3}
  FromEvents = {p3}
  Humans = {a, b}
  Reviewers = {a, b}
  Publishers = {b}
  MayLeave = {a}
  ContextOf <- OwnContexts
  LastDay = 2
  StatedDays = {0}
  EscalateAge = 1
  ExpireAge = 2
CHECK_DEADLOCK FALSE
INVARIANTS TypeOK OneAcceptanceOnePrice TwoHumanLadder
