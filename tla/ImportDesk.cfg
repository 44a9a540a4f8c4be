SPECIFICATION Spec
CONSTANTS
  Null = Null
  s1 = s1  s2 = s2
  Rows = {1, 2}
  Known = {}
  Slots = {s1, s2}
  MaxVersion <- ThreeThenTwo
SYMMETRY Alike
INVARIANTS TypeOK DecisionsStand OffersOnce
PROPERTIES ImplementsBook
