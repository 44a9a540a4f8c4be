SPECIFICATION Spec
CONSTANTS
  Null = Null
  i1 = i1  a = a  b = b  p = p  q = q  k1 = k1  k2 = k2
  Planners = {p}
  Openers = {a}
  Commands = {k1}
  Days <- Day1To2
  Items = {i1}
  Quantity <- Two
  Drafts <- FewDrafts
  MaxRevision = 1
INVARIANT AnchorOrLock
