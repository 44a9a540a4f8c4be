SPECIFICATION Spec
CONSTANTS
  Null = Null
  u1 = u1  u2 = u2  u3 = u3  f1 = f1  f2 = f2  r1 = r1  r2 = r2  r3 = r3
  Uploads = {u1}
  Files = {f1}
  FileOf <- OneOfOne
  Rows = {r1, r2}
  RowsOf <- RowsOfFirst
  Valid = {r1}
  Linkable = {r1}
  Extractors = {x1}
  Validators = {v1}
  Publishers = {p1, p2}
  Subscribers = {s1, s2}
  Mortal = {}
  MaxCrashes = 0
CHECK_DEADLOCK FALSE
INVARIANT OnceDespiteOverlap
