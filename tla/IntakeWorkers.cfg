SPECIFICATION FairSpec
CONSTANTS
  Null = Null
  u1 = u1  u2 = u2  u3 = u3  f1 = f1  f2 = f2  r1 = r1  r2 = r2  r3 = r3
  Uploads = {u1, u2, u3}
  Files = {f1, f2}
  FileOf <- TwoOfOne
  Rows = {r1, r2, r3}
  RowsOf <- RowsOfBoth
  Valid = {r1, r3}
  Linkable = {r1}
  Extractors = {x1, x2}
  Validators = {v1}
  Publishers = {p1, p2}
  Subscribers = {s1, s2}
  Mortal = {u1, u2, x1, v1, p1, p2, s1}
  MaxCrashes = 1
CHECK_DEADLOCK FALSE
INVARIANTS TypeOK DocumentsHaveTheirBytes PublicationWhole RepeatsBoundedByOverlap
PROPERTIES ImplementsIntake JobsComeToRest ValidRowsPublished
