SPECIFICATION FairSpec
CONSTANTS
  c1 = c1
  i1 = i1
  i2 = i2
  r1 = r1
  r2 = r2
  None = None
  Components = {c1}
  Ids = {i1, i2}
  Runtimes = {r1, r2}
  MayFail = TRUE
  MaxWrites = 2
  MaxMoves = 3
CHECK_DEADLOCK FALSE
INVARIANTS ShowsItsOwn
PROPERTIES NeverBack ComesToShow
