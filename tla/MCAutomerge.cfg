SPECIFICATION Spec
CONSTANTS
  c1 = c1
  c2 = c2
  i1 = i1
  i2 = i2
  A = A
  B = B
  a = a
  one = one
  str1 = str1
  strx = strx
  t1 = t1
  tx = tx
  tnull = tnull
  bad = bad
  glob = glob
  nA = nA
  nB = nB
  Null = Null
  Absent = Absent
  None = None
  Clients = {c1}
  Ids = {i1, i2}
  Types = {A, B}
  Fields = {a}
  Scalars = {one, str1, strx}
  Strings = {str1, strx}
  Texts = {t1, tx, tnull}
  Text <- MCText
  Like <- MCLike
  BadPatterns = {bad}
  Names = {nA, nB}
  IndexName <- MCIndexName
  Specs <- MCSpec
  BadSpecs <- MCBadSpecs
  PutData <- MCPutData
  Queries <- MCQueries
  PatchCalls <- MCPatchCalls
  Preempts = FALSE
  Saves = FALSE
  Retypes = FALSE
  MaxTime = 1
CHECK_DEADLOCK FALSE
PROPERTY ImplementsPersistence
INVARIANTS TypeOK CatalogAgrees QueriesExact
SYMMETRY Symmetry
