SPECIFICATION FairSpec
CONSTANTS
  c1 = c1
  c2 = c2
  i1 = i1
  A = A
  B = B
  a = a
  b = b
  one = one
  strx = strx
  stry = stry
  glob = glob
  nA = nA
  nB = nB
  n0 = n0
  Null = Null
  Absent = Absent
  None = None
  Clients = {c1, c2}
  Ids = {i1}
  Types = {A, B}
  Fields = {a, b}
  Scalars = {one, strx, stry}
  Strings = {strx, stry}
  Texts = {one, strx, stry, Null}
  Text <- MCText
  Like <- MCLike
  BadPatterns = {}
  Names = {nA, nB, n0}
  IndexName <- MCIndexName
  Specs <- MCSpecs
  BadFields = {b}
  Indexes <- MCIndexes
  PutData <- MCPutData
  Queries <- MCQueries
  PatchCalls <- MCPatchCalls
  MaxTime = 1
INVARIANTS TypeOK DeclaredStay
PROPERTIES WholeCalls CallsEnd
