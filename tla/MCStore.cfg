SPECIFICATION Spec
CONSTANTS
  V1 = V1
  V2 = V2
  W = W
  Person = Person
  Note = Note
  p1 = p1
  n1 = n1
  c1 = c1
  c2 = c2
  one = one
  list = list
  Types <- MCTypes
  LensNames = {"v1v2", "v2w"}
  NoPath = NoPath
  Clients = {c1, c2}
  Subscribers = {one, list}
  Ids = {p1, n1}
  Entities = {Person, Note}
  Fields = {"name", "email"}
  Values = {"a", "b"}
  Config <- MCConfig
  Root <- MCRoot
  LensesOf <- MCLensesOf
  FieldsOf <- MCFieldsOf
  Valid <- MCValid
  Transform <- MCTransform
  IdsOf <- MCIdsOf
  Payloads <- MCPayloads
  Patches <- MCPatches
  Filterings <- MCFilterings
  Watch <- MCWatch
  Upsert = TRUE
  MayAbort = FALSE
  MaxMutations = 3
  None = None
  Failure = Failure
  All = All
SYMMETRY ClientSymmetry
INVARIANTS
  TypeOK
  Fresh
  StoredValid
  ShownValid
PROPERTIES
  OnlySaveCreates
