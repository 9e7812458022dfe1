SPECIFICATION MCSpec
CONSTANTS
  V1 = V1
  V2 = V2
  V3 = V3
  V4 = V4
  W = W
  Types <- MCTypes
  LensNames = {"l1"}
  NoPath = NoPath
  MaxLenses = 3
  MaxCached = 1
SYMMETRY TypeSymmetry
INVARIANTS
  CacheCurrent
  ShortestPaths
  ReadableBothWays
  AcceptedEntityReadable
PROPERTIES
  AnswersCurrent
