SPECIFICATION FairSpec
CONSTANTS
  i1 = i1
  None = None
  Ids = {i1}
  MaxCalls = 3
  MaxLosses = 2
CHECK_DEADLOCK FALSE
INVARIANTS ToldIsTrue AcknowledgedIsFound
PROPERTIES CallsReturn
