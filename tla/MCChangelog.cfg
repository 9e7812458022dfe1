SPECIFICATION ChangelogFairSpec
CONSTANTS
  f1 = f1
  f2 = f2
  f3 = f3
  h1 = h1
  None = None
  CI = CI
  Hands = {h1}
  Fragments = {f1, f2, f3}
  Malformed = {f3}
  MaxPushes = 4
  MaxFailures = 1
CHECK_DEADLOCK FALSE
INVARIANTS EnteredOnce SuccessMeansEntered
PROPERTIES ComesToBeEntered
