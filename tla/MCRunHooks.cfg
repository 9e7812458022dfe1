SPECIFICATION HooksFairSpec
CONSTANTS
  d1 = d1
  d2 = d2
  DepValues = {d1, d2}
  MaxRuns = 4
  MaxCalls = 2
  MaxShifts = 3
CHECK_DEADLOCK FALSE
INVARIANTS AnswerOfNewestRun StatusOfLastCall
PROPERTIES ComesToAnswer
