SPECIFICATION StrategySpec
CONSTANTS
  LLMax = 63
  Day = 1
  Start = 50
  MaxTime = 53
  Requests <- MCRequests
  Answers <- MCAnswers
INVARIANTS DecisionIsExact AgeIsWithinDelay ServedRightly StaleIsMarked
