SPECIFICATION FairSpec
CONSTANTS
  c1 = c1  c2 = c2
  Call = {c1, c2}
  NoCall = NoCall
  MaxRetryCount = 1
  Threads = 1
  FollowUp <- FirstStartsSecond
  StartMayFail = FALSE
PROPERTIES ShutdownReturns
CHECK_DEADLOCK FALSE
