SPECIFICATION FairSpec
CONSTANTS
  Task = {t1, t2, t3, t4}
  NoTask = NoTask
  Thread = {w1, w2}
  MaxQueueSize = 1
INVARIANTS ExecutorInv EachTaskOnce
PROPERTIES JoinLeavesNoTask ExecutorGoesOn
CHECK_DEADLOCK FALSE
