SPECIFICATION FairSpec
CONSTANTS
  Conn = {c1, c2}
  Route = {r1, r2}
  Task = {k1, k2, k3}
  NoTask = NoTask
  KeepAliveIdleCountMax = 1
  KeepAliveTimeout = 1
INVARIANTS IdleIffTimed IdleWithinLimit
PROPERTIES InuseNotEvicted IdleExpires
CHECK_DEADLOCK FALSE
