SPECIFICATION Spec
CONSTANTS
  Conn = {c1, c2}
  Route = {r1}
  Task = {k1, k2, k3}
  NoTask = NoTask
  KeepAliveIdleCountMax = 2
  KeepAliveTimeout = 0
  Engine = {e1, e2, e3}
  NoEngine = NoEngine
  NoConn = NoConn
  RouteOf <- MCRouteOf
SYMMETRY EngineSymmetry
INVARIANTS EngineInv CancelNotLost NoStrandedConnection
PROPERTIES PoolSpec
CHECK_DEADLOCK FALSE
