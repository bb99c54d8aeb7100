SPECIFICATION Spec
CONSTANTS
  Conn = {c1, c2}
  Route = {r1}
  Task = {k1, k2, k3}
  NoTask = NoTask
  KeepAliveIdleCountMax = 1
  KeepAliveTimeout = 0
  Engine = {e1, e2}
  NoEngine = NoEngine
  NoConn = NoConn
  RouteOf <- MCRouteOf
SYMMETRY EngineSymmetry
CHECK_DEADLOCK FALSE
INVARIANTS CancelFindsNoKeepAliveTask
