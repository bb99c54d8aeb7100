SPECIFICATION CallFairSpec
CONSTANTS
  Stream = {0, 1}
  N = 2
  Faults = {"dropped", "unstored", "unwritten", "endless"}
  u1 = u1
  u2 = u2
  Url = {u1, u2}
  NoUrl = NoUrl
  BadUrl = BadUrl
  Own = Own
  OriginOf <- MCOriginOf
  MaxRetryCount = 2
  Interceptors = 2
  NetworkInterceptors = 1
  Callers <- MCCallers
INVARIANTS OfferedIsWhole ConnectionsComeBack AuthorizationOnlyToItsOrigin CacheRulesHold BodyArrivesWhole EveryInterceptorSees HistoryIsTrue
PROPERTIES CallEndsInTime
CHECK_DEADLOCK FALSE
