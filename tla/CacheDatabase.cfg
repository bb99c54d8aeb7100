SPECIFICATION FairSpec
CONSTANTS
  Client = {c1, c2}
  Key = {k1, k2}
  Value = {v1}
  NoRow = NoRow
  NoCall = NoCall
  NoClient = NoClient
  NoDb = NoDb
  NoCursor = NoCursor
  IntMax = 3
  Version = 2
  OtherVersions = {1, 3}
  MaxFaults = 2
  MaxCrashes = 1
INVARIANTS DatabaseInv CursorInv
PROPERTIES StoreSpec MutexIsReleased
