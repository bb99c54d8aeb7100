SPECIFICATION Spec
CONSTANTS
  Key = {k1, k2}
  NoKey = NoKey
  Small = Small
  Large = Large
  Huge = Huge
  Body = {Small, Large, Huge}
  NoBody = NoBody
  Size <- MCSize
  MaxSize = 3
  Stream = {r1, r2}
  NoStream = NoStream
  Updater = {u1}
  NoDraft = NoDraft
  MaxFaults = 2
  MaxAccidents = 1
SYMMETRY CacheSymmetry
INVARIANTS IndexInv ReadersInv RowHasItsBody MixedOnlyAfterThreeFailures
