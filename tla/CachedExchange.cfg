SPECIFICATION Spec
CONSTANTS
  Engine = {e1, e2, e3}
  MaxVersion = 2
  NoEntry = NoEntry
SYMMETRY EngineSymmetry
INVARIANTS HeadersMatchBody RemovedStaysRemoved ReadersInv
