CONSTANTS
  c1 = c1 c2 = c2
  None = None
  MaxClaims = 3
  Sizes = {1, 3}
  Corpora = {c1, c2}
  Edges = {1}
  Window = 2
  MaxChanges = 2
  MaxFaults = 2
SPECIFICATION FairSpec
INVARIANTS TablesHaveNoGaps SuccessMeansWhole DeferredIndexReturns
PROPERTIES LoadsFinish
CHECK_DEADLOCK FALSE
