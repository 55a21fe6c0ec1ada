SPECIFICATION Spec
CONSTANTS
  NoKeyword = NoKeyword
  Keyword = {k1, k2}
  MaxRequests = 3
  PageLimit = 3
  MaxNetworkErrors = 1
  MaxTimers = 1
  Failures = {"rate_limit"}
  Ops <- PassOps
SYMMETRY TabSymmetry
CHECK_DEADLOCK FALSE
INVARIANT SingleChain
PROPERTIES
  ImplementsSequentialRefresh
  CursorContiguous
