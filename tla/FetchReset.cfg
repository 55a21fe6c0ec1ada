SPECIFICATION Spec
CONSTANTS
  NoKeyword = NoKeyword
  Keyword = {k1, k2}
  MaxRequests = 2
  PageLimit = 3
  MaxNetworkErrors = 1
  MaxTimers = 1
  Failures = {"error"}
  Ops <- ResetOps
CHECK_DEADLOCK FALSE
PROPERTY CursorContiguous
