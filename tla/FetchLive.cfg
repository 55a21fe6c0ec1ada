SPECIFICATION FairSpec
CONSTANTS
  NoKeyword = NoKeyword
  Keyword = {k1, k2}
  MaxRequests = 2
  PageLimit = 2
  MaxNetworkErrors = 1
  MaxTimers = 1
  Failures = {"error", "rate_limit"}
  Ops <- LiveOps
PROPERTIES
  SequentialTerminates
  EveryWorkerReaped
