SPECIFICATION Spec
CONSTANTS
  NoKeyword = NoKeyword
  Keyword = {k1, k2}
  MaxRequests = 2
  PageLimit = 2
  MaxNetworkErrors = 2
  MaxTimers = 1
  Failures = {"error", "network", "rate_limit"}
  Ops <- AllOps
SYMMETRY TabSymmetry
INVARIANTS
  TypeOK
  RegistryConsistent
  LiveIsRegistered
  OneLiveWorkerPerTab
  MaintenanceQuiesced
  RefreshFlagsAgree
  StartIndexOwned
PROPERTY OutcomesInOrder
