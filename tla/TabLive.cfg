SPECIFICATION FairSpec
CONSTANTS
  NoTab = NoTab
  NoRequest = NoRequest
  NoScope = NoScope
  t1 = t1
  s1 = s1
  s2 = s2
  Tabs = {t1,t2}
  Requests = {r1,r2}
  Scopes = {s1}
  PageCount <- OnePage
  InitialTabs = {t1}
  Ops <- LiveOps
  MaxMoves = 3
CHECK_DEADLOCK FALSE
PROPERTIES
  HydratesAll
INVARIANT HydratingIsLoading
