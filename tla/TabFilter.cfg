SPECIFICATION Spec
CONSTANTS
  NoTab = NoTab
  NoRequest = NoRequest
  NoScope = NoScope
  t1 = t1
  s1 = s1
  s2 = s2
  Tabs = {t1}
  Requests = {r1,r2}
  Scopes = {s1,s2}
  PageCount <- UnequalPages
  InitialTabs = {t1}
  Ops <- ListOps
  MaxMoves = 4
CHECK_DEADLOCK FALSE
INVARIANTS
  QuietShowsFilter
