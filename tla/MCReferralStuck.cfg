CONSTANTS
  Home = a
  b = b
  c = c
  d = d
  NoDn = NoDn
  BadUrl = BadUrl
  Gone = Gone
  Server = {a, b, c}
  Dn = {d, NoDn}
  RefLists <- Lists
  HopLimit = 2
  MaxLists = 3
SPECIFICATION FairSpec
INVARIANT FinishedIsDone
CHECK_DEADLOCK FALSE
