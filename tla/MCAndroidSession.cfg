CONSTANTS
  Req = {1, 2, 3, 4}
  Handle = {h1, h2}
  first = h1
  Entry = {e1}
  Reference = {}
  MaxItems = 1
  Null = Null
SPECIFICATION OrderedCarefulSpec
INVARIANTS
  BoundIsAuthenticated
  NoConnectionLeft
PROPERTIES
  AsyncSearchEnds
CHECK_DEADLOCK FALSE
