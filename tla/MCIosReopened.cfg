CONSTANTS
  Req = {1, 2, 3, 4}
  Handle = {h1}
  first = h1
  Item = {i1}
  MaxItems = 0
  MaxId = 5
  Null = Null
SPECIFICATION AbandoningSpec
INVARIANTS
  BoundIsAuthenticated
CHECK_DEADLOCK FALSE
