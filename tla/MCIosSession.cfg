CONSTANTS
  Req = {1, 2, 3}
  Handle = {h1, h2}
  first = h1
  Item = {i1}
  MaxItems = 0
  MaxId = 4
  Null = Null
SPECIFICATION CarefulLiveSpec
INVARIANTS
  BoundIsAuthenticated
  NoHandleLeft
  AnswersHeard
PROPERTIES
  TimedRequestEnds
  RequestEnds
CHECK_DEADLOCK FALSE
