CONSTANTS
  Req = {1, 2, 3, 4}
  Handle = {h1, h2}
  first = h1
  Item = {i1}
  MaxItems = 0
  MaxId = 3
  Null = Null
SPECIFICATION AbandoningLiveSpec
PROPERTIES
  RequestEnds
CHECK_DEADLOCK FALSE
