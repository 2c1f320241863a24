CONSTANTS
  Req = {1, 2}
  Handle = {h1}
  first = h1
  Item = {i1}
  MaxItems = 1
  MaxId = 5
  Null = Null
SPECIFICATION BoundSpec
INVARIANTS
  TypeOK
  
  QueueIsOurs
  OneOwner
  ResultIntegrity
PROPERTIES
  ImplementsContract
CHECK_DEADLOCK FALSE
