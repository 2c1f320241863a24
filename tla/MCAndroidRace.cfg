CONSTANTS
  Req = {r1, r2}
  Handle = {h1}
  first = h1
  Entry = {e1}
  Reference = {f1}
  MaxItems = 2
  Null = Null
SPECIFICATION BoundSpec
SYMMETRY Symmetry
INVARIANTS
  TypeOK
  WireInv
  OneOutcome
  ResultIntegrity
PROPERTIES
  ImplementsContract
  AbandonsOwn
CHECK_DEADLOCK FALSE
