CONSTANTS
  Proxy = {p1, p2}
  AttrLists <- Lists
  MaxChain = 3
  Null = Null
SPECIFICATION Spec
SYMMETRY Symmetry
INVARIANTS
  TypeOK
  SameAnswers
  NoDangling
  
PROPERTIES
  AndroidIsCursor
  IosIsCursor
  
CHECK_DEADLOCK FALSE
