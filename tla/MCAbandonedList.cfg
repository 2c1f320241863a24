CONSTANT
  Ids = {1, 2, 3, 4, 6, 9}
SPECIFICATION FairSpec
INVARIANT ListInv
PROPERTIES  CallEnds
