SPECIFICATION FairSpec
CONSTANTS
  Plans <- AllPlans
  PostLen = 2
  Pieces = 3
CHECK_DEADLOCK FALSE
INVARIANTS
  TypeOK
  OnceEach
PROPERTIES
  Implements
  ConnectionEnds
