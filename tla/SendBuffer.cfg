SPECIFICATION Spec
CONSTANTS
  MaxBuff = 24
  Lens <- SomeLens
  Reserves <- SomeReserves
CHECK_DEADLOCK FALSE
INVARIANTS
  TypeOK
  CarefulFraming
  CarefulEnds
