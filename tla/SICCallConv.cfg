SPECIFICATION Spec
CONSTANTS
  ArgTypes <- ScalarsAndStructs
  MaxArgs = 4
  ObjectBytes = 8
  MaxStores = 8
INVARIANTS
  TypeOK
  ArgumentsOutOfReachArrive
  CallerObjectsKept
CHECK_DEADLOCK FALSE
