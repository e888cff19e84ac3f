SPECIFICATION Spec
CONSTANTS
  ArgTypes <- WithLargeStruct
  MaxArgs = 2
  ObjectBytes = 8
  MaxStores = 8
INVARIANTS
  ArgumentsArrive
CHECK_DEADLOCK FALSE
