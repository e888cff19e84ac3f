SPECIFICATION Spec
CONSTANTS
  Threads = {w1, w2, w3}
  MaxTasks = 3
  MaxSpurious = 1
INVARIANTS
  TypeOK
  NoRaceOnTasks
PROPERTIES
  ImplementsTaskPool
  TasksRunAndCallsReturn
CHECK_DEADLOCK FALSE
