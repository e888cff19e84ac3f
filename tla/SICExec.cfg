SPECIFICATION Spec
CONSTANTS
  Functions <- FunctionNames
  Main = "main"
  Callee <- Program
  Frame <- Frames
  Pairs = {}
  Data = {0, 1}
  StackSpace = 48
INVARIANTS
  TypeOK
  StackReleased
  ResultReturned
PROPERTIES
  CallsImplementStack
CHECK_DEADLOCK FALSE
