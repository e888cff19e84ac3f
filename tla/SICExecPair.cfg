SPECIFICATION Spec
CONSTANTS
  Functions <- FunctionNames
  Main = "main"
  Callee <- Program
  Frame <- Frames
  Pairs = {"f"}
  Data = {0, 1}
  StackSpace = 40
INVARIANTS
  PairReturned
CHECK_DEADLOCK FALSE
