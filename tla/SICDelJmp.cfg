SPECIFICATION Spec
CONSTANTS
  MaxBlocks = 3
PROPERTIES
  ControlFlowKept
  NoUselessJumpLeft
CHECK_DEADLOCK FALSE
