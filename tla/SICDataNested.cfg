SPECIFICATION Spec
CONSTANTS
  Bases = {"global"}
  Initializers <- NestedOfSize4
  Constants <- NestedOfSize4Constants
  Stored = {128}
  Loads <- WorkingLoads
  MaxFields = 0
INVARIANTS
  ScalarsAtTheirOffsets
CHECK_DEADLOCK FALSE
