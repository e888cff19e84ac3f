SPECIFICATION Spec
CONSTANTS
  Bases = {"frame", "global", "pointer"}
  Initializers <- FlatAndNested
  Constants <- FlatAndNestedConstants
  Stored = {128, 33023, 8388608}
  Loads <- WorkingLoads
  MaxFields = 3
INVARIANTS
  TypeOK
  LoadsSeeLastStore
  ScalarsAtTheirOffsets
  AggregateFillsItsSize
CHECK_DEADLOCK FALSE
