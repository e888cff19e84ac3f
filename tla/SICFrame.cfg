SPECIFICATION Spec
CONSTANTS
  Sizes = {3, 5}
  Aligns = {1, 8}
  ArgOffsets = {0, 8}
  ArgSizes = {3, 5}
  CallFrames = {8, 4080}
  MaxObjects = 3
  MaxCalls = 2
INVARIANTS
  TypeOK
  ObjectsDisjoint
  FrameHoldsObjects
  OutgoingAreaFree
  ObjectsAligned
  RefReachesOnlyItsObject
  DisplacementsFit
  FramesAreSuitable
CHECK_DEADLOCK FALSE
