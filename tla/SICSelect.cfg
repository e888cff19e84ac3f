SPECIFICATION Spec
CONSTANTS
  Operations <- AllOperations
  Operands <- Boundaries
  Constants <- ConstantBoundaries
  Shifts = {1, 2, 3, 4, 7, 8, 11, 12, 15, 16}
INVARIANTS
  TypeOK
  SelectionCorrect
  UnsignedCorrectWhenSignsAgree
  OperandsFit
CHECK_DEADLOCK FALSE
