SPECIFICATION Spec
CONSTANTS
  Procs = {p1, p2, p3}
  Remote = {p3}
  None = None
  MaxPolls = 2
  MaxFailures = 1
  MaxDeaths = 1
INVARIANTS
  TypeOK
  LockNamesItsOwner
  LockIsHeld
  OneOwnerUnlessRobbed
  NothingLeftBehind
PROPERTIES
  CallsReturn
  LockIsRecovered
CHECK_DEADLOCK FALSE
