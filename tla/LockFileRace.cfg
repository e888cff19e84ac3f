SPECIFICATION Spec
CONSTANTS
  Procs = {p1, p2}
  Remote = {}
  None = None
  MaxPolls = 2
  MaxFailures = 0
  MaxDeaths = 0
INVARIANTS
  SingleOwner
CHECK_DEADLOCK FALSE
