CONSTANTS
  m1 = m1  m2 = m2  NONE = NONE
  Procs = {p1, p2}
  Machines <- MCMachines
  AdfLength <- MCAdfLength
  AdfHash <- MCAdfHash
  UseCache = TRUE
  Crashes = FALSE
  MaxCompiles = 2
SPECIFICATION Spec
INVARIANTS NoLoadAbort
CHECK_DEADLOCK FALSE
