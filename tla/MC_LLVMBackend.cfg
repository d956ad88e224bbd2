CONSTANTS
  m1 = m1  m2 = m2  NONE = NONE
  Procs = {p1, p2}
  Machines <- MCMachines
  AdfLength <- MCAdfLength
  AdfHash <- MCAdfHash
  UseCache = TRUE
  Crashes = TRUE
  MaxCompiles = 2
SPECIFICATION Spec
INVARIANTS TypeOK PluginMatchesMachine
CHECK_DEADLOCK FALSE
