CONSTANTS
  Updates = {u1, u2}
  AbortErrors = FALSE
  MaxFailures = 2
  MaxLeaked = 3
SPECIFICATION Spec
INVARIANTS TypeOK FlagMatchesEngine NoDurableUncommitted
CHECK_DEADLOCK FALSE
