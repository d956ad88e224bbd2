CONSTANTS
  Updates = {u1, u2}
  AbortErrors = TRUE
  MaxFailures = 2
  MaxLeaked = 3
SPECIFICATION Spec
INVARIANTS NoDurableUncommitted
CHECK_DEADLOCK FALSE
