SPECIFICATION Spec
CONSTANTS
  Worker = {w1}
  MaxAttempts = 1
  MaxCodes = 2
INVARIANT AlreadyVerifiedIsTrue
CHECK_DEADLOCK FALSE
