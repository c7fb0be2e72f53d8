SPECIFICATION Spec
CONSTANTS
  MaxRetry = 2
  DefaultDelay = 15
  MaxThrottles = 1
CHECK_DEADLOCK FALSE
INVARIANTS VerdictsMeanWhatTheySay NoHotRetry
