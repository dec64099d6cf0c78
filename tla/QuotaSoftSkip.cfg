SPECIFICATION Spec
CONSTANTS
  n1 = n1
  n2 = n2
  Names = {n1, n2}
  FLOOR = 1
  TICK = 2
  RetryAfters = {1}
  MAX_BACKOFF = 2
  MAX_STREAK = 2
  MAX_FLIGHTS = 1
  MAX_RESTARTS = 1
  Silent = {n2}
PROPERTIES
  SoftSkipped
CHECK_DEADLOCK FALSE
