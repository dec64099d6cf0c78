SPECIFICATION ScheduledSpec
CONSTANTS
  c1 = c1
  o1 = o1
  Callers = {c1}
  Ops = {o1}
  THRESHOLD = 2
  Faults = {"reader"}
PROPERTIES
  PingReveals
CHECK_DEADLOCK FALSE
