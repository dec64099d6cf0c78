SPECIFICATION FairSpec
CONSTANTS
  c1 = c1
  c2 = c2
  o1 = o1
  Callers = {c1, c2}
  Ops = {o1}
  THRESHOLD = 2
  Faults = {"crash", "start", "bad_line"}
PROPERTIES
  HeardReplyEnds
  QueueServed
  ForceEnds
CHECK_DEADLOCK FALSE
