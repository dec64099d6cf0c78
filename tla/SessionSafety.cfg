SPECIFICATION Spec
CONSTANTS
  c1 = c1
  c2 = c2
  o1 = o1
  Callers = {c1, c2}
  Ops = {o1}
  THRESHOLD = 2
  Faults = {"crash", "late_reap", "reader", "start", "bad_line", "retire"}
INVARIANTS
  TypeOK
  NoLostWaiter
  LiveWorkerOwes
  PrewarmFirst
  OneRestart
  ForceFlag
  StreakActedOn
PROPERTIES
  RepliesSafe
CHECK_DEADLOCK FALSE
SYMMETRY CallerSymmetry
