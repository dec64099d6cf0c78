CONSTANTS
  Accounts = {a1}
  Requests = {r1, r2}
  OperatorReasons = {"weekly_limit"}
  ResetWindows = {1, 4}
  MaxTime = 2
  DEBOUNCE = 1
  FLOOR = 1
  BASE = 1
  CAP = 2
  DEGRADED = 1
  HINT_5H = 1
  HINT_WEEKLY = 1
  WEEKLY_CAP = 2
  SIX_HOURS = 2
  MID_BAND = 3
  FORTNIGHT = 5
SPECIFICATION Spec
CHECK_DEADLOCK FALSE
SYMMETRY RequestSymmetry
INVARIANT TypeOK
INVARIANT InferredBlockBounded
INVARIANT WeeklyEvidenceHolds
PROPERTY OnlyEvidenceWeakens
