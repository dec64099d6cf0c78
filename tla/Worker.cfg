SPECIFICATION Spec
CONSTANTS
  c1 = c1
  c2 = c2
  Calls = {c1, c2}
  MAX_FLOWS = 2
  Screens = {"usage", "limit"}
INVARIANTS
  TypeOK
  OwnReply
  AlwaysACloser
PROPERTIES
  NeverSentLate
CHECK_DEADLOCK FALSE
SYMMETRY CallSymmetry
