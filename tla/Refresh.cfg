SPECIFICATION FairSpec
CONSTANTS
  p1 = p1
  p2 = p2
  q1 = q1
  r1 = r1
  Paths = {p1, p2}
  Requests = {q1}
  Reloads = {r1}
  MAX_GEN = 1
  Again = {p1}
  MAX_CRASHES = 1
INVARIANTS
  TypeOK
  TokenKept
PROPERTIES
  NeverBack
  DueRefreshed
CHECK_DEADLOCK FALSE
