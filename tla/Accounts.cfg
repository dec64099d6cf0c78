SPECIFICATION Spec
CONSTANTS
  s1 = s1
  d1 = d1
  key = key
  apikey = apikey
  f1 = f1
  f2 = f2
  g1 = g1
  Names = {s1, d1}
  ApiKey = apikey
  Yamls <- Versions
  Flows = {f1, f2}
  Finishes = {g1}
  MAX_OPS = 3
  DbPath = TRUE
  Extends <- Hyphened
SYMMETRY Symmetry
INVARIANTS
  TypeOK
  ConfigValid
  NeverDropped
PROPERTIES
  InstalledAsChosen
CHECK_DEADLOCK FALSE
