SPECIFICATION FairSpec
CONSTANTS
  u1 = u1
  r1 = r1
  r2 = r2
  Users = {u1}
  Requests = {r1, r2}
  Actors <- AllActors
  MaxActors = 2
  MaxFails = 1
  MaxCrashes = 1
INVARIANTS
  TypeOK
  PlaceholderLocked
  OneWorker
PROPERTIES
  WarmFirst
  RequestsEnd
CHECK_DEADLOCK FALSE
