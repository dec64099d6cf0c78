SPECIFICATION FairSpec
CONSTANTS
  w1 = w1
  w2 = w2
  w3 = w3
  a1 = a1
  a2 = a2
  r1 = r1
  Workers = {w1, w2}
  Accounts = {a1}
  AccountOf <- TwoAccounts
  Priority <- MaxFirst
  Requests = {r1}
  Pools <- OneOrTwo
  Keyed = {r1}
  MAX_ATTEMPTS = 2
  SpawnFails = TRUE
  OthersMark = TRUE
  PickCooldown = FALSE
PROPERTIES
  EveryChannelDrained
  AnsweredUnlessEmpty
CHECK_DEADLOCK FALSE
