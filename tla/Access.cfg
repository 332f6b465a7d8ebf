SPECIFICATION Spec
CONSTANTS
  r1 = r1
  r2 = r2
  g1 = g1
  g2 = g2
  none = none
  malformed = malformed
  Caller <- MCCaller
  Org <- MCOrg
  Token <- MCToken
  Request <- MCRequest
  TTL = 2
  Timeout = 2
  Leeway = 1
  MaxTime = 3
  MaxVersion = 2
  MaxChanges = 1
  GivenRole <- MCGivenRole
  InitialMembership <- MCInitialMembership
SYMMETRY Symmetry
CHECK_DEADLOCK FALSE
INVARIANTS
  TypeOK
  BoundedStaleness
  TokensAreJudgedRight
  ServedHeldTheRole
