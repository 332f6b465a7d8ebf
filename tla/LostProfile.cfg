SPECIFICATION Spec
CONSTANTS
  r1 = r1
  r2 = r2
  r3 = r3
  u1 = u1
  u2 = u2
  u3 = u3
  u4 = u4
  u5 = u5
  g1 = g1
  g2 = g2
  g3 = g3
  g4 = g4
  m1 = m1
  m2 = m2
  m3 = m3
  m4 = m4
  m5 = m5
  e1 = e1
  e2 = e2
  e3 = e3
  i1 = i1
  none = none
  Req <- MCReq
  UserId <- MCUserId
  OrgId <- MCOrgId
  MembershipId <- MCMembershipId
  Email <- MCEmail
  Identity <- MCIdentity
  PayloadRole <- MCPayloadRole
  Op <- ProfileUpdates
  InitialUser <- MCInitialUser
  InitialOrg <- MCInitialOrg
  InitialMembership <- MCInitialMembership
  MaxFaults = 0
SYMMETRY Symmetry
INVARIANTS
  NothingIsLost
