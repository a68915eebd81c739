\* An owner and a member, three handlers at once, rows for a rejoin.
CONSTANTS
  User = {u1, u2}
  Req = {r1, r2, r3}
  NoUser = NoUser
  MaxJoins = 4
SPECIFICATION Spec
SYMMETRY Symmetric
INVARIANTS
  TypeOK
PROPERTIES
  CountFollowsMembers
  MembersWereAdmitted
CHECK_DEADLOCK FALSE
