\* An owner and a member, two handlers at once.
CONSTANTS
  User = {u1, u2}
  Req = {r1, r2}
  NoUser = NoUser
  MaxJoins = 3
SPECIFICATION Spec
INVARIANT NoNegativeDrift
CHECK_DEADLOCK FALSE
