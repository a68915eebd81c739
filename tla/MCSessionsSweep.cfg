\* A revocation of all sessions among other handlers.
CONSTANTS
  User = {u1}
  Token = {t1, t2}
  Req = {r1, r2}
  NoUser = NoUser
  NoToken = NoToken
SPECIFICATION Spec
PROPERTY SweepKillsOpenSessions
CHECK_DEADLOCK FALSE
