\* One account, three handlers at once, or two requests of the app; three tokens.
CONSTANTS
  User = {u1}
  Token = {t1, t2, t3}
  Req = {r1, r2, r3}
  RefreshToken = {t1, t2, t3}
  Request = {r1, r2}
  MaxRetries = 1
  NoUser = NoUser
  NoToken = NoToken
  Null = Null
SPECIFICATION MCSpec
SYMMETRY Symmetric
INVARIANTS
  TypeOK
  NoFork
  ChainIntact
  KeychainIsNewest
PROPERTIES
  DeadStaysDead
  ImplementsChain
CHECK_DEADLOCK FALSE
