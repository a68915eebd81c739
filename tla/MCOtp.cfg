\* One mailbox, two purposes that share its rate limit, two handlers.
CONSTANTS
  Email = {e1}
  Purpose = {"login", "register"}
  Code = {c1, c2}
  Req = {r1, r2}
  MaxRows = 2
  MaxAttempts = 2
  PerEmailMax = 1
SPECIFICATION Spec
SYMMETRY Symmetric
INVARIANTS
  TypeOK
  SingleUse
  GuessBudget
  OvershootBounded
CHECK_DEADLOCK FALSE
