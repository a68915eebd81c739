\* The deployed limits: the rate limit as its comment states it.
CONSTANTS
  Email = {e1}
  Purpose = {"register"}
  Code = {c1, c2}
  Req = {r1, r2}
  MaxRows = 4
  MaxAttempts = 5
  PerEmailMax = 3
SPECIFICATION Spec
INVARIANT WindowCap
CHECK_DEADLOCK FALSE
