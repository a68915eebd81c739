\* The deployed limits: two taps on Verify while registering.
CONSTANTS
  Email = {e1}
  Purpose = {"register"}
  Code = {c1, c2}
  Req = {r1, r2}
  MaxRows = 4
  MaxAttempts = 5
  PerEmailMax = 3
SPECIFICATION Spec
PROPERTY DoubleTapTolerated
CHECK_DEADLOCK FALSE
