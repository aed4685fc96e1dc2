SPECIFICATION Spec
CONSTANTS
  Orders = {o1}
  Refs = {r1, r2}
  Calls = {c1, c2}
  MaxAttempts = 2
  WritesMayFail = FALSE
  MayCrash = FALSE
PROPERTY ProviderResultKept
CHECK_DEADLOCK FALSE
