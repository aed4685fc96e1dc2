SPECIFICATION Spec
CONSTANTS
  Orders = {o1}
  Refs = {r1, r2}
  Calls = {c1, c2}
  MaxAttempts = 2
  WritesMayFail = TRUE
  MayCrash = TRUE
INVARIANTS TypeOK ActiveIsProvisioned OneProvisioningCall PaidOnce
PROPERTIES ImplementsSubscription ProvisioningEnds
CHECK_DEADLOCK FALSE
