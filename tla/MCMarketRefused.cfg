SPECIFICATION Spec
CONSTANTS
  Checkouts = {c1, c2}
  Cancels = {}
  Customers = {alice}
  p1 = p1  p2 = p2  alice = alice  bob = bob  shop = shop
  TenantOf <- SameTenant
  InitialStock <- TwoUnits
  Products = {p1, p2}
  Carts <- SmallCarts
  Keys = {}
  NoKey = NoKey
  InvoiceIds = {i1, i2}
  MaxFaults = 0
  MaxCrashes = 0
INVARIANT RefusedLeavesNoTrace
CHECK_DEADLOCK FALSE
