SPECIFICATION Spec
CONSTANTS
  Checkouts = {c1, c2}
  Cancels = {x1}
  Customers = {alice}
  p1 = p1  p2 = p2  alice = alice  bob = bob  shop = shop
  TenantOf <- SameTenant
  InitialStock <- TwoUnits
  Products = {p1, p2}
  Carts <- SmallCarts
  Keys = {}
  NoKey = NoKey
  InvoiceIds = {i1, i2}
  MaxFaults = 1
  MaxCrashes = 1
INVARIANTS TypeOK OneCheckoutAtATime OrderHasInvoice InvoicesDistinct
PROPERTY EveryRequestAnswered
CHECK_DEADLOCK FALSE
