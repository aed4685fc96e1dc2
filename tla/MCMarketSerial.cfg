SPECIFICATION SerialSpec
CONSTANTS
  Checkouts = {c1, c2}
  Cancels = {x1, x2}
  Customers = {alice}
  p1 = p1  p2 = p2  alice = alice  bob = bob  shop = shop
  TenantOf <- SameTenant
  InitialStock <- TwoAndOne
  Products = {p1, p2}
  Carts <- PairCarts
  Keys = {k1}
  NoKey = NoKey
  InvoiceIds = {i1, i2}
  MaxFaults = 1
  MaxCrashes = 0
INVARIANTS LedgerBacksOrders PlacedIsDurable StockAccounted
PROPERTIES ImplementsOrderBook RetryPlacesNothing
CHECK_DEADLOCK FALSE
