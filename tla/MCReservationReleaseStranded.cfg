SPECIFICATION Spec
CONSTANTS
  r1 = r1
  r2 = r2
  r3 = r3
  book = book
  lamp = lamp
  rug = rug
  own = own
  market = market
  Reservations = {r1, r2}
  Products = {book, lamp}
  Providers = {own, market}
  NoProvider = none
  External = {market}
  LinesOf <- TwoLines
  Stock0 <- Stock
  Levels = {}
  MaxAttempts = 2
  LateCalls = FALSE
INVARIANT
  ReleasingIsReconcilable
CHECK_DEADLOCK FALSE
