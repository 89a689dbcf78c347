SPECIFICATION Spec
CONSTANTS
  r1 = r1
  r2 = r2
  r3 = r3
  book = book
  lamp = lamp
  rug = rug
  own = own
  market = market
  Reservations = {r1, r2}
  Products = {book}
  Providers = {own, market}
  NoProvider = none
  External = {market}
  LinesOf <- OneBook
  Stock0 <- Stock
  Levels = {}
  MaxAttempts = 2
  LateCalls = TRUE
PROPERTY
  ConsumedWasHeld
CHECK_DEADLOCK FALSE
