SPECIFICATION Spec
CONSTANTS
  r1 = r1
  r2 = r2
  r3 = r3
  book = book
  lamp = lamp
  rug = rug
  own = own
  market = market
  Reservations = {r1, r2}
  Products = {book, lamp, rug}
  Providers = {own, market}
  NoProvider = none
  External = {market}
  LinesOf <- TwoHolds
  Stock0 <- Stock
  Levels = {2}
  MaxAttempts = 2
  LateCalls = TRUE
INVARIANTS
  TypeOK
  StockWithinBounds
  OutcomeIsComplete
  AnswersAreTrue
PROPERTIES
  ConfirmedAndCancelledAreFinal
  UnknownIsRetriedByWorkerOnly
  TakenWasHeld
  ReleaseReachesTarget
CHECK_DEADLOCK FALSE
