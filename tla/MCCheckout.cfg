SPECIFICATION FairSpec
CONSTANTS
  c1 = c1
  c2 = c2
  c3 = c3
  c4 = c4
  first = first
  second = second
  book = book
  lamp = lamp
  own = own
  shop = shop
  mall = mall
  Calls = {c1, c2, c3, c4}
  NoCall = none
  KeyOf <- KeyOfFour
  ItemsOf <- FourCalls
  Providers = {own, shop, mall}
  NoProvider = nobody
  External = {shop, mall}
  Checked = {shop}
  RouteOf <- Routes
  Stock <- OneOfEach
INVARIANTS
  TypeOK
  StockIsAccounted
  OneProviderPerLine
  HoldsAreOnRecord
  LosersHoldNothing
PROPERTIES
  KeepsPromise
  EveryCallEnds
CHECK_DEADLOCK FALSE
