SPECIFICATION Spec
CONSTANTS
  p1 = p1
  p2 = p2
  r1 = r1
  r2 = r2
  own = own
  shop = shop
  site = site
  Ids = {p1, p2}
  Requests = {r1, r2}
  Idle = idle
  HttpUrls = {site}
  NoUrl = no_url
  Registrations <- SomeProviders
  Updates <- SomeUpdates
  Credentials <- SomeCredentials
SYMMETRY Interchangeable
INVARIANTS
  TypeOK
  HoldersCanSettle
PROPERTIES
  OnlyItsCallSwitches
