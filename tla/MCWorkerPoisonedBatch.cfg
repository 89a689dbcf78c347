SPECIFICATION FairSpec
CONSTANTS
  a = a
  b = b
  c = c
  expirer = expirer
  rec1 = rec1
  rec2 = rec2
  buyer = buyer
  Reservations = {1, 2, 3}
  Lines = {a, b, c}
  LinesOf <- OneEach
  Expirers = {expirer}
  Reconcilers = {rec1}
  Requesters = {}
  Stoppable = {}
  BatchSize = 2
  MaxAttempts = 2
  BaseDelay = 1
  Failing = {a}
  MaxRaises = 0
  MaxCrashes = 0
PROPERTY
  HealthyIsReleased
CHECK_DEADLOCK FALSE
