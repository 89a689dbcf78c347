SPECIFICATION FairSpec
CONSTANTS
  a = a
  b = b
  c = c
  expirer = expirer
  rec1 = rec1
  rec2 = rec2
  buyer = buyer
  Reservations = {1, 2}
  Lines = {a, b, c}
  LinesOf <- TwoAndOne
  Expirers = {expirer}
  Reconcilers = {rec1, rec2}
  Requesters = {buyer}
  Stoppable = {rec1}
  BatchSize = 2
  MaxAttempts = 2
  BaseDelay = 1
  Failing = {}
  MaxRaises = 1
  MaxCrashes = 1
INVARIANTS
  TypeOK
PROPERTIES
  BatchIsAtomic
  KeepsToRetry
  WorkIsDrained
  StopsWhenAsked
CHECK_DEADLOCK FALSE
