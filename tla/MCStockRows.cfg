CONSTANTS
  a = a
  b = b
  x = x
  r1 = r1
  r2 = r2
  w1 = w1
  w2 = w2
  o1 = o1
  o2 = o2
  NoTx = NoTx
  Internal = {a, b}
  Observed = {x}
  Reservations = {r1, r2}
  LinesOf <- MCLinesOf
  RequestsOf <- MCRequestsOf
  Settlers = {w1, w2}
  BatchSize = 2
  Operators = {o1, o2}
  Stock0 <- MCStock0
  Levels = {0, 1}
  MaxBreaks = 1

SPECIFICATION FairSpec

INVARIANTS
  TypeOK
  RowsAreSound

PROPERTIES
  KeepsLedger
  AnswersAreTrue
  AllIsSettled

CHECK_DEADLOCK FALSE
