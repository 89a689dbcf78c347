SPECIFICATION Spec
CONSTANTS
  c1 = c1
  c2 = c2
  c3 = c3
  c4 = c4
  Callers = {c1, c2, c3}
  Threshold = 3
  Recovery = 2
  TimeoutCounts = TRUE
INVARIANT
  OutageOpens
