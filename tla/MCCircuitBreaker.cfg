SPECIFICATION FairSpec
CONSTANTS
  c1 = c1
  c2 = c2
  c3 = c3
  c4 = c4
  Callers = {c1, c2, c3, c4}
  Threshold = 3
  Recovery = 3
  TimeoutCounts = FALSE
INVARIANTS
  TypeOK
  OneProbe
  OpenAtThreshold
PROPERTY
  ProbeEnds
