CONSTANTS
  t1 = t1
  t2 = t2
  a1 = a1
  a2 = a2
  a3 = a3
  s1 = s1
  s2 = s2
  Transactions = {t1, t2}
  Adapters = {a1, a2, a3}
  NoAdapter = NoAdapter
  Settings = {s1, s2}
  MaxCalls = 2
  MaxChanges = 1
  Threshold = 2
  Recovery = 1
  TimeoutCounts = TRUE

SPECIFICATION FairSpec

PROPERTIES
  EachHasItsCircuit
  SettlesOnStored
