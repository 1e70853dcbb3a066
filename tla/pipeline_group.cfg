SPECIFICATION Spec
CONSTANTS
  p1 = p1
  p2 = p2
  c1 = c1
  c2 = c2
  g1 = g1
  g2 = g2
  bad = bad
  junk = junk
  tomb = tomb
  Partitions = {p1, p2}
  Consumers = {c1, c2}
  Good = {g1, g2}
  Poison = {}
  Unreadable = {}
  Raising = {}
  Unprintable = {g2}
  BatchSize = 2
  PartitionsOf <- MCSkewed
  MaxFaults <- MCGroupFaults
INVARIANTS
  IInv
PROPERTIES
  RefinesLedger
CHECK_DEADLOCK FALSE
