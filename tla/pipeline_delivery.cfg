SPECIFICATION FairSpec
CONSTANTS
  p1 = p1
  p2 = p2
  c1 = c1
  c2 = c2
  g1 = g1
  g2 = g2
  bad = bad
  junk = junk
  tomb = tomb
  Partitions = {p1}
  Consumers = {c1, c2}
  Good = {g1}
  Poison = {}
  Unreadable = {junk}
  Raising = {tomb}
  Unprintable = {}
  BatchSize = 2
  PartitionsOf <- MCOnePartition
  MaxFaults <- MCDeliveryFaults
INVARIANTS
  CommittedIsSettled
PROPERTIES
  EventsSettle
CHECK_DEADLOCK FALSE
