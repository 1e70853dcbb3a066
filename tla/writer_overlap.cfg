SPECIFICATION FairSpec
CONSTANTS
  w1 = w1
  w2 = w2
  ok = ok
  f1 = f1
  bad = bad
  None = None
  Writers <- MCWriters
  Events <- MCEvents
  Failures <- MCFailures
  Refused <- MCRefused
  BatchSize = 2
INVARIANTS
  IInv
  Paired
  EmbeddingsUncontended
  SomeoneCanMove
PROPERTIES
  FirstWriteKept
  RefinesAtomicStore
  WritesEnd
