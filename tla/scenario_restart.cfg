SPECIFICATION Spec
CONSTANTS
  i1 = i1
  i2 = i2
  c1 = c1
  c2 = c2
  None = None
  Injections <- MCOneInjection
  Clears <- MCOneClear
  MaxRunning = 1
  MaxSessions = 2
INVARIANTS
  OpenIsEmitted
