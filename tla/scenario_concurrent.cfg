SPECIFICATION FairSpec
CONSTANTS
  i1 = i1
  i2 = i2
  c1 = c1
  c2 = c2
  None = None
  Injections <- MCInjections
  Clears <- MCOneClear
  MaxRunning = 2
  MaxSessions = 2
INVARIANTS
  IInv
  EndsMatchStarts
  EmittedIsLogged
  FileIsStanding
PROPERTIES
  EngineFollowsFile
  EndsOnlyWhenDue
  ClearedStaysCleared
