SPECIFICATION Spec
CONSTANTS
  gateway = gateway
  fraud = fraud
  None = None
  Kinds <- MCKinds
  Questions <- MCFraudTwice
  Leftover = gateway
  Ambient = {gateway}
  Buffered <- MCBuffered
  ClearsFirst = TRUE
  Duration = 9
  Window = 5
  PollInterval = 1
  MaxWait = 2
  Buffer = 2
  Pause = 2
  EnginePoll = 1
  Latency = 1
  MaxAsk = 1
INVARIANTS
  GatePassesOnOwnRows
