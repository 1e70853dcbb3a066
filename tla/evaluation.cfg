SPECIFICATION EvaluationSpec
CONSTANTS
  a = a
  b = b
  None = None
  Rows <- MCRows
  Failed = {1, 3}
  Gateways = {a, b}
  GatewayOf <- MCGatewayOf
  Invented = {9}
  WindowArgs = {None, 5}
  LimitArgs = {0, 1, 5}
  Filters = {None, a, 9}
  Asks <- MCAsks
  DefaultWindow = 1
  MaxWindow = 2
  DefaultLimit = 2
  MaxLimit = 2
  MaxIds = 2
  ExactScanThreshold = 1
  MaxNow = 3
  MaxCalls = 1
  Marked = {2, 3}
  Focus = a
  Sample = 1
  QuestionWindow = 2
  Garbled = Garbled
  CountTolerance = 50
  RateTolerance = 5001
  Answers <- MCAnswers
  Null = Null
  DefaultEf = 2
  CustomRuns = 3
  Failures = {1, 2, 3}
  Queries = 2
  Distance <- MCDistance
  K = 2
  Sweeps <- MCSweeps
  HeadlineEf = 2
  ExperimentEfs <- MCEfs
  Baseline <- MCBaseline
  Novel <- MCNovel
  Checkpoints <- MCCheckpoints
  SearchThreshold = 1
  MaxCommands = 3
  MaxIterations = 2
  MaxBlocks = 2
  MaxTurns = 3
INVARIANTS
  TranscriptInv
  Paired
  TurnIsBounded
  ClearForgets
  RecordIsFaithful
  EvalInv
  PartsCoverTheWhole
  ValidIsRowOrAsked
  FabricatedWasAbsent
  QuotesAreAccurate
  StudyInv
  ExactUnlessCached
  ReportedPathRan
  FullScoreIsOptimal
  ScratchIsOwn
  NoStaleSection
