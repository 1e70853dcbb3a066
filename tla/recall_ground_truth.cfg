SPECIFICATION StudySpec
CONSTANTS
  Null = Null
  DefaultEf = 2
  CustomRuns = 3
  Failures = {1, 2, 3}
  Queries = 2
  Distance <- MCDistance
  K = 2
  Sweeps <- MCSweeps
  HeadlineEf = 2
  ExperimentEfs <- MCEfs
  Baseline <- MCBaseline
  Novel <- MCNovel
  Checkpoints <- MCCheckpoints
  SearchThreshold = 1
  MaxCommands = 2
INVARIANTS
  GroundTruthIsExact
