SPECIFICATION ChatSpec
CONSTANTS
  MaxIterations = 2
  MaxBlocks = 1
  MaxTurns = 2
INVARIANTS
  EarlierAnswersAreSeen
