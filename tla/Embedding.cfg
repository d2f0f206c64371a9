SPECIFICATION EmbeddingSpec
CONSTANTS
  MessageCount = 2
  GenCount = 2
  BatchSize = 2
  MaxFailures = 2
  MaxEdits = 1
  MaxEvents = 1
INVARIANTS CoveredIsCurrent StragglersExcused
PROPERTIES ServesUntilReplaced IndexCatchesUp
CHECK_DEADLOCK FALSE
