SPECIFICATION FairDeletionSpec
CONSTANTS
  MessageCount = 5
  CheckpointAt = 2
  BatchLimit = 2
  Permanent = {TRUE, FALSE}
  FaultKinds = {"call", "scope", "interrupt", "db", "write", "kill"}
  MaxFaults = 3
INVARIANTS
  ProgressIsTrue
  MarksAreTrue
PROPERTIES
  CancelledIsFinal
  FailuresTriedAgain
  EveryBatchEnds
CHECK_DEADLOCK FALSE
