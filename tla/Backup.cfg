SPECIFICATION BackupSpec
CONSTANTS
  Run = {r1, r2}
  Writer = {w1}
  Blob = {b1}
  NoOne = NoOne
  MaxWrites = 3
INVARIANTS FrozenSnapshot
PROPERTIES MissingIsGone OwnThaw GateComesBack AskingIsAnswered
CHECK_DEADLOCK FALSE
