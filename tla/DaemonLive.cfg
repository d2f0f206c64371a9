SPECIFICATION DaemonSpec
CONSTANTS
  Request = {q1}
  Reader = {}
  SyncRun = {s1}
  JobRun = {j1}
  EmbedTick = {e1}
  VectorInit = vi
  IndexBuild = ib
  NoThread = none
  RunAfterSync = TRUE
  Timeouts = {}
PROPERTIES RequestsGetIn ShutdownEnds
CHECK_DEADLOCK FALSE
