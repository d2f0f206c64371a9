SPECIFICATION DaemonSpec
CONSTANTS
  Request = {q1}
  Reader = {r1}
  SyncRun = {s1, s2}
  JobRun = {}
  EmbedTick = {e1}
  VectorInit = vi
  IndexBuild = ib
  NoThread = none
  RunAfterSync = TRUE
  Timeouts = {"api", "sched", "drain"}
INVARIANTS StoreOutlivesWork IdleInterruptsNothing OneRunAtATime NoStuckFlag GivenBackOnce
CHECK_DEADLOCK FALSE
