SPECIFICATION SyncSpec
CONSTANTS
  MaxHistory = 3
  PageSize = 1
  MaxFaults = 1
  NoResume = {FALSE}
  Queries <- AllMessages
INVARIANT NoSilentLoss
