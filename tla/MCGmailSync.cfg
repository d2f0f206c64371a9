SPECIFICATION FairSyncSpec
CONSTANTS
  MaxHistory = 3
  PageSize = 1
  MaxFaults = 2
  NoResume = {TRUE, FALSE}
  Queries <- AllMessages
INVARIANT ChangesLieAhead
PROPERTIES NothingLostAfresh CatchesUp
