SPECIFICATION CacheSpec
CONSTANTS
  MaxId = 2
  MaxTime = 2
  MaxRuns = 2
  Changing = {1}
  MaxChanges = 1
  MaxFaults = 1
INVARIANT FreshIsTrue
PROPERTIES BuildSettles CacheCatchesUp
