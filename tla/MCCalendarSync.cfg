SPECIFICATION CalFairSpec
CONSTANTS
  Calendar = {work}
  NoCalendar = NoCalendar
  MaxEvents = 2
  MaxClock = 3
  PageSize = 1
  MaxFaults = 2
  MaxManual = 1
  Poison = {}
  Options <- AnyOptions
INVARIANT NothingMissedBehindCursor
PROPERTIES ContentKept CatchesUp
