\* Ten days with both clock changes, a new year and a leap day.
SPECIFICATION Spec
CONSTANTS
  NULL = NULL
  NoWeekday = NoWeekday
  Refused = Refused
  Summary = Summary
  DayLen = 8
  Noon = 6
  Change = 4
  Shift = 2
  SpringDay = 2
  FallDay = 5
  Years = {1, 2}
  YearStart <- Almanac
  Leap = {2}
  Labels = 9
  LeapLabel = 3
  BackDays = 4
  ForwardDays = 1
  Width = 3
  Lag = 1
  Layouts <- BothLayouts
  FirstDay = 3
  LastDay = 10
  MaxFetches = 2
  OddRows = {4}
CHECK_DEADLOCK FALSE
INVARIANTS NothingMovedSilently NothingLostSilently GapsExact CleanFetchFills
PROPERTIES GoneIsGone
