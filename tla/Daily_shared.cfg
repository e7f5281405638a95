\* Two processes, one of them of the old version, on a new or an old file.
SPECIFICATION Spec
CONSTANTS
  NULL = NULL
  Refused = Refused
  Blank = Blank
  DayLen = 16
  Noon = 12
  Change = 8
  Shift = 4
  SpringDay <- LongAgo
  FallDay = 1
  ha = ha
  cli = cli
  Procs = {ha, cli}
  Code <- Codes
  OldFiles <- Old
  Stories <- AllStories
  Layouts <- BothLayouts
  Grain = 2
  Intervals <- Slots
  Tolerance = 2
  MaxFetches = 2
  MaxClock = 1
INVARIANTS StoredDay FeedNamesDays TruthIsQuiet
PROPERTIES NothingLost
CHECK_DEADLOCK FALSE
