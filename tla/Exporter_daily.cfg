\* One export at a time; the recorder may lag one import behind.
SPECIFICATION Spec
CONSTANTS
  NULL = NULL
  DayLen = 2
  Days = 3
  FirstWindow = 1
  Window = 1
  Contents <- AllContents
  DailyValues = {4}
  Tasks = {1}
  Overlap = FALSE
  PreRows <- History
  MaxWrites = 3
  MaxReparses = 0
  MaxDeletes = 1
  MaxAdjusts = 0
  MaxRestarts = 0
  MaxQueue = 1
  ThrashLimit = 3
INVARIANTS NoRewind ExactFold
