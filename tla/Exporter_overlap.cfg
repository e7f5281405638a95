\* A scheduled export and a fetch-now export overlap.
SPECIFICATION Spec
CONSTANTS
  NULL = NULL
  DayLen = 2
  Days = 3
  FirstWindow = 1
  Window = 1
  Contents <- Growing
  DailyValues = {4}
  Tasks = {1, 2}
  Overlap = TRUE
  PreRows <- History
  MaxWrites = 2
  MaxReparses = 0
  MaxDeletes = 0
  MaxAdjusts = 0
  MaxRestarts = 0
  MaxQueue = 1
  ThrashLimit = 3
INVARIANT NoRewind
