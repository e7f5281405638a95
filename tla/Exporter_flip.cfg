\* A reparse recovers the hours of a day exported as a bucket.
SPECIFICATION Spec
CONSTANTS
  NULL = NULL
  DayLen = 2
  Days = 3
  FirstWindow = 1
  Window = 1
  Contents <- Growing
  DailyValues = {4}
  Tasks = {1}
  Overlap = FALSE
  PreRows <- History
  MaxWrites = 2
  MaxReparses = 1
  MaxDeletes = 0
  MaxAdjusts = 0
  MaxRestarts = 0
  MaxQueue = 0
  ThrashLimit = 3
INVARIANT NoStaleMidnight
