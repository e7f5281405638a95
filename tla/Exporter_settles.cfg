\* A fetch, a re-ingested page, a user adjustment and a restart fall into
\* running exports.
SPECIFICATION FairSpec
CONSTANTS
  NULL = NULL
  DayLen = 2
  Days = 3
  FirstWindow = 1
  Window = 1
  Contents <- Growing
  DailyValues = {4}
  Tasks = {1}
  Overlap = TRUE
  PreRows <- History
  MaxWrites = 1
  MaxReparses = 1
  MaxDeletes = 0
  MaxAdjusts = 1
  MaxRestarts = 1
  MaxQueue = 0
  ThrashLimit = 3
INVARIANT NeverHalts
PROPERTY Settles
