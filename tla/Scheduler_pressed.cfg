\* Scheduled and pressed refreshes overlap, and a cycle may end in any way.  The
\* slot is drawn from two hours, so it may be drawn again on the same day.
SPECIFICATION FairSpec
CONSTANTS
  NULL = NULL
  Day = 24
  Slot = 12
  Jitter = 1
  RetryDelays <- MCRetryDelays
  FreshAge = 6
  StaleAge = 8
  Outcomes <- Any
  MaxPresses = 1
INVARIANTS TypeOK Armed
PROPERTIES ButtonLeavesSchedule OnceADay KeepsFetching
