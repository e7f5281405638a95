\* The portal fails for days.
SPECIFICATION Spec
CONSTANTS
  NULL = NULL
  Day = 24
  Slot = 12
  Jitter = 0
  RetryDelays <- MCRetryDelays
  FreshAge = 6
  StaleAge = 48
  Outcomes <- Mapped
  MaxPresses = 0
INVARIANT StaleRaised
