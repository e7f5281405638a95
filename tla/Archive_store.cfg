\* Two processes write the same file while a third runs reparse.
SPECIFICATION Spec
CONSTANTS
  d = d
  r = r
  slot = slot
  press = press
  NULL = NULL
  Keys = {0, 1}
  Fields <- MCFields
  Received = r
  Values = {1, 2}
  Captures <- MCCaptures
  Writers = {slot, press}
  KeepOk = 1
  MaxClock = 1
  MaxFetches = 3
  MaxReparses = 1
  MaxLockWait = 1
SYMMETRY Symmetry
INVARIANTS TypeOK AuditTrail References ReceivedKnown RawPagesKept FeedComplete
PROPERTIES NullNeverErases NothingChangesSilently ImplementsAuditedStore
\* The bounds on the fetches, the `reparse` runs and the clock end every behaviour.
CHECK_DEADLOCK FALSE
