\* Dialogs and cycles interleave; the account is removed, added again, and may
\* stay removed.
SPECIFICATION FairSpec
CONSTANTS
  NULL = NULL
  Entries = {1, 2}
  Dialogs = {d1, d2}
  d2 = d2
  MaxBusy = 2
  d1 = d1
  p = p
  q = q
  Cycles = {1, 2}
  Passwords = {p, q}
INVARIANTS NewEntryNotBounced ArchiveGone
PROPERTIES ReauthWarranted ArchiveKept RightPasswordLoads
CHECK_DEADLOCK FALSE
