\* Entries are reloaded, and writers run, at any time.
SPECIFICATION FairSpec
CONSTANTS
  NULL = NULL
  Free = Free
  Writer = Writer
  Entries = {"a", "b"}
  MaxReloads = 2
INVARIANTS TypeOK Tracked QuietDuringTar NoLockLeft
PROPERTY WritersReturn
