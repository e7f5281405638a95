\* Two cycles overlap and each may be cut short anywhere.  Six rows: the daily
\* table and the range of three cycles.
SPECIFICATION Spec
CONSTANTS
  NULL = NULL
  c1 = c1
  c2 = c2
  Cycles <- MCCycles
  Spans = {1, 3}
  PortalDays = 4
  TableDays = 1
  FirstDay = 5
  LastDay = 6
  MaxFetches = 6
  Faults = {"escape", "crash", "locked", "form"}
SYMMETRY Symmetry
INVARIANTS BackfillKept FreshMeansStored BackfillOnce
