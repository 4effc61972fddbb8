\* One rejected batch: later updates are never written.
CONSTANTS
  Names = {k1}
  Values = {v1}
  Absent = Absent
  Untouched = Untouched
  Callers = {c1, c2}
  MaxStores = 2
  DatastoreMayFail = TRUE
SPECIFICATION FairSpec
PROPERTY EveryUpdateSaved
CHECK_DEADLOCK FALSE
