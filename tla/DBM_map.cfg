\* One key, two values, two callers, three storeValues calls, a datastore
\* that may reject anything.
CONSTANTS
  Names = {k1}
  Values = {v1, v2}
  Absent = Absent
  Untouched = Untouched
  Callers = {c1, c2}
  MaxStores = 3
  DatastoreMayFail = TRUE
SPECIFICATION FairSpec
INVARIANTS
  FlushIsDurable
  FetchSeesLatest
  RootsAreStored
PROPERTIES
  ImplementsWriteBehind
  SavedUnlessRejected
  EveryPromiseSettles
CHECK_DEADLOCK FALSE
