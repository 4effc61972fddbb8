\* One caller, two rebindings of a name, a datastore that may reject anything,
\* the cache cleared at any time.
CONSTANTS
  v1 = v1
  v2 = v2
  Names = {n1}
  Values = {v1, v2}
  Absent = Absent
  Untouched = Untouched
  Callers = {c1}
  MaxStores = 2
  DatastoreMayFail = TRUE
  RefsOf <- NoRefs
  Uses = {"storeObject", "fastStoreObject", "updateMap", "fetchObject", "clearCache"}
  Habits = {"serialBinds"}
SYMMETRY AnySymmetry
SPECIFICATION DataSpec
INVARIANTS
  NamesShowLatest
  KnownStoredIsStored
  CacheIsSound
CHECK_DEADLOCK FALSE
