\* The cache cleared while a save is under way, and a fetch before the data has arrived.
CONSTANTS
  v1 = v1
  v2 = v2
  Names = {n1}
  Values = {v1, v2}
  Absent = Absent
  Untouched = Untouched
  Callers = {c1}
  MaxStores = 2
  DatastoreMayFail = FALSE
  RefsOf <- NoRefs
  Uses = {"tempStoreObject", "fetchObject", "flushUpdates", "clearCache"}
  Habits = {"serialBinds"}
SYMMETRY AnySymmetry
SPECIFICATION DataSpec
INVARIANTS
  NothingLost
CHECK_DEADLOCK FALSE
