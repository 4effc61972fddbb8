\* A play session: temporary and mutable objects that refer to each other, two
\* saves, cache clears between.
CONSTANTS
  v1 = v1
  v2 = v2
  Names = {n1}
  Values = {v1, v2}
  Absent = Absent
  Untouched = Untouched
  Callers = {c1}
  MaxStores = 2
  DatastoreMayFail = FALSE
  RefsOf <- RoomAndClass
  Uses = {"tempStoreObject", "getMutableRoom", "flushUpdates", "fetchObject", "clearCache"}
  Habits = {"serialBinds", "quietClears", "liveRefs"}
SPECIFICATION DataSpec
INVARIANTS
  NothingLost
  SavedGameLoads
CONSTRAINT FewFetches
CHECK_DEADLOCK FALSE
