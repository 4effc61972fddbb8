\* Two keys; two new nodes per stage, and one complectification in each.
CONSTANTS
  KeyClasses <- TwoKeys
  NewNodesPerStage = 2
  MaxComplectifications = 1
  Start = "start"
  End = "end"
SPECIFICATION Spec
INVARIANTS
  NeverStuck
  RequiredKeysAreHeld
  SolverFindsShortest
CHECK_DEADLOCK FALSE
