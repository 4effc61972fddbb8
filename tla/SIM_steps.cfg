\* Three actions and three jobs, at any time; two logic steps in half an update.
CONSTANTS
  HalfSteps = 2
  MaxEnqueued = 3
  MaxJobs = 3
SPECIFICATION FairSpec
INVARIANTS
  ActionsKept
  TimesMatch
  ActionsAreTimely
  SaveIsComplete
PROPERTIES
  JobsSettle
CHECK_DEADLOCK FALSE
