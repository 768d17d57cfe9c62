\* One writer, faults, retries and reports overtaking one another.
CONSTANTS
  Runs = {run, calibration}
  Calibration = {calibration}
  Sessions = {}
  RowIds = {1, 2, 3, 4}
  RetryLimit = 1
  InboxSize = 2
  Overtaking = TRUE
  MaxReady = 2
  MaxPosts = 0
  MaxRetries = 1
  MaxFaults = 1
SPECIFICATION Spec
CHECK_DEADLOCK FALSE
INVARIANTS TypeOK UniqueVersions JobsAreRecorded SkippedNotReduced ReducedOnce ReductionsAreLocated
PROPERTIES CompletedStays LifecycleSpec
