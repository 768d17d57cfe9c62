\* A web session that cancels, hides and re-runs; one process killed or one step failing.
CONSTANTS
  Runs = {run}
  Calibration = {}
  Sessions = {s1}
  RowIds = {1, 2, 3, 4}
  RetryLimit = 1
  InboxSize = 1
  Overtaking = TRUE
  MaxReady = 1
  MaxPosts = 2
  MaxRetries = 0
  MaxFaults = 1
SPECIFICATION Spec
CHECK_DEADLOCK FALSE
INVARIANTS JobsAreRecorded QueuedNotForgotten ReductionsAreLocated
