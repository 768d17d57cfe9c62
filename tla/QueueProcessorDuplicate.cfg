\* A second submission of a run races a re-run from the web page.
CONSTANTS
  Runs = {run}
  Calibration = {}
  Sessions = {s1}
  RowIds = {1, 2, 3, 4}
  RetryLimit = 1
  InboxSize = 1
  Overtaking = TRUE
  MaxReady = 2
  MaxPosts = 1
  MaxRetries = 0
  MaxFaults = 0
SPECIFICATION Spec
CHECK_DEADLOCK FALSE
INVARIANTS UniqueVersions
