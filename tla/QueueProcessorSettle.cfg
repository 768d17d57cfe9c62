\* One writer, reports in order, no faults: every run is reduced to an end.
CONSTANTS
  Runs = {run, calibration}
  Calibration = {calibration}
  Sessions = {}
  RowIds = {1, 2, 3, 4}
  RetryLimit = 1
  InboxSize = 2
  Overtaking = FALSE
  MaxReady = 3
  MaxPosts = 0
  MaxRetries = 0
  MaxFaults = 0
SPECIFICATION FairSpec
CHECK_DEADLOCK FALSE
PROPERTIES EveryRunSettles
