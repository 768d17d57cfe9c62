\* One session and the queue processor, with a set of variables planned from run 3 on.
CONSTANTS
  X = X
  Y = Y
  E = E
  Runs <- FiledRuns
  MaxRun = 3
  Experiments = {E}
  Experiment <- ExperimentOf
  NoExperiment = NoExperiment
  Scripts <- AllScripts
  Unreadable = Unreadable
  Edited <- Typed
  Hyphenated = {Y}
  Sessions = {s1}
  Tables <- PlannedTables
  MaxRequests = 1
  MaxScripts = 1
SPECIFICATION Spec
CHECK_DEADLOCK FALSE
PROPERTIES RangeUsed
