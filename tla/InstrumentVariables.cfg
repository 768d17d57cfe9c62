\* One session and the queue processor.
CONSTANTS
  X = X
  Y = Y
  E = E
  Runs <- FiledRuns
  MaxRun = 3
  Experiments = {E}
  Experiment <- ExperimentOf
  NoExperiment = NoExperiment
  Scripts <- AllScripts
  Unreadable = Unreadable
  Edited <- Typed
  Hyphenated = {Y}
  Sessions = {s1}
  Tables <- AllTables
  MaxRequests = 1
  MaxScripts = 1
SPECIFICATION Spec
CHECK_DEADLOCK FALSE
INVARIANTS TypeOK RangesMatch
PROPERTIES EditKeepsOtherRuns 
