\* Versions of a run and runs of an excitation experiment, one job killed or with operations that fail.
CONSTANTS
  first = first
  overwriting = overwriting
  cold = cold
  hot = hot
  gemRun = gemRun
  mariExperiment = mariExperiment
  Jobs <- FourJobs
  Dirs = {gemRun, mariExperiment}
  Dir <- JobDir
  Overwrites = {overwriting}
  Excitation = {mariExperiment}
  Rb <- OneRb
  MaxFaults = 1
SPECIFICATION FairSpec
CHECK_DEADLOCK FALSE
INVARIANTS TypeOK CompleteHasResults ResultsUnmixed
PROPERTIES EarlierResultsKept JobSpec JobsReport
