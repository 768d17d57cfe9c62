\* The two threads as they are.
CONSTANTS
  GEM = GEM
  WISH = WISH
  Messages <- OneExperiment
  Serial = FALSE
  MaxRestarts = 0
SPECIFICATION Spec
CHECK_DEADLOCK FALSE
INVARIANTS OneReductionPerRB
