\* The threads do not overlap; calls return, held messages come up again, children exit.
CONSTANTS
  GEM = GEM
  WISH = WISH
  Messages <- TwoExperiments
  Serial = TRUE
  MaxRestarts = 0
SPECIFICATION FairSpec
CHECK_DEADLOCK FALSE
INVARIANTS TypeOK OneReductionPerRB ChildrenAreListed
PROPERTIES CancelledNotStarted EveryJobServed
