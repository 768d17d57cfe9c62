\* The two threads as they are, with a restart.
CONSTANTS
  GEM = GEM
  WISH = WISH
  Messages <- SameRunTwice
  Serial = FALSE
  MaxRestarts = 1
SPECIFICATION Spec
CHECK_DEADLOCK FALSE
INVARIANTS CancelUsedOnce
