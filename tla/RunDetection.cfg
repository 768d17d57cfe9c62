\* Two instruments, two monitors, one killed process or unreadable file.
CONSTANTS
  Rows = 2
  MaxRun = 3
  Digits <- ThirdIsLonger
  Monitors = {m1, m2}
  NoOne = NoOne
  Invalid <- Calibration
  MaxFaults = 1
SPECIFICATION FairSpec
INVARIANTS TypeOK NoneSkipped SubmittedOnce
PROPERTIES EveryRunSubmitted
