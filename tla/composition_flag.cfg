SPECIFICATION Spec
CONSTANTS
  None = None
  Headroom = 4
  MinScan = 40
  MinRun = 3
INVARIANT
  TwoInflationScoresLead
CHECK_DEADLOCK FALSE
