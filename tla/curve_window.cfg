SPECIFICATION Spec
CONSTANTS
  None = None
  Headroom = 4
  MinScan = 40
  MinRun = 3
INVARIANTS
  RedWindowIsFixed
CHECK_DEADLOCK FALSE
