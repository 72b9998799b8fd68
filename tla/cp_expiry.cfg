SPECIFICATION Spec
CONSTANTS
  MaxDay = 4
  DaysToHigherSeverity = 3
  DaysToLowerSeverity = 5
  Expiry = 3
  LookBack = 20
  Inputs <- Shocks
  MaxRevisions = 0
  Backfill = FALSE
  None = None
INVARIANTS
  ShockLastsItsWindow
