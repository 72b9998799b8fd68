SPECIFICATION Spec
CONSTANTS
  MaxDay = 4
  DaysToHigherSeverity = 2
  DaysToLowerSeverity = 3
  Expiry = 2
  LookBack = 3
  Inputs <- VotesOrShock
  MaxRevisions = 1
  Backfill = FALSE
  None = None
INVARIANTS
  TypeOK
  RegimeFollowsStreaks
  DerivedFromCurrentPrior
  ShockHasCause
PROPERTIES
  MachineIsAsSpecified
