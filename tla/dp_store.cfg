SPECIFICATION FairSpec
CONSTANTS
  c1 = c1  c2 = c2  c3 = c3
  ind1 = ind1  ind2 = ind2  s1 = s1  s2 = s2  f1 = f1
  Null = Null  Omitted = Omitted  NoRow = NoRow  Seeded = Seeded
  Calls = {c1, c2}
  Edits = {1}
  Indicators = {ind1, ind2}
  Slots = {s1, s2}
  Forecasts = {f1}
  Plans <- StorePlans
  EditValues <- TypedValue
  Seeds <- EditableSeed
  MaxFaults = 1
INVARIANTS
  StoreInv
  NoConflictEscapes
  ResultsMatchRows
PROPERTIES
  RevisionChanges
  EveryCallReturns
