SPECIFICATION Spec
CONSTANTS
  None = None
  w1 = w1  w2 = w2
  gap = gap  cpi = cpi  vote = vote  f1 = f1  a1 = a1  a2 = a2  lone = lone
INVARIANTS
  VintagesHold
  RunsAreAccounted
  ScoresAreKept
  DeskAsksRightly
  CeilingsHold
  StancesAreKept
  DerivedRowsAgree
  JournalIsCoherent
  FeedsAreFollowed
SYMMETRY AnyWriter
CHECK_DEADLOCK FALSE
