SPECIFICATION Spec
CONSTANTS
  None = None
  Headroom = 4
  MinScan = 40
  MinRun = 3
INVARIANTS
  WindowsAreNewest
  EveryReadingHasOneScore
  ScoresFollowReadings
  OverridesAnswerNews
  PairsCompareFairly
  CreateAgreesWithRead
  MetricsSpeakTrue
  CalendarsAreWhole
  ColourIsFreshAndBlind
  BandsLeanSafe
  CurveHistoryIsFixed
  DependenciesComeFirst
  ReplayFollowsLive
CHECK_DEADLOCK FALSE
