SPECIFICATION Spec
CONSTANTS
  None = None
  Days = {1, 2, 3, 4, 5}
  Writers = {w1}
  Answers <- OneAnswer
  Versions = {1}
  FlagWidth = 50
  Width <- FlagLength
  MaxNews = 0
INVARIANT CarriesIndefinitely
CHECK_DEADLOCK FALSE
