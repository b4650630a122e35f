SPECIFICATION PlanSpec
CONSTANTS
  Own = 1
  ContactPairs <- ContactPairsDef
  RangePairs <- RangePairsDef
  Starts = {1, 3}
  Stops = {2, 4}
  MaxTime = 4
  MaxContacts = 3
  MaxRanges = 3
  MaxPosixTime = 99
  MaxClockError = 1
  MaxLogLength = 2
  Rate = 4
  BoldRate = 9
  Day = 4
  Hour = 1
INVARIANTS
  ContactsDisjoint
  PlanIndexed
  ImputedBacked
CHECK_DEADLOCK FALSE
