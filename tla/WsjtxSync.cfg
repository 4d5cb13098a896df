SPECIFICATION Spec
CONSTANTS
  ft8 = ft8
  ssb = ssb
  mine = mine
  other = other
  none = none
  ToleranceSeconds = 90
  FrequencyTolerance = 10
  FuzzyBuckets = {ft8}
  NoStation = none
  ActiveStation = mine
  Contacts <- SomeContacts
  MaxEvents = 3
  MaxCrashes = 1
INVARIANTS SyncedBothWays NoNewDuplicates
CHECK_DEADLOCK FALSE
