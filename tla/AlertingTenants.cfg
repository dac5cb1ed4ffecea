SPECIFICATION LiveSpec
CONSTANTS
  Replica = {b1}
  Announced <- Denials
  Quarantined <- Nothing
  Registered <- Subjects
  None = None
  Window = 2
  MaxQueue = 2
  MaxTriggers = 2
  MaxCrashes = 0
PROPERTY DistinctFailuresStaySeparate
