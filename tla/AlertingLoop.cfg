SPECIFICATION LiveSpec
CONSTANTS
  Replica = {b1}
  Announced <- Nothing
  Quarantined <- Malformed
  Registered <- Subjects
  None = None
  Window = 2
  MaxQueue = 2
  MaxTriggers = 1
  MaxCrashes = 0
PROPERTY DeadLetterEscalates
