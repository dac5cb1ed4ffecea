SPECIFICATION LiveSpec
CONSTANTS
  Id = {"je1", "je2"}
  Field = {"amount", "memo"}
  Value = {1, 2}
  Write <- Writes
  Due = {d1, d2}
  Malformed = {d2}
  None = None
  MaxWrites = 2
  MaxEdits = 2
  MaxCrashes = 1
INVARIANTS MissingIsReal StandingDriftIsReported
PROPERTIES DueIsAnswered
