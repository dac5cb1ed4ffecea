SPECIFICATION LiveSpec
CONSTANTS
  Replica = {b1, b2}
  Announced <- Flagged
  Quarantined <- Malformed
  Registered <- Subjects
  None = None
  Window = 2
  MaxQueue = 2
  MaxTriggers = 2
  MaxCrashes = 1
INVARIANTS AlertedOncePerWindow
PROPERTIES SuppressedIsRepeat SuppressedWasAlerted AnnouncedIsAlerted
