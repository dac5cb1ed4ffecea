SPECIFICATION Spec
CONSTANTS
  Request <- Mixed
  Refused <- Unregistered
  Unreadable <- Unread
  Unlabelled <- Untagged
  Transforms <- Own
  Buggy <- Broken
  None = None
  Sole <- Sweep
  MaxQueue = 2
  MaxSends = 4
  MaxCrashes = 1
INVARIANTS ExactlyOneOutcome CompleteOrBlocked ShortestChain TallyIsAccounted
