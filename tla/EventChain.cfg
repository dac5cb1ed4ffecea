SPECIFICATION LiveSpec
CONSTANTS
  e1 = e1  e2 = e2  e3 = e3  old = old
  None = None
  Writer = {a1, a2, a3}
  EventId = {e1, e2, e3, old}
  Legacy <- OneLegacyRow
  FirstSeq = 2
  MaxAttempts = 5
INVARIANTS ChainIntact ChangeIsReported
PROPERTIES ImplementsAuditLog RecordTerminates
