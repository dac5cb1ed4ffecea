SPECIFICATION BatchSpec
CONSTANTS
  Write = {w1, w2, w3}
  NoWrite = NoWrite
  MaxBatch = 3
  MaxCalls = 3
INVARIANTS RefusedTouchesNothing ReportIsSound NoUnreportedChange
