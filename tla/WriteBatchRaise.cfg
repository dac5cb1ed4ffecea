SPECIFICATION BatchSpec
CONSTANTS
  Write = {w1, w2}
  NoWrite = NoWrite
  MaxBatch = 2
  MaxCalls = 1
INVARIANT HalfPostedIsReported
