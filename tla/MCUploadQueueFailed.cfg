CONSTANTS
  d1 = d1
  u1 = u1
  u2 = u2
  Docs = {d1}
  Uploads = {u1, u2}
  Scripts = {}
  Mine = {u1, u2}
  ChunksOf <- MCChunksOf
  BatchSize = 2
  MaxFaults = 0
SPECIFICATION PageSpec
INVARIANT FailedIsOver
\* Every upload has been answered and every item is finished: nothing is left to do.
CHECK_DEADLOCK FALSE
