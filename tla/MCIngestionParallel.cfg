CONSTANTS
  d1 = d1
  d2 = d2
  u1 = u1
  u2 = u2
  u3 = u3
  s1 = s1
  Docs = {d1}
  Uploads = {u1, u2, u3}
  Scripts = {}
  ChunksOf <- MCChunksOf
  BatchSize = 2
  MaxFaults = 0
SPECIFICATION Spec
SYMMETRY UploadSymmetry
INVARIANT NeverInParallel
\* Every upload and every script run has been answered: nothing is left to do.
CHECK_DEADLOCK FALSE
