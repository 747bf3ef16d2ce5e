CONSTANTS
  d1 = d1
  u1 = u1
  u2 = u2
  Docs = {d1}
  Uploads = {u1, u2}
  Scripts = {}
  Mine = {u1, u2}
  ChunksOf <- MCChunksOf
  BatchSize = 2
  MaxFaults = 1
SPECIFICATION PageFairSpec
INVARIANT FinishedItemsAreSearchable
INVARIANT FollowedWhileActive
PROPERTY FinishedIsFinal
PROPERTY ItemsFinish
\* Every upload has been answered and every item is finished: nothing is left to do.
CHECK_DEADLOCK FALSE
