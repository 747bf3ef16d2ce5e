SPECIFICATION FairSpec
CONSTANTS
  Sets <- MCSets
  Answers = {"yes", "no"}
  Split = {"no"}
  Concurrency = 2
  MaxCrashes = 1
  MaxLines = 2
  Absent = Absent
  Torn = Torn
INVARIANTS DoneIsWhole ErrorsAreRetried CrashCostsAtMostTwo
PROPERTY EventuallyDone
\* The command ends once there is nothing left to do.
CHECK_DEADLOCK FALSE
