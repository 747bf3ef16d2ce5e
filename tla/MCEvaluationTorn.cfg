SPECIFICATION FairSpec
CONSTANTS
  Sets <- MCSmallSet
  Answers = {"yes"}
  Split = {}
  Concurrency = 1
  MaxCrashes = 1
  MaxLines = 1
  Absent = Absent
  Torn = Torn
PROPERTY RunAgainAfterCrash
\* A torn report or checkpoint stops the command for good.
CHECK_DEADLOCK FALSE
