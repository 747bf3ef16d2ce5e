CONSTANTS
  s1 = s1
  p1 = p1
  Streams = {s1}
  Plain = {p1}
  DailyLimit = 1
  MaxTokens = 2
  MaxDays = 1
  MaxCrashes = 1
SPECIFICATION FairSpec
INVARIANT EndsWithOutcome
INVARIANT DoneIsComplete
INVARIANT NothingRunsForNobody
INVARIANT SoftCap
PROPERTY ImplementsProtocol
PROPERTY GoneClientStopsWork
PROPERTY EveryQuestionIsAnswered
\* Every request has been answered or refused: nothing is left to do.
CHECK_DEADLOCK FALSE
