CONSTANTS
  Inputs <- MCInputs
  Scale = 12
SPECIFICATION Spec
INVARIANTS SearchIsSound AnswersAreSound IndexIsSound NumbersAreSound ClientsAreBounded
           RequestsAreConfined
\* Every call is over at once: nothing is left to do.
CHECK_DEADLOCK FALSE
