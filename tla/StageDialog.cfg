CONSTANTS
  q1 = q1
  q2 = q2
  Questions <- MCQuestions
  MaxRounds = 3
  MaxCommands = 2
  None = None
SPECIFICATION Spec
SYMMETRY Symmetry
INVARIANTS DialogIsBounded AnswersAreHeard NothingPassedOver
CHECK_DEADLOCK FALSE
