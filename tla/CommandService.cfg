SPECIFICATION Spec
CONSTANTS
  Conns = {1, 2}
  MaxTaken = 3
INVARIANTS
  DoneInOrder
  AnswersEarned
CHECK_DEADLOCK FALSE
