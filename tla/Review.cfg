\* Every history of up to 11 reviews of a question, early or late.
CONSTANTS
  MaxReviews = 11
  MaxNow = 200
SPECIFICATION Spec
CHECK_DEADLOCK FALSE
INVARIANTS
  RepsCountTheRun
  Ladder
PROPERTIES
  CorrectNeverBringsForward
