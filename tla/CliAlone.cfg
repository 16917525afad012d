\* One terminal that may die at any point; interrupted sessions are resumed.
CONSTANTS
  c1 = c1
  c2 = c2
  q1 = q1
  q2 = q2
  q3 = q3
  t1 = t1
  t2 = t2
  Clients = {c1}
  Sessions = {1, 2}
  Questions = {q1, q2}
  Topics = {t1}
  TopicOf <- OneTopic
  Choices = {0, 1}
  CorrectIndex <- FirstChoice
  TestCount = 1
  AnyTopic = AnyTopic
  MaxCalls = 7
  MaxFaults = 2
  MaxSecond = 1
SPECIFICATION CliSpec
CHECK_DEADLOCK FALSE
INVARIANTS
  AtMostOneAttempt
  ScoreAgrees
  FailuresCostOneAnswer
PROPERTIES
  AnswersAreFinal
