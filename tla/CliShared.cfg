\* Two terminals that answer the same session.
CONSTANTS
  c1 = c1
  c2 = c2
  q1 = q1
  q2 = q2
  q3 = q3
  t1 = t1
  t2 = t2
  Clients = {c1, c2}
  Sessions = {1}
  Questions = {q1, q2}
  Topics = {t1}
  TopicOf <- OneTopic
  Choices = {0}
  CorrectIndex <- RightForOne
  TestCount = 1
  AnyTopic = AnyTopic
  MaxCalls = 14
  MaxFaults = 1
  MaxSecond = 0
SPECIFICATION FairCliSpec
CHECK_DEADLOCK FALSE
INVARIANTS
  QuizRowsConsistent
  TopicRowsConsistent
  StudyRowsConsistent
  HeldRowsConsistent
PROPERTIES
  EverySessionCompletes
