\* One client of the database, any call of the engine, failures between writes.
CONSTANTS
  q1 = q1
  q2 = q2
  t1 = t1
  t2 = t2
  c1 = c1
  c2 = c2
  Clients = {c1}
  Sessions = {1, 2}
  Questions = {q1, q2}
  Topics = {t1}
  TopicOf <- OneTopic
  Choices = {0, 1}
  CorrectIndex <- FirstChoice
  TestCount = 1
  AnyTopic = AnyTopic
  MaxCalls = 4
  MaxFaults = 1
  MaxSecond = 1
SPECIFICATION Spec
CHECK_DEADLOCK FALSE
INVARIANTS
  TypeOK
  WritesInOrder
  BooksAgree
  EndedIsClosed
  AckedAnswersKept
PROPERTIES
  ImplementsSheet
