\* Two packs that both have a question q1.
CONSTANTS
  p1 = p1
  p2 = p2
  missing = missing
  q1 = q1
  q2 = q2
  q3 = q3
  Packs = {p1, p2}
  Imported = {p1, p2}
  Questions = {q1}
  Contents <- SameIds
  Limits = {1, 2}
  SkipTimeout = 3
  DeliveryInterval = 2
  Day = 2
  Intervals = {2, 3}
  MaxOverdue = 1
  MaxAnswers = 1
  MaxChanges = 1
  MaxFaults = 0
SPECIFICATION Spec
CHECK_DEADLOCK FALSE
PROPERTIES
  PacksIndependent
