\* The scheduler runs for ever; answers, changes and failures stop at some point.
CONSTANTS
  p1 = p1
  p2 = p2
  missing = missing
  q1 = q1
  q2 = q2
  q3 = q3
  Packs = {p1, p2, missing}
  Imported = {p1, p2}
  Questions = {q1, q2, q3}
  Contents <- ThreeQuestions
  Limits = {1, 2}
  SkipTimeout = 3
  DeliveryInterval = 1
  Day = 1
  Intervals = {1}
  MaxOverdue = 0
  MaxAnswers = 1
  MaxChanges = 1
  MaxFaults = 1
SPECIFICATION FairSpec
CHECK_DEADLOCK FALSE
INVARIANTS
  TypeOK
  PendingOnce
PROPERTIES
  PendingWithinLimit
  SkipsAreTimeouts
  EveryDeliveryIsSettled
  DeliveryGoesOn
