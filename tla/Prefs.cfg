\* Three commands at once.
CONSTANTS
  c1 = c1
  c2 = c2
  c3 = c3
  p1 = p1
  p2 = p2
  Clients = {c1, c2, c3}
  Packs = {p1, p2}
  Keys = {"max_unanswered", "notify_weak_topic_pct"}
  Values = {0, 3, 50}
  Defaults <- SomeDefaults
  MaxCommands = 4
  MaxFaults = 1
SPECIFICATION Spec
CHECK_DEADLOCK FALSE
SYMMETRY ClientSymmetry
INVARIANTS
  TypeOK
  RowsUsable
  OnlyOverlapsAreLost
  ChangesTakeEffect
