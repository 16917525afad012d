\* Two packs, quiet hours within a day, over midnight and around the clock,
\* and failures.
CONSTANTS
  Packs = {"p1", "p2"}
  Questions <- TwoPacks
  PrefValues <- Windows
  MaxUnanswered = 1
  DayLength = 3
  SkipTimeout = 2
  Intervals = {2}
  Milestones = {2}
  StreakAtRisk = 1
  MaxAge = 5
  MaxAttempts = 1
  MaxChanges = 1
  MaxErrors = 1
SPECIFICATION FairSpec
CHECK_DEADLOCK FALSE
INVARIANTS
  TypeOK
PROPERTIES
  QuietAtNight
  RemindersAreTrue
  MilestonesThatStay
