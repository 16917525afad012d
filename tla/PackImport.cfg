\* A pack imported up to four times, before and during a session.
CONSTANTS
  Files <- SomeFiles
  MaxImports = 4
  MaxDeaths = 1
SPECIFICATION FairSpec
CHECK_DEADLOCK FALSE
INVARIANTS
  TypeOK
  JudgedAsShown
PROPERTIES
  SessionGoesOn
