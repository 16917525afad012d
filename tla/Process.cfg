\* A process from its start to its end, the user sending three buttons and two
\* commands to channels of two.
CONSTANTS
  Buttons <- ThreeButtons
  Commands <- TwoCommands
  Others = {}
  Buffer = 1
  Capacity = 2
SPECIFICATION FairSpec
ACTION_CONSTRAINT NamedInOrder
CHECK_DEADLOCK FALSE
INVARIANTS
  EventsInOrder
  StoreOpenWhileUsed
PROPERTIES
  SpinnersAreSeenTo
  CancelEnds
  SignalEnds
