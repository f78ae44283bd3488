CONSTANTS
  None = None
  QueueLimit = 1
  MaxMoves = 2
  MaxFaults = 1
SPECIFICATION FairSpec
INVARIANTS TypeOK LastWordAgrees EndShownIsEnd
PROPERTY CreatorLearnsEnd
CHECK_DEADLOCK FALSE
