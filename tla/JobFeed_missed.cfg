CONSTANTS
  None = None
  QueueLimit = 2
  MaxMoves = 2
  MaxFaults = 1
SPECIFICATION FairSpec
PROPERTY MissedEventsRecovered
CHECK_DEADLOCK FALSE
