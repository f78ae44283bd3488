SPECIFICATION FairSpec
CONSTANTS
  o1 = o1  o2 = o2
  Ops = {o1, o2}
  Start <- Ring
  Near <- NearA
  MaxSelected = 2
  MaxEdits = 2
  MaxFaults = 1
  MaxUndo = 2
  MaxIds = 8
CHECK_DEADLOCK FALSE
INVARIANTS TypeOK PendingCoversSaves RoundTrip CacheAgrees
PROPERTIES UndoEnds
