SPECIFICATION FairSpec
CONSTANTS
  c1 = c1  c2 = c2
  Calls = {c1, c2}
  Threshold = 3
  ResetTimeout = 2
  MaxAttempts = 2
  MaxGlitches = 2
INVARIANTS TypeOK OpenIffThreshold HalfOpenOnlyWhenDue
PROPERTIES BreakerRecovers StatesSpec
