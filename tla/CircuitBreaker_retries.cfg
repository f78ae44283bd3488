SPECIFICATION Spec
CONSTANTS
  c1 = c1  c2 = c2
  Calls = {c1}
  Threshold = 2
  ResetTimeout = 1
  MaxAttempts = 2
  MaxGlitches = 1
INVARIANTS RetriesAsDocumented
