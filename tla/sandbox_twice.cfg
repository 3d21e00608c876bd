SPECIFICATION Spec
CONSTANTS
  Calls = {c1, c2, c3}
  MaxRuns = 3
  MaxFaults = 1
INVARIANTS
  OneCreatorAtATime
CHECK_DEADLOCK FALSE
