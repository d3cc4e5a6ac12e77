CONSTANTS
  Bucket = 2
  Capacity = 4
  MaxClock = 5
  MaxRuns = 1
  MaxCuts = 1
SPECIFICATION GraphSpec
INVARIANTS
  StoredRunIsThere
