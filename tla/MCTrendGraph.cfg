CONSTANTS
  Bucket = 2
  Capacity = 4
  MaxClock = 7
  MaxRuns = 2
  MaxCuts = 1
SPECIFICATION GraphSpec
INVARIANTS
  SeriesSound
  GraphIsOneRun
  FileFollowsGraph
