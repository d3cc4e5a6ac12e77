CONSTANTS
  SegMax = 2
  FilesFail = TRUE
  Wiping = TRUE
  Overlap = 1
  MaxRec = 7
  MaxCuts = 3
SPECIFICATION Spec
INVARIANTS
  LogbookSound
  DownloadOldestFirst
CHECK_DEADLOCK FALSE
