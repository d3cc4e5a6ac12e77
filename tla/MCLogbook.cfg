CONSTANTS
  StepMax = 1
  ResumeMaxGap = 1
  ResumeBack = 1
  MaxRun = 2
  MaxLog = 2
  Programs <- MCPrograms
  Wiping = TRUE
  Glitches = FALSE
SPECIFICATION LogbookSpec
INVARIANTS
  RunsAreAccountedFor
  PhaseTimeIsReal
