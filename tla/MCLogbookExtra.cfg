CONSTANTS
  StepMax = 2
  ResumeMaxGap = 1
  ResumeBack = 0
  MaxRun = 2
  MaxLog = 0
  Programs <- MCMore
  Wiping = FALSE
  Glitches = FALSE
SPECIFICATION LogbookSpec
INVARIANT ExtraIsOfThisRun
