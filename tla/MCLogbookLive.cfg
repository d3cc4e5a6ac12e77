CONSTANTS
  StepMax = 2
  ResumeMaxGap = 1
  ResumeBack = 0
  MaxRun = 1
  MaxLog = 1
  Programs <- MCCut
  Wiping = FALSE
  Glitches = FALSE
SPECIFICATION FairSpec
PROPERTIES
  ParkedIsTaken
  OpenIsDecided
