CONSTANTS
  TrialTime = 3
  Pieces = 3
  MaxStalls = 2
  FlashFails = TRUE
  MaxUploads = 4
SPECIFICATION FairSpec
INVARIANTS
  SlotsSound
PROPERTIES
  TrialIsDecided
