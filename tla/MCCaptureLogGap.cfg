CONSTANTS
  Idle = Idle
  Busy = Busy
  Bodies <- MCBodies
  Segments = 3
  QueueLen = 1
  Total = 6
  Reserve = 3
  SegMin = 1
  SegStep = 1
  FrameNeed = 1
  SummarySize = 1
  Legacy = {0}
  Browsing = TRUE
  Wiping = FALSE
  MaxFrames = 5
SPECIFICATION LogSpec
SYMMETRY MCSymmetry
INVARIANTS
  DownloadContinuous
