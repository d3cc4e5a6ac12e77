CONSTANTS
  Idle = Idle
  Busy = Busy
  Bodies <- MCBodies
  Segments = 3
  QueueLen = 1
  Total = 12
  Reserve = 6
  SegMin = 1
  SegStep = 1
  FrameNeed = 1
  SummarySize = 2
  Legacy = {0, 6}
  Browsing = TRUE
  Wiping = TRUE
  MaxFrames = 4
SPECIFICATION LogSpec
SYMMETRY MCSymmetry
INVARIANTS
  LogSound
  DownloadInOrder
PROPERTIES
  GrowsAtTheEnd
