CONSTANTS
  MaxFrame = 11
  LongCap = 14
  Radix = 4
  MaxVerb = 6
  MaxFields = 2
  NameMax = 8
  FileBlock = 3
  NonceLen = 1
  SumLen = 1
  Frames <- MCFrames
  MaxFaults = 2
SPECIFICATION StreamSpec
INVARIANTS
  InsideBuffers
  FramesArrive
