CONSTANTS
  NoName = NoName
  Short = Short
  Big = Big
  Gone = Gone
  Csv = Csv
  Log = Log
  BlockSize = 2
  Retries = 1
  ReplyMs = 1
  IdleMs = 1
  RingCap = 5
  SizeMax = 5
  TakeCap = 3
  ListMax = 1
  NetBound = 2
  FileSize <- MCFiles
  Grown <- MCGrown
  Unknown = {Gone}
  Matches <- MCListing
SPECIFICATION FairSpec
INVARIANTS
  RingSound
  ListIsTheDryers
PROPERTIES
  FetchesTheFile
  AsksOnlyWhenAllowed
  TransferEnds
