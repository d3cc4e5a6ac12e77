CONSTANTS
  Clients = {c1, c2}
  Null = Null
  Depth = 1
  Stale = 1
  LoopAge = 1
SPECIFICATION FairSpec
INVARIANTS
  ShownRunIsReal
  ClientsSound
PROPERTIES
  BrokerChangeEnds
  StatusSettles
