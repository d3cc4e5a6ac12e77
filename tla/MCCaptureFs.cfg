CONSTANTS
  Main = Main
  Writer = Writer
  Httpd = Httpd
  Reboot = Reboot
  MountTask = MountTask
  NoTask = NoTask
  Gated <- MCGated
  Locking <- MCLocking
SPECIFICATION FairSpec
INVARIANTS
  Guarded
  ClosedByCloser
  FormatFindsNobody
PROPERTIES
  TornDownAlone
  RestartHappens
  FormatEnds
CHECK_DEADLOCK TRUE
