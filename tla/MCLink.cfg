CONSTANTS
  UsbTask = UsbTask
  MainLoop = MainLoop
  Web = Web
  NoSender = NoSender
  Senders = {UsbTask, MainLoop, Web}
  FifoCap = 1
  Hello <- MCHello
  Reask <- MCReask
  Timeout = 1
  LoopAge = 1
SPECIFICATION Spec
INVARIANTS
  IntroductionSound
  ChoiceStands
PROPERTIES
  OnlyALateSenderLeavesAFrame
