CONSTANTS
  Screens <- MCScreens
  Timeout = 1
  Tries = 3
  Lock = 2
  Half = 4
  Stall = 1
  MaxSeq = 2
SPECIFICATION Spec
INVARIANTS
  CounterSound
  CommandIsTimely
  SwitchHolds
  GuessesThrottled
