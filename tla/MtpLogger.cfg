SPECIFICATION LoggerSpec
CONSTANTS
  MAXBUF = 3
  OnTime = 2
  MaxBlocks = 5
  MaxTime = 2
  MaxTyped = 4
INVARIANTS InOrder BlocksAccounted OnlySinceStart
PROPERTY QuitStops
