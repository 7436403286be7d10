SPECIFICATION FairSpec
CONSTANTS
  e1 = e1
  Engines = {e1}
  MaxStarts = 3
  Length = 3
  PausePoints = {1, 3}
INVARIANT TypeOK
PROPERTIES HaltHolds Settles
