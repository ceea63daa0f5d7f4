CONSTANTS
  Stale = 0
  MaxStarts = 2
  MaxSize = 3
  MaxClock = 2
SPECIFICATION FairSpec
INVARIANTS TypeOK 
PROPERTY StallIsNoticed
