CONSTANTS
  Stale = 1
  MaxStarts = 2
  MaxSize = 2
  MaxClock = 3
SPECIFICATION Spec
INVARIANT ReadingsAreKept
