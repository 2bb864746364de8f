SPECIFICATION FairSpec
CONSTANTS
  N = 2
  MaxConns = 3
  MaxRetires = 1
  MaxFails = 1
  Chunks = 0
INVARIANTS
  SlotsExact
  SessionExact
PROPERTIES
  RetiredCloses
  SlotsRefill
