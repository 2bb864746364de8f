SPECIFICATION FairSpec
CONSTANTS
  Chunks <- MCChunks
  WireCap = 1
  Faults = {"conn", "timer", "reset", "connect"}
INVARIANTS
  LosesAtMostLast
  InOrder
  TableExact
PROPERTIES
  StreamEnds
