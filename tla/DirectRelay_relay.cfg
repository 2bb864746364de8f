SPECIFICATION FairRelaySpec
CONSTANTS
  Chunks = 3
  MayReset = TRUE
INVARIANTS
  HalfCloseDelivers
PROPERTIES
  RelayEnds
