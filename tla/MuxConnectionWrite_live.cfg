SPECIFICATION FairSpec
CONSTANTS
  Writers = {w1, w2, w3}
  MaxCalls = 5
  EncryptMayFail = FALSE
INVARIANTS
  NoStaleToken
PROPERTIES
  EveryWriteReturns
  LogSpec
