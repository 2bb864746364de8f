SPECIFICATION Spec
CONSTANTS
  Writers = {w1, w2, w3, w4}
  MaxCalls = 6
  EncryptMayFail = TRUE
SYMMETRY WriterSymmetry
INVARIANTS
  WriteInv
  WireInOrder
  WriteExclusive
  NoLostWakeup
  WaitCountExact
