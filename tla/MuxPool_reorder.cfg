SPECIFICATION Spec
CONSTANTS
  N = 2
  MaxConns = 3
  MaxRetires = 1
  MaxFails = 0
  Chunks = 2
INVARIANTS
  StreamInOrder
