SPECIFICATION Spec
CONSTANTS
  FixedLen = 2
  a = a
  b = b
  Conns = {a, b}
  Kinds <- MCKinds
  PoolMax = 1
INVARIANTS
  RelaysOwnBytes
  TargetRequested
  WholeIsServed
  BuffersExact
