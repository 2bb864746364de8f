SPECIFICATION Spec
CONSTANTS
  a = a
  b = b
  c = c
  Clients = {a, b, c}
  ConnNum <- MCConnNum
  Port <- MCPort
  Dst <- MCDst
  MaxSessions = 3
  MaxStreams = 1
  MaxIds = 3
INVARIANTS
  TablesAgree
  NoLeakedListener
PROPERTIES
  TunnelKept
