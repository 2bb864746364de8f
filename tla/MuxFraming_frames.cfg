SPECIFICATION FairSpec
CONSTANTS
  MaxLen = 1
  BufCap = 5
  Events = 2
  Encrypted = TRUE
INVARIANTS
  WholeFrames
  AllAccounted
  NoDecryptError
PROPERTIES
  EventsArrive
