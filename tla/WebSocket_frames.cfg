SPECIFICATION Spec
CONSTANTS
  Messages <- MCMessages
  MaskKeys <- MCMaskKeys
  SmallMax = 2
  MediumMax = 4
  ReadCap = 7
  Room = 6
INVARIANTS
  MessagesExact
  SwallowsNothing
PROPERTIES
  MessagesArrive
