SPECIFICATION FairWheelSpec
CONSTANTS
  Tasks = {a, b}
  Active = {a}
  SlotMs = 2
  Slots = 4
  Period = 3
  Late = {0, 1}
  TimeoutMs = 5
  Extra = 3
  Second = 4
  Steps = {1}
  MaxStall = 3
  Clock = 8
  Cap = 12
INVARIANTS
  OnlyIdleFires

  
