SPECIFICATION Spec
CONSTANTS
  Element <- Characters
  MaxElements = 5
  InitialCapacity = 1
  MemoryFails = TRUE
  MaxLost = 1
INVARIANTS InsideBlock DecodesRight HashFindsKey ImplementsScan
CHECK_DEADLOCK FALSE
