SPECIFICATION BusSpec
CONSTANTS
  WordMod = 256
  CounterMod = 2
  HighMod = 1
  Devices <- MCDevices
  Kind <- MCKind
  Base <- MCBase
  Size <- MCSize
  NoDevice = "null"
  MaxDevices = 4
INVARIANTS
  BusTypeOK
  ListedOnce
  OverlapEncloses
PROPERTIES
  MemoryKept
CHECK_DEADLOCK TRUE
