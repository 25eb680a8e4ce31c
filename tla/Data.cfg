SPECIFICATION DataSpec
CONSTANTS
  XLen = 4
  BitAnd <- MCAnd
  BitOr <- MCOr
  BitXor <- MCXor
  ByteMod = 2
  MemoryBase = 4
  MemorySize = 8
  MmioAddresses = {12, 13, 14, 15}
  MmioValues = {9}
INVARIANTS
  DataTypeOK
  DivisionContract
  WideProducts
  ShiftsAndOrder
  LoadsMean
PROPERTIES
  OneMemory
\* an assertion ends the process
CHECK_DEADLOCK FALSE
