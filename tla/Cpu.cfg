SPECIFICATION Spec
CONSTANTS
  WordMod = 256
  CounterMod = 3
  HighMod = 2
  MppUnit = 16
  NRegs = 2
  MVendorId = 240
  MIsa = 65
  InstructionCounts = {2}
  AluOps = {"add", "or", "and"}
  Alu <- MCAlu
  Extend <- MCExtend
  Decode <- MCDecode
  PeekReplies <- MCPeekReplies
  PokeReplies <- MCPokeReplies
INVARIANTS
  TypeOK
  TrapConfined
  CycleCounted
PROPERTIES
  CounterAdvances
  PreciseTraps
  StepReturns
CHECK_DEADLOCK TRUE
