SPECIFICATION SysSpec
CONSTANTS
  WordMod = 256
  CounterMod = 32
  HighMod = 4
  MppUnit = 16
  NRegs = 8
  MVendorId = 240
  MIsa = 65
  InstructionCounts = {4, 12}
  AluOps = {"add", "or", "and", "xor", "sltu"}
  Alu <- MCAlu
  Extend <- MCExtend
  Decode <- MCDecode
  PeekReplies <- AnyReply
  PokeReplies <- AnyReply
  TimerStep = 10
  MatchL = 68
  MatchH = 72
  TimerL = 76
  TimerH = 80
  ClntBase = 64
  ClntSize = 20
  SysconBase = 96
  PowerOffCode = 85
  RebootCode = 119
  LuaBase = 112
  LuaSize = 4
  LuaValues = {0}
  RamBytes = 96
  Images <- MCImages
  HostCalls = {"SetInstructionCount"}
  LuaCalls = {}
PROPERTIES
  TimerNeverEarly
  NotBeforeDeadline
CHECK_DEADLOCK TRUE
