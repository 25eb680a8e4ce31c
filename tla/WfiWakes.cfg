SPECIFICATION SysSpec
CONSTANTS
  WordMod = 256
  CounterMod = 8
  HighMod = 2
  MppUnit = 16
  NRegs = 5
  MVendorId = 240
  MIsa = 65
  InstructionCounts = {3}
  AluOps = {"add", "or", "and", "xor"}
  Alu <- MCAlu
  Extend <- MCExtend
  Decode <- MCDecode
  PeekReplies <- AnyReply
  PokeReplies <- AnyReply
  TimerStep = 2
  MatchL = 68
  MatchH = 72
  TimerL = 76
  TimerH = 80
  ClntBase = 64
  ClntSize = 20
  SysconBase = 96
  PowerOffCode = 85
  RebootCode = 119
  LuaBase = 112
  LuaSize = 4
  LuaValues = {0}
  RamBytes = 96
  Images <- SleepingOnly
  HostCalls = {}
  LuaCalls = {}
PROPERTIES
  WfiWakes
CHECK_DEADLOCK TRUE
