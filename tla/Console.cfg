SPECIFICATION ConsoleSpec
CONSTANTS
  UartBase = 64
  LineLimit = 3
  NUL = NUL
  NewLine = NewLine
  WireBase = 128
  NrInputs = 3
  NrOutputs = 3
  WireValues = {0, 7}
  AllOnes = AllOnes
  NoRegister = NoRegister
  TitleText = TitleText
  InputsText = InputsText
  OutputsText = OutputsText
  WireInputText = WireInputText
  ValueText = ValueText
  SettingText = SettingText
INVARIANTS
  ConsoleTypeOK
  Transcript
  OutputsWritten
  OutputsAnnounced
PROPERTIES
  GetsThrough
