SPECIFICATION RecoverySpec
CONSTANTS
  COUNT_MAX = 1
  PRESCALE = 3
  RST_CYCLES = 2
  ESCALATE = 2
  RST_CNT_MAX = 3
  TMR_CNT_MAX = 1
  KICK_MAX = 1
  Counts = {}
  Windows = {}
  Struck <- MCStruck
  PinMoves = TRUE
  MaxUpsets = 1
  Straps <- MCWord
  NoStrap = 0
  CNT_MAX = 3
  BOOT_TMR_MAX = 1
  LIMIT = 3
  Reports <- MCWord
  NoReport = 0
  Pcs <- MCPcs
  NoPc = 0
  BootStruck <- MCBootStruck
INVARIANTS
  CountersAgree
  GivesUpLast
  SamplesAgree
PROPERTIES
  RecordsSurvive
  ResetIsWhole
  LoopTerminates
