SPECIFICATION Spec
CONSTANTS
  COUNT_MAX = 1
  PRESCALE = 2
  RST_CYCLES = 2
  ESCALATE = 2
  RST_CNT_MAX = 3
  TMR_CNT_MAX = 1
  KICK_MAX = 1
  Counts <- MCFewCounts
  Windows <- MCFewWindows
  Struck <- MCStruck
  PinMoves = FALSE
  MaxUpsets = 2
INVARIANTS
  DisarmedOnlyByPin
PROPERTIES
  WarningBeforeReset
  FreshBoot
  HungCoreIsReset
  EscalatesInTheEnd
  EvidenceSurvives
  UpsetNeverActs
