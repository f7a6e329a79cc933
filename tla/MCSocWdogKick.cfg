SPECIFICATION Spec
CONSTANTS
  COUNT_MAX = 3
  PRESCALE = 2
  RST_CYCLES = 2
  ESCALATE = 2
  RST_CNT_MAX = 3
  TMR_CNT_MAX = 1
  KICK_MAX = 1
  Counts <- MCCounts
  Windows <- MCWindows
  Struck <- MCStruck
  PinMoves = FALSE
  MaxUpsets = 0
PROPERTIES
  KickWarningIsFull
