SPECIFICATION Spec
CONSTANTS
  WORDS = 2
  Lanes = {0, 1}
  Values = {0, 1}
  ByteEnables = {{0}}
  RO = FALSE
  Garbage = 9
  Blank = 0
  IVL_RST = 1
  Intervals = {1}
  MaxUpsets = 2
  MaxResets = 1
  ExamineStruck = TRUE
PROPERTIES
  ScrubKeepsWords
