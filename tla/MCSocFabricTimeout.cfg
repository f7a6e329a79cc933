SPECIFICATION Spec
CONSTANTS
  Ram = ram
  Apb = apb
  ErrSlv = errslv
  None = none
  Builds <- MCTimeoutBuilds
PROPERTIES
  FetchSurvivesTimeout
