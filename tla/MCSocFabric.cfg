SPECIFICATION Spec
CONSTANTS
  Ram = ram
  Apb = apb
  ErrSlv = errslv
  None = none
  Builds <- MCBuilds
INVARIANTS
  SlaveAccounting
  SlavesKeepContract
PROPERTIES
  EveryRequestServed
