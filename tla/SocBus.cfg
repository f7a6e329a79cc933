\* Two slave ports and the error slave: enough for a master to switch target,
\* for both masters to fill one slave, and for all four requests to wait at it.
SPECIFICATION Spec
CONSTANTS
  Slave = {ram, apb}
  Slave0 = ram
  ErrSlv = errslv
  None = none
INVARIANTS
  Bookkeeping
  ResponsesRouted
  BoundedOvertaking
PROPERTIES
  GateSafe
