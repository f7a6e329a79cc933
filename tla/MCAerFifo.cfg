SPECIFICATION Spec
CONSTANTS
  DEPTH = 2
  DROP_MAX = 2
  MaxStruck = 1
  Data <- MCData
  Zero = 0
  Parity <- MCParity
INVARIANTS
  TypeOK
  MaskedState
PROPERTIES
  ImplementsQueue
