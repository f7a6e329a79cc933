SPECIFICATION Spec
CONSTANTS
  CoreSites <- MCCoreSites
  NpuSites <- MCNpuSites
  Regions <- MCRegions
  Seeded <- MCSeeded
  Draws = 1
  Window <- MCWindow
  Workers = 2
  Tries = 2
  Records <- MCRecords
  ControlRecords <- MCControlRecords
  Dumps <- MCDumps
  Directed <- MCDirected
CHECK_DEADLOCK FALSE
INVARIANTS
  RecordsAreEvidence
  NetlistSound
  MappingSound
  VerdictsCoherent
  ReplayAgrees
  GoldenSound
  ReleaseSound
  PhysicalSound
PROPERTIES
  CampaignEnds
