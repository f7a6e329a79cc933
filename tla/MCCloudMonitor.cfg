SPECIFICATION FairSpec
CONSTANTS
  Life <- MCLife
  Existing = {1, 2}
  Inventories <- MCInventories
  Bootstrap <- MCBootstrap
  ActiveStatuses <- MCStatuses
  RECENT = 1
  QUOTA = 1
  SLICE = 1
INVARIANTS
  ClaimsAreHonest
  UnchangedIsUnchanged
PROPERTIES
  RowsAreEvidence
  HistoryPreserved
  BackfillNotStarved
