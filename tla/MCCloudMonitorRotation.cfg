SPECIFICATION FairSpec
CONSTANTS
  Life <- MCLifeUnreadable
  Existing = {1, 2, 3}
  Inventories <- MCOneInventory
  Bootstrap <- MCBootstrap
  ActiveStatuses <- MCStatuses
  RECENT = 0
  QUOTA = 1
  SLICE = 1
PROPERTIES
  BackfillNotStarved
