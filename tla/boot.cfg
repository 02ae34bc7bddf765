SPECIFICATION Spec
CONSTANTS
  address <- MCAddress
  MaxSectors = 2
  MaxTicks = 3
INVARIANTS
  GatesReady
  StopsOnlyInHal
PROPERTIES
  Boots
