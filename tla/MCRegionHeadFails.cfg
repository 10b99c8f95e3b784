SPECIFICATION HeadFaultsSpec
CONSTANTS
  Chunk = {a, b}
  Size = {1, 2}
  Version = {v1}
  LastSector = 7
INVARIANT Durable
