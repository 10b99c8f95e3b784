SPECIFICATION Spec
CONSTANTS
  Chunk = {a, b, c}
  Size = {1, 2}
  Version = {v1, v2}
  LastSector = 9
VIEW View
INVARIANTS TypeOK AllocationExact Durable ReadsBack
