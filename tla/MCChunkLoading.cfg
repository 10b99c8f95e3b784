SPECIFICATION FairSpec
CONSTANTS
  Client = {c1, c2}
  Slow = {c1}
  Movers = {c1}
  Editor = {e1}
  Center <- MCCenter
  Offsets <- MCOffsets
  Editable <- MCEditable
INVARIANTS TypeOK ViewersMatchLoaders NeverPanics CopiesCurrent
PROPERTY ChunksArrive
