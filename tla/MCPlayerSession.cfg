SPECIFICATION Spec
CONSTANTS
  Client = {c1, c2}
  Interval = 1
  WaitInterval = 2
  MaxPlayer = 1
  QueueCap = 2
  Babblers = {c2}
  MaxListed = 2
INVARIANTS TypeOK NothingLeftBehind WorldIsSupervised
PROPERTY ImplementsContract
CHECK_DEADLOCK FALSE
