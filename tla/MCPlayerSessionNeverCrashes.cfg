SPECIFICATION FairSpec
CONSTANTS
  Client = {c1}
  Interval = 1
  WaitInterval = 2
  MaxPlayer = 1
  QueueCap = 2
  Babblers = {}
  MaxListed = 2
INVARIANT NeverCrashes
CHECK_DEADLOCK FALSE
