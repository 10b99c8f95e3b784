SPECIFICATION FairSpec
CONSTANTS
  Client = {c1}
  Interval = 1
  WaitInterval = 2
  MaxPlayer = 1
  QueueCap = 2
  Babblers = {c1}
  MaxListed = 2
PROPERTY SessionEnds
CHECK_DEADLOCK FALSE
