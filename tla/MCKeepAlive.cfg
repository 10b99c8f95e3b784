SPECIFICATION FairSpec
CONSTANTS
  Client = {c1, c2, c3}
  Babblers = {c3}
  Interval = 1
  WaitInterval = 2
  MaxPing = 3
INVARIANTS TypeOK IndexExact NobodyOverdue
PROPERTIES ImplementsContract EventuallyPinged EventuallyResolved
