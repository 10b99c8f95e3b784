SPECIFICATION Spec
CONSTANTS
  Client = {c1, c2}
  Babblers = {}
  Interval = 2
  WaitInterval = 4
  MaxPing = 0
PROPERTY KickOnlyExpired
