SPECIFICATION Spec
CONSTANTS
  Fds = {f1}
  Ids = {a, b}
  Workers = {w1}
  None = None
  Slots = 1
  MaxUsers = 1
  MaxRequest = 1
  MaxDrift = 0
PROPERTIES
  TickClosesOnlyInactive
CHECK_DEADLOCK FALSE
