SPECIFICATION FairSpec
CONSTANTS
  Fds = {f1}
  Ids = {a, b}
  Workers = {w1}
  None = None
  Slots = 1
  MaxUsers = 1
  MaxRequest = 1
  MaxDrift = 0
INVARIANTS NoDanglingTimer
PROPERTIES IdleReaped
CHECK_DEADLOCK FALSE
