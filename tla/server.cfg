SPECIFICATION Spec
CONSTANTS
  Fds = {f1, f2}
  Ids = {a, b}
  Workers = {w1}
  None = None
  Slots = 1
  MaxUsers = 1
  MaxRequest = 1
  MaxDrift = 1
CONSTRAINT UpToARace
SYMMETRY Symmetry
INVARIANTS TypeOK TimerPerConnection CountMatchesOpen ExclusiveConn NoneStranded
PROPERTIES TickSpares
CHECK_DEADLOCK FALSE
