SPECIFICATION Spec
CONSTANTS
  Timers = {t1, t2, t3, t4, t5}
  NULL = NULL
  MaxTime = 3
SYMMETRY Symmetry
INVARIANTS
  TypeOK
  WellLinked
PROPERTY ImplementsTimerSet
