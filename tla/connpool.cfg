SPECIFICATION Spec
CONSTANTS
  Threads = {t1, t2, t3, t4, t5}
  Conns = {c1, c2, c3}
  Null = Null
SYMMETRY Symmetry
INVARIANTS
  TypeOK
  FrontExists
  Exclusive
  WaitsForAHolder
