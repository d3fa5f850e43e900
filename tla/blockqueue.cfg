CONSTANTS
  Items = {i1, i2, i3}
  NoItem = NoItem
  Consumers = {c1, c2}
  m_max_size = 3
SPECIFICATION Spec
SYMMETRY Symmetry
INVARIANTS TypeOK NoLostWakeup
PROPERTY ImplementsFifo
