CONSTANTS
  Names = {n1, n2}
  Passwords = {p1, p2, Empty}
  Empty = Empty
  Absent = Absent
  Workers = {w1, w2, w3}
SPECIFICATION Spec
SYMMETRY Symmetry
INVARIANTS TypeOK MapMatchesTable RegisteredCanLogin
PROPERTIES NameRegisteredOnce LoginChecksTable
