SPECIFICATION FairSpec
CONSTANTS
  Writers = {main, worker}
  LogThread = LogThread
  NoLine = NoLine
  m_max_size = 2
  m_split_lines = 1
  MaxLines = 3
  MaxDay = 2
INVARIANTS
  TypeOK
  EveryLineOnce
  WriterOrder
  FileLimit
PROPERTIES
  LinesArrive
CHECK_DEADLOCK FALSE
