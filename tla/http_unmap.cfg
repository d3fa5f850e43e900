SPECIFICATION Spec
CONSTANTS
  Conversations <- All
  READ_BUFF_SIZE = 12
  HeadSizes = {1, 3}
  FileSizes = {0, 2}
INVARIANT NothingMapped
CHECK_DEADLOCK FALSE
