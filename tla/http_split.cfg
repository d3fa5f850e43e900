SPECIFICATION Spec
CONSTANTS
  Conversations <- WellFormedSingle
  READ_BUFF_SIZE = 12
  HeadSizes = {1, 3}
  FileSizes = {0, 2}
INVARIANT NoRequestMeansIncomplete
CHECK_DEADLOCK FALSE
