SPECIFICATION FairSpec
CONSTANTS
  Conversations <- All
  READ_BUFF_SIZE = 12
  HeadSizes = {1, 3}
  FileSizes = {0, 2}
INVARIANTS
  TypeOK
  OutcomeRight
  StallsOnCutBodyOnly
  SentIsResponse
PROPERTIES
  IsAnswered
  WriteEnds
  ImplementsExchange
CHECK_DEADLOCK FALSE
