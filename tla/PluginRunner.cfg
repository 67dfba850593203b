SPECIFICATION FairSpec
CONSTANTS
  i1 = i1
  i2 = i2
  None = None
  Invokers <- MCInvokers
  Pieces = 2
  PipeSize = 1
  MaxAnswers = 1
  MaxNoise = 2
CHECK_DEADLOCK FALSE
INVARIANTS AnswersAreOwn NothingLeft
PROPERTIES InvocationEnds CloseReturns
