CONSTANTS
  call1 = call1
  call2 = call2
  Invocations = {call1}
  Methods <- MCAnswered
  MaxInvocationTimeout = 2
  MaxLines = 3
  Closers = {"loop", "ext"}
  None = None
  NoReader = NoReader
SPECIFICATION FairSpec
CHECK_DEADLOCK FALSE
INVARIANT ValueIsAnswered
PROPERTIES  ReaderReleased
