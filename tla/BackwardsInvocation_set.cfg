CONSTANTS
  call1 = call1
  call2 = call2
  Invocations = {call1}
  Methods <- MCStorageSet
  MaxInvocationTimeout = 1
  MaxLines = 1
  Closers = {"loop"}
  None = None
  NoReader = NoReader
SPECIFICATION Spec
CHECK_DEADLOCK FALSE
INVARIANT ValueIsAnswered
