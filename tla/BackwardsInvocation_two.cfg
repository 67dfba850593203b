CONSTANTS
  call1 = call1
  call2 = call2
  Invocations <- MCInvocations
  Methods <- MCHandedOn
  MaxInvocationTimeout = 1
  MaxLines = 2
  Closers = {"loop"}
  None = None
  NoReader = NoReader
SPECIFICATION Spec
CHECK_DEADLOCK FALSE
SYMMETRY CallSymmetry
PROPERTIES ImplementsChannel TimeoutOnlyWhenDrained
