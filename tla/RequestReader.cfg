CONSTANTS
  listener = listener
  invocation = invocation
  line = line
  Readers <- MCReaders
  Kinds <- MCKinds
  Wants <- MCWants
  Timed <- MCTimed
  Scoped <- MCScoped
  MaxLines = 2
  Closers = {"loop", "ext"}
  None = None
  NoReader = NoReader
SPECIFICATION FairSpec
CHECK_DEADLOCK FALSE
INVARIANTS InOrder NothingMissed AtMostOneLate NobodyStranded
PROPERTY ClosedReaderEnds
