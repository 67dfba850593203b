CONSTANTS
  tool = tool
  model = model
  embedding = embedding
  None = None
  Requests <- MCRequests
  Serves <- MCServes
  MaxWorkers = 2
  MaxItems = 1
  MaxIdle = 2
  MaxChunks = 3
  EndMarker = EndMarker
SPECIFICATION FairServerSpec
CHECK_DEADLOCK FALSE
INVARIANTS OutcomeReported GeneratorClosed MarkerMeansComplete NothingAfterClose NoOrphanTask
PROPERTIES  ResponseEnds
