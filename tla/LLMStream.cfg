SPECIFICATION Spec
CONSTANTS
  Configs <- MCConfigs
  NumCalls = 2
  MaxEvents = 4
  None = None
CHECK_DEADLOCK FALSE
INVARIANTS
  ThinkTagsWellNested
  ToolCallsAssembled
  FinalChunkTellsAll
  ResponseReleased
