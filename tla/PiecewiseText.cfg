SPECIFICATION Spec
CONSTANTS
  CODE_FENCE_BACKTICK_COUNT = 3
  Alphabets <- MCAlphabets
  MaxText = 8
  MaxPiece = 3
  MaxChunks = 4
CHECK_DEADLOCK FALSE
INVARIANTS
  EventsOfTheWholeText
  FenceStripped
