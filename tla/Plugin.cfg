CONSTANTS
  Workers = {w1, w2}
  Sessions = {s1, s2}
  Plugins <- MCPlugins
  Requests <- MCRequests
  ChunkSize = 2
  BlobLengths = {0, 2, 3}
  None = None
SPECIFICATION Spec
CHECK_DEADLOCK FALSE
SYMMETRY WorkerSymmetry
INVARIANTS OwnSession NoTimingRace RightCode AnnouncedIsServed PiecesReassemble
