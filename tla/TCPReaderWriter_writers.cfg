CONSTANTS
  w1 = w1
  w2 = w2
  Writers <- MCWriters
  ReconnectAttempts = 2
  Registrations = 1
  CancelDuring = {"send"}
  MaxSockets = 2
  MaxPieces = 1
SPECIFICATION Spec
CHECK_DEADLOCK FALSE
SYMMETRY WriterSymmetry
INVARIANTS WellFormedStreams AtMostOnce
PROPERTIES HealthySocketKept GivenUpOnlyWhenExhausted
