CONSTANTS
  w1 = w1
  w2 = w2
  Writers = {w1}
  ReconnectAttempts = 2
  Registrations = 1
  CancelDuring = {"send", "launch"}
  MaxSockets = 3
  MaxPieces = 2
SPECIFICATION FairSpec
CHECK_DEADLOCK FALSE
INVARIANTS LinesIntact NoSocketLeak
PROPERTIES RecoversOrCloses WriteEnds
