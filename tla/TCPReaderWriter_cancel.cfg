CONSTANTS
  w1 = w1
  w2 = w2
  Writers = {w1}
  ReconnectAttempts = 2
  Registrations = 1
  CancelDuring = {"send", "launch"}
  MaxSockets = 2
  MaxPieces = 0
SPECIFICATION Spec
CHECK_DEADLOCK FALSE
PROPERTY GivenUpOnlyWhenExhausted
