SPECIFICATION Spec
CONSTANTS
  h1 = h1
  h2 = h2
  b1 = b1
  n1 = n1
  n2 = n2
  Specs = {h1, h2, b1, n1, n2}
  EngineOf <- MCEngineOf
  Resolutions <- MCResolutions
  Bad = {b1}
  None = None
  Pids = {1, 2, 3}
  MaxEdits = 1
  MaxFaults = 2
  MaxSleepers = 1
  ExitsUnseen = FALSE
  CancelsInTime = TRUE
INVARIANTS StatusHonest SingleEngine
PROPERTIES LandsInOrder Converges
CHECK_DEADLOCK FALSE
