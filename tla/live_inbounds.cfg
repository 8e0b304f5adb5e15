SPECIFICATION FairSpec
CONSTANTS
  Sockets = {s1, s2}
  Handlers = {h1}
  Job = job
  Idle = Idle
  Reading = Reading
  NoRows = NoRows
  SendBuffer = 1
  HubBuffer = 1
  MaxVersion = 1
  MaxFaults = 1
  MaxLoads = 1
PROPERTIES CatchesUp DeadForgotten
CHECK_DEADLOCK FALSE
