SPECIFICATION FairSpec
CONSTANTS
  Nodes = {4}
  Balancers = {1, 2}
  Colocated = {}
  Disabled = {2}
  Unversioned = {}
  Callers = {c1}
  Boot = boot
  NoJob = NoJob
  MultiNode = FALSE
  ReliableProbe = TRUE
  SaveCanFail = FALSE
  ListCanFail = TRUE
  LoadCanFail = TRUE
  MaxVersion = 1
  MaxJobs = 2
  MaxCrashes = 1
  MaxDowns = 1
INVARIANTS OneRunAtATime DoneMeansDone
PROPERTIES JobEnds
CHECK_DEADLOCK FALSE
