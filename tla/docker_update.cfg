SPECIFICATION Spec
CONSTANTS
  Nodes = {1, 2}
  Balancers = {}
  Colocated = {1}
  Disabled = {}
  Unversioned = {2}
  Callers = {c1}
  Boot = boot
  NoJob = NoJob
  MultiNode = TRUE
  ReliableProbe = TRUE
  SaveCanFail = FALSE
  ListCanFail = TRUE
  LoadCanFail = TRUE
  MaxVersion = 2
  MaxJobs = 1
  MaxCrashes = 1
  MaxDowns = 1
INVARIANTS TypeOK VerdictFromFacts PanelTriggeredOnce NoNodeLeftBehind
PROPERTIES PanelLast LocalAfterRemote TriggerIsPersisted VerdictStands
CHECK_DEADLOCK FALSE
