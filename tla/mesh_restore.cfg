SPECIFICATION FairSpec
CONSTANTS
  Exits = {1, 2}
  Entries = {e1}
  h1 = h1
  h2 = h2
  h3 = h3
  Hosts = {h1, h3}
  ExitOf <- MCExitOf
  Published <- MCPublished
  Late = {}
  Moving = {1}
  Modes = {"relay", "direct"}
  EditKinds = {"toggle", "reset", "delete", "move", "inbound"}
  InboundsMove = FALSE
  None = None
  Deleted = Deleted
  MaxEdits = 1
  MaxModes = 2
  MaxFaults = 1
INVARIANTS JournalKept
PROPERTIES RestoreCompletes
