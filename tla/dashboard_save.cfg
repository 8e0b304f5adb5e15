SPECIFICATION FairSpec
CONSTANTS
  Boards = {"main", "first", "second", "new"}
  Main = "main"
  NoDoc = NoDoc
  Originals <- MCOriginals
  MAX_BOARDS = 3
  InOrder = TRUE
  MaxEdits = 3
  MaxPosts = 2
  MaxFaults = 1
  MaxLanguages = 1
INVARIANTS SettledIsStored
PROPERTIES OnlyBlindLoses SavesSettle
CHECK_DEADLOCK FALSE
