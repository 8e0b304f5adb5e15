SPECIFICATION Spec
CONSTANTS
  GRID_COLS = 3
  TABLET_COLS = 2
  GRID_MAX_ROWS = 6
  NARROW = 1
  Tiles <- MCTiles
  Limits <- MCLimits
  PhoneRows <- MCPhoneRows
  DefaultSize <- MCDefaultSize
  Boards <- MCBoards
  MAX_PANELS = 3
  Handles <- MCHandles
  MaxRow = 2
  MaxDelta = 1
  Moves = 1
  Blinks = 1
  Edits = 1
INVARIANTS ShownValid MovedWhereAsked ReadingOrderKept
PROPERTIES WriteBackSettles ArrangeFills
CHECK_DEADLOCK FALSE
