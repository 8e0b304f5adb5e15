SPECIFICATION Spec
CONSTANTS
  LIMIT = 1
  NoKey = NoKey
  NoDrag = NoDrag
  Ids = {1, 2, 3, 4, 5, 6, 7, 8, 9, 10}
  Root = 1
  FirstDoc <- MCFirstDoc
  Parts <- MCParts
  Imports <- MCImports
  MaxEdits = 2
  MaxPicks = 1
INVARIANTS DocLoads MovesAsAsked
PROPERTIES RefinesUndoList
CHECK_DEADLOCK FALSE
