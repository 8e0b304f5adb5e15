SPECIFICATION Spec
CONSTANTS
  Ids = {a, b, c}
  Layouts <- MCLayouts
  Infinity = Infinity
  NoTile = NoTile
SYMMETRY Alike
INVARIANTS Compacted
PROPERTIES RefinesPacking
CHECK_DEADLOCK FALSE
