SPECIFICATION Spec
CONSTANTS
  Tabs = {t1, t2}
  Ids = {i1, i2}
  None = None
  Originals = {i1}
  TombstoneAge = 0
  MaxNow = 2
  MaxEdits = 2
  MaxFaults = 1
  MaxRefusals = 1
SYMMETRY Alike
INVARIANTS EditSurvives SavedMeansStored SaveIsDue
PROPERTIES UnreadableKept
CHECK_DEADLOCK FALSE
