SPECIFICATION Spec
CONSTANTS
  MaxSaves = 2
  MaxEdits = 2
  UndoDepth = 2
  MaxFaults = 0
  None = None
INVARIANT SavedMeansStored
CHECK_DEADLOCK FALSE
