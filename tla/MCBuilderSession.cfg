SPECIFICATION FairSpec
CONSTANTS
  MaxSaves = 2
  MaxEdits = 3
  UndoDepth = 2
  MaxFaults = 1
  None = None
INVARIANTS TabKnowsTheRow
PROPERTIES PublishesWhatIsShown UndoIsALine ChangesReachTheServer
