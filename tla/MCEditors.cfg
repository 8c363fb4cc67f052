SPECIFICATION EditorSpec
CONSTANTS
  Screens = {s1, s2}
  Containers = {k1, k2, k3}
  Leaves = {a1, a2, a3}
  Entities = {e1, e2, e3, e4}
  Root = Root
  None = None
  MaxEdits = 2
  Handlers = {h1}
  Ifs = {i1, i2}
  Statements = {b1, b2}
  Operators = {o1}
  Literals = {l1, l2}
  NoBlock = NoBlock
  BlockPastCap = 1
  MaxBlockEdits = 2
  Loaded <- MCLoaded
  NodeIds <- MCNodeIds
  StartNodes <- MCNodes
  PointerShifts <- MCPointerShifts
  Slack = 3
  SnapStep = 4
  SizeLimit = 2
  MaxPicks = 4
INVARIANTS
  DocumentIsSound
  EveryBlockOnce
PROPERTIES
  MovesLoseNothing
  DropsKeepBlocks
  ReleaseLandsUnderThePointer
CHECK_DEADLOCK FALSE
