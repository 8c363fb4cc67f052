SPECIFICATION PlaySpec
CHECK_DEADLOCK FALSE
CONSTANTS
  Apps <- MCApps
  MaxRuns = 2
  MaxEvents = 3
  MaxNumber = 4
  MaxAsks = 2
  None = None
  StaticBodies <- MCBodies
  PlayerSize <- MCSize
  PlayerScale = 1
  PlayerStart <- MCStart
  MoveKeys = {"right"}
  JumpKeys = {"space"}
  JumpForce = 3
  MaxFrames = 6
  MaxFrameSteps = 2
INVARIANTS ShownScreenIsTheRuns OneDispatchPerPress TriggersTellTheTruth
PROPERTIES ExitFollowsEnter
