SPECIFICATION SurfaceSpec
CONSTANTS
  LayerNames <- MCLayerNames
  SpriteClips <- MCClips
  MaxInspectorEdits = 3
  MaxInspectorItems = 3
  MaxSpriteIds = 5
  MaxSpriteEdits = 2
  UndoCap = 1
  MaxPixelJobs = 1
  MaxLayers = 2
  StageIds <- MCStageIds
  StartStage <- MCStage
  GridCols = 2
  GridRows = 2
  TileValues = {2}
  Shifts <- MCShifts
  Sweeps <- MCSweeps
  MaxPresses = 3
  ShellScreens <- MCShellScreens
  ShellItems <- MCShellItems
  ProjectKinds = {"app", "game", "3d"}
  ShellKind = "game"
  Nobody = Nobody
  MaxShellMoves = 4
  MaxShellDocs = 2
  Releases = {0, 1, 2}
  BrokenReleases = {0}
  ExportTargets = {web, apk}
  NoRelease = NoRelease
  WebTarget = web
  Markup = Markup
  Archive = Archive
  Noise = Noise
  MaxBuildsAsked = 2
  MaxPublishings = 1
  MaxOutFaults = 1
INVARIANTS
  ShellIsSound
  ReleasesAreHonest
  InspectorReferencesHold
  StrokesStayOnTheirFrame
PROPERTIES
  GesturesAreExact
CHECK_DEADLOCK FALSE
