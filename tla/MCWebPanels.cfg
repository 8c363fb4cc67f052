SPECIFICATION WebSpec
CONSTANTS
  Browsers = {b1, b2}
  MaxRequests = 4
  MaxUnderWay = 2
  CodeScreens = {s1, s2}
  SeedPrograms <- MCSeeds
  TypedCalls <- MCTyped
  MaxEdits = 2
  MaxSyncs = 1
  FeedViews = {"home", "questions", "challenges"}
  FeedSorts = {"latest", "popular"}
  ReplyIds = {"r1", "r2"}
  MaxPageCalls = 2
  MaxPageClicks = 2
  PurchaseIds = {"p1", "p2"}
  MaxPollTicks = 2
  StudioTexts = {"a", "bad"}
  BadText = "bad"
  BuildVersions = {"v1"}
  MaxBuilds = 2
  MaxStudioMoves = 5
  RefProjects <- MCProjects
  Files <- MCFiles
  AssetLimit = 2
  LightLimit = 1
  DepthLimit = 2
  MaxRefMoves = 3
  ProjectIds = {"p1", "p2"}
  StartRows <- MCRows
  Templates <- MCTemplates
  ProjectTypes = {"app", "game"}
  Extensions = {"x1", "x2"}
  Unchosen = "none"
  MaxLists = 3
  MaxChoices = 2
  MaxActions = 2
INVARIANTS
  LinksWorkOnce
  GeneratedCodeSyncsBack
  OneAnswerAccepted
  SuccessIsVerified
  PanelShowsItsRun
  MapAndDiagnosticsAgree
  AssetsAreReferenced
  DashboardIsCurrent
CHECK_DEADLOCK FALSE
