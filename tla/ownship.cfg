SPECIFICATION MCSpec
CONSTANTS
  c1 = c1
  c2 = c2
  Clients <- MCClients
  Startup = Startup
  Nobody = Nobody
  Gone = Gone
  Nose = 1
  Mount = 2
  Tilt = 1
  MaxLevels = 2
  Scenes <- MCScenes
  h1 = h1
  h2 = h2
  Handlers <- MCHandlers
  Buffer = 2
  MaxAttitudes = 4
  Limit = 1
  Lag = 1
  Skews <- MCSkews
  Old = 3
INVARIANTS
  ValidFromHealthy
  DriftMeasured
  FrameRebuildable
  LevelHolds
  OrderedButForFirst
  OwnshipBounded
  PositionOfFix
PROPERTIES
  HandlersReturn
  StartupCompletes
  GravityOfMount
  StreamerProgress
  GPSCloseReturns
  GPSComesBack
CHECK_DEADLOCK FALSE
