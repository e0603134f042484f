SPECIFICATION MCSpec
CONSTANTS
  Ids <- MCIds
  GridCids <- MCEntries
  LevelsPerSide = 1
  MaxLevels = 4
  MaxNotional = 1000
  StepNum = 1
  StepDen = 100
  ReseedOnFlat = FALSE
  ReseedOnSkew = TRUE
  CooldownMs = 0
  NetoffEnabled = FALSE
  References <- MCReferences
  FillPrices <- MCReferences
  Quantities = {1}
  Timestamps = {0}
  UserData = TRUE
  PlaceOutcomes = {"executed", "rejected", "timeout_placed", "timeout_lost"}
  CancelOutcomes = {"executed", "timeout_canceled", "timeout_lost"}
  MaxFailures = 1
  MaxExpiries = 1
  PlaceStaleGens = 2
  AwaitExpiryGens = 3
  DriftCooldownGens = 2
  MaxLag = 1
  MaxFills = 2
  MaxCrashes = 1
  MaxRedeliveries = 0
  Levels = 1
  Mids = {0}
  MaxAge = 2
  MaxTpRetries = 1
  MaxRenewals = 1
  MaxOrders = 5
  MaxOdd = 1
  WatchMids = {0}
  WatchLevels = 1
  WatchLots = 2
  MaxDefers = 2
  MismatchStreak = 2
  ExpiryChecks = 2
  StaleCancelGens = 2
  StalePlaceGens = 2
  CooldownGens = 2
  WatchIds = {1, 2, 3, 4, 5, 6, 7, 8}
  MaxMishaps = 3
  Traded <- MCTraded
  Prices = {1, 2}
  Threshold = 2
  Page = 2
  MaxTrades = 3
  MaxIngestFailures = 1
  StreamSymbols = {"A", "B"}
  SymbolFilter = "none"
  MaxRestarts = 2
  MaxRedials = 2
  MaxKeys = 4
  MaxMessages = 2
  MaxFaults = 3
INVARIANTS
  NoFillInvented
  LadderIsSound
  OneEntryPerRung
  MachineKnowsPosition
  StreakSurvivesRestarts
  NothingLeftRunning
CHECK_DEADLOCK FALSE
