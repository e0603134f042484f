SPECIFICATION MCSpec
CONSTANTS
  Ids <- MCIds
  GridCids <- MCEntries
  LevelsPerSide = 2
  MaxLevels = 4
  MaxNotional = 1000
  StepNum = 1
  StepDen = 100
  ReseedOnFlat = FALSE
  ReseedOnSkew = TRUE
  CooldownMs = 0
  NetoffEnabled = FALSE
  References <- MCReferences
  FillPrices <- MCReferences
  Quantities = {1}
  Timestamps = {0}
  UserData = TRUE
  PlaceOutcomes = {"executed"}
  CancelOutcomes = {"executed"}
  MaxFailures = 0
  MaxExpiries = 0
  PlaceStaleGens = 2
  AwaitExpiryGens = 3
  DriftCooldownGens = 2
  MaxLag = 1
  MaxFills = 2
  MaxCrashes = 0
  MaxRedeliveries = 1
  Traded = {s1, s2}
  Slots = {o1}
  MaxHeld = 1
  Settings <- MCSettings
  UserTries = 1
  MaxRuns = 2
  Operated = {1, 2, 3}
  Gridded = {1}
  Chosen = 1
  MinHoldCycles = 2
  MaxChanges = 1
  EnterAt = 1
  ExitAt = 2
  Scores = {1, 2}
  Adjusts = {0, 1}
  MaxForced = 1
  Universe = {1, 2}
  ColdStart = {1}
  MaxNew = 1
  MaxTunings = 3
  MaxStarts = 1
  OrderIds = {c1, c2}
  OwnIds = {c1}
  Symbols <- MCSymbols
  Ascii <- MCAscii
  Tokens <- MCTokens
  Begins <- MCBegins
  NoName = NoName
  Setups <- MCSetups
  MaxOrdersPerRun = 1
  MaxAttempts = 2
  MaxBoots = 2
  MaxLate = 1
INVARIANTS
  PortIsTruthful
  EachFillBookedOnce
  LotsProtected
  BooksBalance
  StartsOnKnownState
  ExitZeroIsClean
  TuningsStayWhole
PROPERTY
  RotationIsOrderly
CHECK_DEADLOCK FALSE
