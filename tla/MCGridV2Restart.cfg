CONSTANTS
  Ids <- MCIds
  GridCids <- MCEntries
  LevelsPerSide = 1
  MaxLevels = 4
  MaxNotional = 1000
  StepNum = 1
  StepDen = 100
  ReseedOnFlat = FALSE
  ReseedOnSkew = TRUE
  CooldownMs = 0
  NetoffEnabled = FALSE
  References <- MCReferences
  FillPrices <- MCReferences
  Quantities = {1}
  Timestamps = {0}
  UserData = TRUE
  PlaceOutcomes = {"executed"}
  CancelOutcomes = {"executed"}
  MaxFailures = 0
  MaxExpiries = 0
  PlaceStaleGens = 2
  AwaitExpiryGens = 3
  DriftCooldownGens = 2
  MaxLag = 1
  MaxFills = 2
  MaxCrashes = 1
  MaxRedeliveries = 0
SPECIFICATION LiveSpec
INVARIANT LotsWereFilled
