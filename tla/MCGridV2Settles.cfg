CONSTANTS
  Ids <- MCIds
  GridCids <- MCEntries
  LevelsPerSide = 1
  MaxLevels = 4
  MaxNotional = 1000
  StepNum = 1
  StepDen = 100
  ReseedOnFlat = FALSE
  ReseedOnSkew = TRUE
  CooldownMs = 0
  NetoffEnabled = FALSE
  References <- MCReferences
  FillPrices <- MCReferences
  Quantities = {1}
  Timestamps = {0}
  UserData = TRUE
  PlaceOutcomes = {"executed", "timeout_lost"}
  CancelOutcomes = {"executed", "timeout_lost"}
  MaxFailures = 1
  MaxExpiries = 1
  PlaceStaleGens = 2
  AwaitExpiryGens = 3
  DriftCooldownGens = 2
  MaxLag = 1
  MaxFills = 2
  MaxCrashes = 0
  MaxRedeliveries = 0
SPECIFICATION FairLiveSpec
PROPERTIES FillsSettle DetectionResumes
