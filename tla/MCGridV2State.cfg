CONSTANTS
  Ids = {i1, i2, i3}
  GridCids = {i1, i2, i3}
  LevelsPerSide = 2
  MaxLevels = 4
  MaxNotional = 1000
  StepNum = 1
  StepDen = 100
  ReseedOnFlat = FALSE
  ReseedOnSkew = TRUE
  CooldownMs = 1
  NetoffEnabled = FALSE
  References <- MCReferences
  FillPrices <- MCFillPrices
  Quantities = {0, 1}
  Timestamps <- MCTimestamps
SPECIFICATION MCSpec
INVARIANTS SnapshotIsValid BranchHoldsInventory OneSidedUnlessNetoff
PROPERTIES KeepsLedger
SYMMETRY MCSymmetry
CHECK_DEADLOCK FALSE
