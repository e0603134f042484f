SPECIFICATION OnlyExits
CONSTANTS
  Cool = 2
  StaleGap = 1
  HardAge = 1
  HardFails = 2
  Cap = 2
  MaxChanges = 2
  MaxGrid = 2
  MaxNews = 1
  Unmeasured = Unmeasured
  MaxLots = 2
  StepPct = 50
  MinStep = 0
  MaxReductions = 1
  StaleGens = 2
  NoOrder = NoOrder
PROPERTIES
  RejectedSideReopens
CHECK_DEADLOCK FALSE
