SPECIFICATION MCSpec
CONSTANTS
  Markets = {1}
  Mids = {50400, 63000, 75600}
  Spacing = 12600
  Sizes <- MCSizes
  Capital = 504000
  DropPct = 5
  LimitPct = 20
  LossBudget = 50400
  MaxPerMinute = 3
  MarketCap = 500000
  TotalCap = 600000
  MaxSnapshots <- MCSnapshots
  Artifacts = {"a1"}
  Datasets = {"d1"}
  Promoters = {w1, w2}
  MaxHistory = 1
  MaxWrites = 3
  Bins = {"b1", "b2"}
  OnlineBins = {"b1", "b2"}
  Outcomes <- MCOutcomes
  CostRatio = 2
  SweepStep = 1000
  Configured = 1000
  Window = 1
  MaxBlockPct = 50
  MaxTrainings = 1
  MaxEvents = 1
  Seeds = {s1, s2}
  Exits = {x1}
  Threads = 2
  MaxAttempts = 2
  OrderLimit = 3
INVARIANTS
  ThresholdFitsModel
  ForgottenOnlyUnsent
  PaperBooksBalance
  ModelsAreVetted
SYMMETRY MCPromoters
CHECK_DEADLOCK FALSE
