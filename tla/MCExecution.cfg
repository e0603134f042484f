SPECIFICATION MCSpec
CONSTANTS
  TriggerPct = 3
  ArmPct = 4
  LossPct = 12
  MaxActive = 2
  Symbols = {1, 2}
  TopK = 1
  MaxChangesPerCycle = 1
  MinHold = 1
  MaxActions = 3
  MismatchLimit = 5
  Equities = {22, 25}
  MaxSessions = 0
  Answers = {"SUCCESS", "NOT_APPLICABLE"}
  Callers = {c1, c2, c3}
  Keys = {k1}
  NoKey = NoKey
  Outcomes = {"accepted", "refused", "timeout_applied"}
  TripOn = {"timeout_applied"}
  FailureThreshold = 2
  OpenInterval = 1
  ProbeCount = 2
  SuccessThreshold = 2
  InflightTtl = 1
  DoneTtl = 1
  ConnectTries = 2
  RedialTries = 2
  TickTimes = {0, 1}
INVARIANTS
  FleetIsOrderly
  AtMostOneEffect
PROPERTIES
  RecoversUnlessWasted
  FeedIsOrderly
CHECK_DEADLOCK FALSE
