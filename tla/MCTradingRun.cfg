SPECIFICATION TradingRunSpec
CONSTANTS
  Traded = {s1, s2}
  Slots = {o1}
  MaxHeld = 1
  Settings <- MCSettings
  UserTries = 1
  MaxRuns = 1
INVARIANTS
  CleanedAfterTrading
CHECK_DEADLOCK FALSE
