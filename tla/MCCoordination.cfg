SPECIFICATION MCSpec
CONSTANTS
  Instances = {i1, i2}
  Nobody = Nobody
  Departed = Departed
  Ttl = 3
  Renew = 1
  Timeout = 1
  Join = 1
  MaxMishaps = 1
  Orders = {o1, o2}
  Symbols = {s1}
  SymbolOf <- MCSymbolOf
  Elected = TRUE
  CallsPerRun = 1
  CallsPerDay = 2
  SpendPerCall = 1
  SpendPerRun = 2
  SpendPerDay = 1
  MaxPosition = 2
  MaxFaults = 2
  MaxDays = 2
INVARIANTS
  OverlapIsShort
  WithinDailyBudget
PROPERTIES
  LeaderReturns
  UnexpectedGoes
CHECK_DEADLOCK FALSE
