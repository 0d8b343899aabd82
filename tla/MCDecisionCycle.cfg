SPECIFICATION Spec
CONSTANTS
  Cycles = 3
  Days = 2
  Interval = 2
  Expiry = 2
  MaxTrades = 1
  Window = 2
  Threshold = 2
  MaxFaults = 2
INVARIANTS
  DailyCapBinds
  RebalancesApart
PROPERTIES
  CooldownEarned
CHECK_DEADLOCK FALSE
