SPECIFICATION FairSpec
CONSTANTS
  Equities = {100, 96, 94}
  DailyReduce = 3
  DailyHalt = 5
  PeakHalt = 8
  IcStreak = 2
  RejectReduce = 1
  RejectHalt = 2
  ScanLimit = 2
  MaxDay = 2
  MaxObs = 2
  MaxSent = 1
  MaxFaults = 1
INVARIANTS
  DailyLossBinds
  IcCountedOnce
PROPERTY
  RejectHaltClears
