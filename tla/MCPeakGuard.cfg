SPECIFICATION Spec
CONSTANTS
  Equities = {100, 91}
  DailyReduce = 3
  DailyHalt = 5
  PeakHalt = 8
  IcStreak = 2
  RejectReduce = 1
  RejectHalt = 2
  ScanLimit = 2
  MaxDay = 2
  MaxObs = 0
  MaxSent = 1
  MaxFaults = 0
INVARIANT
  PeakDrawdownHalts
