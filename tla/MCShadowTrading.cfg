SPECIFICATION Spec
CONSTANTS
  btc = btc
  eth = eth
  sol = sol
  r1 = r1
  r2 = r2
  SymbolOrder <- MCOrder
  Side <- MCSide
  Bar <- MCBar
  TicksPerBar = 4
  Tolerance = 6
  RankWindow = 2
  AtrCap = 8
  EventCap = 60
  AlphaMaxSymbol = 50
  AlphaMaxGross = 80
  AlphaMaxNet = 70
  AlphaBaseWeight = 30
  Runners = {r1, r2}
  StartNow = 17
  History <- MCHistory
  LateHours <- MCLate
  BridgeSymbolCap = 50
  Configs <- MCConfigs
  AlphaSnapshots <- MCSnapshots
  MaxNow = 20
  MaxRuns = 3
  MaxFaults = 1
SYMMETRY Sym
INVARIANTS
  RepeatsOnlyByRace
  ExposureCountsABarOnce
  OnlyFreshCompletedBars
  V17TargetsWithinCaps
CHECK_DEADLOCK FALSE
