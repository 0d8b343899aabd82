SPECIFICATION TargetSpec
CONSTANTS
  btc = btc
  eth = eth
  sol = sol
  Syms <- MCSyms
  Traded <- MCTraded
  Cap <- MCCap
  MaxGross = 9
  MaxNet = 5
  TurnoverCap = 4
  FactorWeights <- MCFactorWeights
  ThresholdFull = 25
  ThresholdHalf = 12
  VolatileRegime = 2
  AICap <- MCAICap
  Gross <- MCGross
  Net <- MCNet
  Turn <- MCTurn
  Delta = 1
  MinConfidence = 60
  ProfitTarget = 25
  StopLoss = 40
  Floor = 2
  Books <- MCBooks
  Prevs <- MCPrevs
  Features <- MCFeatures
  Proposals <- MCProposals
INVARIANTS
  CandidateWithinLimits
  ClosedNeverGrows
  ApprovedWithinLimits
  ReduceOnlyShrinks
  TurnoverWithinCap
CHECK_DEADLOCK FALSE
