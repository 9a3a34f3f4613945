SPECIFICATION DeployedSpec
CONSTANTS
  None = None
  SlipUp <- MCSlipUp
  SlipDown <- MCSlipDown
  Taker <- MCTaker
  TargetSize <- MCTargetSize
  StopDelta <- MCStopDelta
  TakeDelta <- MCTakeDelta
  FundingCharge <- MCFundingCharge
  FundingOn = TRUE
  BarHours = 3
  FundingInterval = 2
  Levels = {10, 20}
  GridSize <- MCGridSize
  DcaAmount = 20
  DcaMax = 2
  DcaQty <- MCDcaQty
  InitialCash = 30
  Bars <- MCBars
  RuleSets <- MCBothSides
  Lookback <- MCLookback
  FirstBar <- MCFirstCrossover
  MaxBars = 6
  MaxOrders = 0
PROPERTIES
  Parity
CHECK_DEADLOCK FALSE
