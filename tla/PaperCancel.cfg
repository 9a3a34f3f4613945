SPECIFICATION Spec
CONSTANTS
  None = None
  SlipUp <- MCSlipUp
  SlipDown <- MCSlipDown
  Taker <- MCTaker
  TargetSize <- MCTargetSize
  StopDelta <- MCStopDelta
  TakeDelta <- MCTakeDelta
  FundingCharge <- MCFundingCharge
  FundingOn = TRUE
  BarHours = 3
  FundingInterval = 2
  Levels = {10, 20}
  GridSize <- MCGridSize
  DcaAmount = 20
  DcaMax = 2
  DcaQty <- MCDcaQty
  InitialCash = 30
  Bars <- MCBars
  MaxBars = 3
  MaxOrders = 3
PROPERTIES
  CanceledNeverFills
CHECK_DEADLOCK FALSE
