SPECIFICATION Spec
CONSTANTS
  None = None
  Sessions = {"sess1", "sess2"}
  Mode <- MCMode
  ExchangeOf <- MCExchangeOf
  TradeEnabled = {"kraken"}
  Eligible <- MCEligible
  DryRun = FALSE
  Legs = {"buy"}
  Calls = {c1, c2}
  Requests <- MCRequests
  Notionals = {1}
  Caps = {0}
  Scopes <- MCScopes
  Norm <- MCNorm
  MaxAttempts = 2
  MaxRestarts = 1
INVARIANTS
  ResubmissionReturnsPrior
