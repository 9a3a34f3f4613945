SPECIFICATION Spec
CONSTANTS
  None = None
  MaxSessions = 2
  Offers <- MCOffers
  Exchanges = {"kraken", "gemini"}
  Eligible = {"kraken", "gemini"}
  Sandboxed = {"gemini"}
  Tradable = {"gemini"}
  Scopes = {"kraken", "Kraken", "*"}
  Norm <- MCNorm
  Star = "*"
  MaxOrders = 1
  MaxSignals = 1
PROPERTIES
  AcceptedIsListed
