SPECIFICATION Spec
CONSTANTS
  None = None
  Exchanges = {"kraken"}
  Scopes = {"Kraken", "*", " "}
  Norm <- MCNorm
  Star = "*"
  Blank = ""
  LimitSets <- MCLimits
  Contexts <- MCContexts
  Gate = {"simulate", "route", "deny"}
  TTLs = {0, 1, 3}
  MaxTTL = 2
  Times = {0, 1, 2}
  Capacity = 3
  MaxEntries = 4
INVARIANTS
  TypeOK
  AuditTells
  ArmedByLiveGrant
