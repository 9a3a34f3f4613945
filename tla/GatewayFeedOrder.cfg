CONSTANTS
  full = full
  nosandbox = nosandbox
  nokeys = nokeys
  c1 = c1
  c2 = c2
  None = None
  Exchanges <- MCExchanges
  Sandboxed <- MCSandboxed
  Credentialed <- MCKeyed
  TradeKeys <- MCKeyed
  Streaming <- MCFull
  Callers <- MCCallers
  MaxRetries = 3
  MaxBackoff = 3
  Window = 2
  MaxAdapters = 2
  MaxCalls = 2
  MaxCandles = 2
SPECIFICATION Spec
INVARIANT FeedAscending
