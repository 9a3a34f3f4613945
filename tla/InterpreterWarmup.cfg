CONSTANTS
  None = None
  Numbers <- Fractions
  NaN <- NoNumber
  Zero <- MCZero
  Num <- MCNum
  Plus <- MCPlus
  Minus <- MCMinus
  Times <- MCTimes
  Quotient <- MCQuotient
  Remainder <- MCRemainder
  Negative <- MCNegative
  Abs <- MCAbs
  Below <- MCBelow
  Expressions <- MCExpressions
  Depth <- MCDepth
  Payloads <- MCPayloads
  Feed <- MCFeed
  MaxBars <- MCMaxBars
  Length = 2
SPECIFICATION Spec
INVARIANT WarmupIsNoSignal
CHECK_DEADLOCK FALSE
