------------------------- MODULE MCExchangeGateway -------------------------
(* An exchange with everything, one without a sandbox and one without      *)
(* credentials; two callers and one watcher.                               *)
EXTENDS ExchangeGateway, TLC

CONSTANTS full, nosandbox, nokeys, c1, c2

MCExchanges == {full, nosandbox, nokeys}
MCFull == {full}
MCSandboxed == {full, nokeys}
MCKeyed == {full, nosandbox}
MCCallers == {c1, c2}
CallerSymmetry == Permutations(MCCallers)
=============================================================================
