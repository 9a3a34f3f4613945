---------------------------- MODULE MCPaperBroker ----------------------------
(* Small instances of PaperBroker: a fee and a slippage that are not        *)
(* proportional to the price, sizes that depend on the cash, and stops and  *)
(* targets that the bars can hit.                                           *)
EXTENDS PaperBroker, TLC

MCSlipUp(p)        == p + 1
MCSlipDown(p)      == p - 1
MCTaker(n)         == (n + 3) \div 4
MCTargetSize(e, p) == IF e > 25 THEN 2 ELSE 1
MCStopDelta(p)     == 5
MCTakeDelta(p)     == 5
MCFundingCharge(n) == n \div 8
MCGridSize(p)      == 1
MCDcaQty(m, p)     == IF p > 0 THEN m \div p + 1 ELSE 0

MCBar(o, h, l, c) == [open |-> o, high |-> h, low |-> l, close |-> c]

(* Calm, rising through the upper level, falling to the lower one, and one  *)
(* that touches both a stop and a target.                                   *)
MCBars ==
  {MCBar(10, 10, 10, 10), MCBar(10, 20, 10, 20), MCBar(20, 20, 10, 10),
   MCBar(10, 20, 4, 10)}
=============================================================================
