-------------------------- MODULE MCStrategyRuntime --------------------------
(* Small instances of StrategyRuntime, with the arithmetic of MCPaperBroker.*)
EXTENDS StrategyRuntime, TLC

MCSlipUp(p)        == p + 1
MCSlipDown(p)      == p - 1
MCTaker(n)         == (n + 3) \div 4
MCTargetSize(e, p) == IF e > 25 THEN 2 ELSE 1
MCStopDelta(p)     == 5
MCTakeDelta(p)     == 5
MCFundingCharge(n) == n \div 8
MCGridSize(p)      == 1
MCDcaQty(m, p)     == IF p > 0 THEN m \div p + 1 ELSE 0

MCBar(o, h, l, c) == [open |-> o, high |-> h, low |-> l, close |-> c]

MCBars ==
  {MCBar(10, 10, 10, 10), MCBar(10, 20, 10, 20), MCBar(20, 20, 10, 10),
   MCBar(10, 20, 4, 10)}

(* One-sided rules, and a reversal strategy without exit rules.             *)
MCOneSided ==
  {SUBSET {"enter_long", "exit_long"}, SUBSET {"enter_short", "exit_short"},
   {{}, {"enter_long"}, {"enter_short"}}}

(* Rules for both sides.                                                    *)
MCBothSides == {SUBSET {"enter_long", "enter_short", "exit_long", "exit_short"}}

MCLookback == [k \in {"rule", "grid", "dca"} |-> IF k = "rule" THEN 1 ELSE 0]

(* A crossover of the indicator is defined one bar after the indicator.     *)
MCFirstCrossover == [k \in {"rule"} |-> 2]
MCFirstDefined == [k \in {"rule"} |-> 1]
=============================================================================
