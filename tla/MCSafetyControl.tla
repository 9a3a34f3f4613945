--------------------------- MODULE MCSafetyControl ---------------------------
(* Small instances of SafetyControl: one exchange, spelled in two ways, the *)
(* star and a blank scope.                                                  *)
EXTENDS SafetyControl, TLC

MCNorm ==
  [x \in {"kraken", "Kraken", "*", " "} |->
     CASE x = "Kraken" -> "kraken" [] x = " " -> "" [] OTHER -> x]

MCLimits ==
  {NoLimits, [NoLimits EXCEPT !["order_notional"] = 1, !["daily_loss"] = 0]}

Ctx(notional, open, loss) ==
  [cap \in Caps |-> CASE cap = "open_positions" -> open
                      [] cap = "daily_loss" -> loss
                      [] OTHER -> notional]

MCContexts == {Ctx(1, 0, 0), Ctx(None, 0, 0), Ctx(1, 1, 1)}
=============================================================================
