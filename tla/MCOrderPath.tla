----------------------------- MODULE MCOrderPath -----------------------------
(* Small instances of OrderPath.  One testnet and one paper session on      *)
(* different exchanges, one symbol and side, and a kill-switch scope that   *)
(* is spelled as the session's exchange but for its case.                   *)
EXTENDS OrderPath, TLC

MCMode       == [s \in {"sess1", "sess2"} |->
                   IF s = "sess1" THEN "testnet" ELSE "paper"]
MCExchangeOf == [s \in {"sess1", "sess2"} |->
                   IF s = "sess1" THEN "kraken" ELSE "coinbase"]
MCEligible   == {<<"sess1", "buy">>, <<"sess2", "buy">>}
MCScopes     == {"Kraken"}
MCNorm       == [s \in {"Kraken", "kraken", "coinbase"} |->
                   IF s = "Kraken" THEN "kraken" ELSE s]

Ask(s, q, n, v) ==
  [session |-> s, leg |-> "buy", seq |-> q, notional |-> n, valid |-> v]

(* Priced and unpriced orders, with and without a sequence number of the    *)
(* client's own, and one that OrderIntent refuses.                          *)
MCRequests ==
  {Ask("sess1", None, 1, TRUE), Ask("sess1", 0, 1, TRUE),
   Ask("sess1", 0, None, FALSE), Ask("sess2", 0, 1, TRUE),
   Ask("sess2", None, None, TRUE)}
=============================================================================
