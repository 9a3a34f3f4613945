--------------------------- MODULE MCTradingTools ----------------------------
(* Small instances of TradingTools: sessions on two exchanges, kraken       *)
(* without a sandbox, and scopes spelled as an exchange, as an exchange but *)
(* for its case, and as a star.                                             *)
EXTENDS TradingTools, TLC

MCOffers ==
  {<<"paper", "kraken">>, <<"paper", "gemini">>, <<"testnet", "gemini">>,
   <<"testnet", "kraken">>}

MCNorm ==
  [x \in {"kraken", "Kraken", "gemini", "*"} |->
     IF x = "Kraken" THEN "kraken" ELSE x]
=============================================================================
