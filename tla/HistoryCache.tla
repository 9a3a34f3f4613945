---------------------------- MODULE HistoryCache ----------------------------
(***************************************************************************)
(* What the cache of one (exchange, symbol, timeframe) promises to the     *)
(* tools that read it: it only ever grows, and what it holds are candles   *)
(* the venue has published.  A candle is a bar number with the state it    *)
(* was seen in: still "forming", or "final".                               *)
(***************************************************************************)
EXTENDS Naturals

CONSTANTS VenueBars, FirstNow, LastNow

VARIABLES now, cache

(* The candles the venue may have answered with up to time n.              *)
Published(n) == {t \in VenueBars : t <= n}
Seen(t, n) == IF t < n THEN {"forming", "final"} ELSE {"forming"}

Init == now = FirstNow /\ cache = << >>

Tick == now < LastNow /\ now' = now + 1 /\ UNCHANGED cache

(* Published candles are stored, some of them over what was there.         *)
Store == /\ DOMAIN cache \subseteq DOMAIN cache'
         /\ \A t \in DOMAIN cache' :
              \/ t \in DOMAIN cache /\ cache'[t] = cache[t]
              \/ t \in Published(now) /\ cache'[t] \in Seen(t, now)
         /\ UNCHANGED now

Next == Tick \/ Store
Spec == Init /\ [][Next]_<<now, cache>>
=============================================================================
