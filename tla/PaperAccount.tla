----------------------------- MODULE PaperAccount -----------------------------
(* The account of the in-process paper broker, and its operations: each is  *)
(* a function from an account to an account, so that PaperBroker can make   *)
(* steps of them and StrategyRuntime can compose the several that the code  *)
(* runs within one bar.                                                     *)
(*                                                                         *)
(* A comment that begins with "Slip" introduces a variant of the definition *)
(* below it with a plausible mistake in it.                                 *)
EXTENDS FillMath, FiniteSetsExt, SequencesExt

(* spec.strategy_type; "rule" stands for every kind but the other two.      *)
Kinds == {"rule", "grid", "dca"}

NewAccount(kind) ==
  [kind |-> kind, cash |-> InitialCash, pos |-> None, trades |-> <<>>,
   orders |-> <<>>, realized |-> 0, fees |-> 0, funding |-> 0, mark |-> None,
   bar |-> 0, pending |-> {}, grid |-> NoLots, dca |-> NoDca]

-----------------------------------------------------------------------------
(* submit and cancel.                                                      *)

(* An intent, by what submit makes of it: one of four flags, or a buy at a  *)
(* grid level.                                                              *)
Flag(name) == <<name, None>>
GridBuy(level) == <<"grid", level>>

Intents == {Flag(f) : f \in {"exit", "long", "short", "dca"}}
             \cup {GridBuy(l) : l \in Levels}

LevelsWanted(a) == {l \in Levels : GridBuy(l) \in a.pending}

Submitted(a, intent) ==
  [a EXCEPT !.pending = @ \cup {intent},
            !.orders = Append(@, [intent |-> intent, status |-> "open",
                                  bar |-> a.bar])]

(* Several at once, in order.                                               *)
AllSubmitted(a, intents) ==
  [a EXCEPT !.pending = @ \cup Range(intents),
            !.orders = @ \o [k \in DOMAIN intents |->
                               [intent |-> intents[k], status |-> "open",
                                bar |-> a.bar]]]

(* Slip: the status is not one that an order can have.                      *)
CanceledMisspelt(a, k) == [a EXCEPT !.orders[k].status = "cancelled"]

Canceled(a, k) == [a EXCEPT !.orders[k].status = "canceled"]

-----------------------------------------------------------------------------
(* on_bar.                                                                 *)

(* Slip: the exit fee is left out of the account's counter.                 *)
ClosedFeeless(a, px, reason) ==
  LET t == ClosedTrade(a.pos, px, reason)
  IN [a EXCEPT !.cash = @ + t.pnl, !.realized = @ + t.pnl,
               !.funding = @ + t.funding, !.trades = Append(@, t),
               !.orders = Append(@, [intent |-> Flag("close"), status |-> "filled",
                                     bar |-> a.bar]),
               !.pos = None]

Closed(a, px, reason) ==
  LET t == ClosedTrade(a.pos, px, reason)
  IN [a EXCEPT !.cash = @ + t.pnl, !.realized = @ + t.pnl,
               !.fees = @ + ExitFee(a.pos, px),
               !.funding = @ + t.funding, !.trades = Append(@, t),
               !.orders = Append(@, [intent |-> Flag("close"), status |-> "filled",
                                     bar |-> a.bar]),
               !.pos = None]

Opened(a, side, fill_open) ==
  LET pos == NewPosition(side, a.cash, fill_open)
  IN [a EXCEPT !.pos = pos, !.fees = @ + pos.fee]

(* An exit intent closes a position of either side; a reversal closes and   *)
(* opens on the same bar.                                                   *)
RuleApplied(a, bar) ==
  LET against == IF a.pos = None THEN "none"
                 ELSE IF a.pos.side = "long" THEN "short" ELSE "long"
      leave   == a.pos # None /\ a.pending \cap {Flag("exit"), Flag(against)} # {}
      b       == IF leave
                   THEN Closed(a, Slip(bar.open, a.pos.side = "long"), "signal")
                   ELSE a
  IN IF b.pos # None THEN b
     ELSE IF Flag("long") \in a.pending THEN Opened(b, "long", bar.open)
     ELSE IF Flag("short") \in a.pending THEN Opened(b, "short", bar.open)
     ELSE b

RiskChecked(a, bar) ==
  LET hit == IF a.pos = None THEN None ELSE RiskExit(a.pos, bar)
  IN IF hit = None THEN a ELSE Closed(a, hit.px, hit.reason)

Held(a, bar) ==
  IF a.pos = None THEN a ELSE [a EXCEPT !.pos = HeldOneBar(@, bar.close)]

LotsBought(a, levels) ==
  LET held == [l \in DOMAIN a.grid \cup levels |->
                 IF l \in levels THEN GridLot(l, a.bar) ELSE a.grid[l]]
  IN [a EXCEPT !.grid = held,
               !.cash = @ - SumFunction([l \in levels |-> LotCost(held[l])]),
               !.fees = @ + SumFunction([l \in levels |-> held[l].fee])]

(* Sell the slices of some levels, lowest level first, each at its price.   *)
LotsSold(a, levels, price, reason) ==
  LET Trade(l) == LotTrade(a.grid[l], price[l], a.bar, reason)
      Fee(l)   == Taker(price[l] * a.grid[l].size)
      order    == Ascending(levels)
      pnl      == SumFunction([l \in levels |-> Trade(l).pnl])
      back     == SumFunction([l \in levels |-> price[l] * a.grid[l].size - Fee(l)])
  IN [a EXCEPT !.grid = [l \in DOMAIN @ \ levels |-> @[l]],
               !.cash = @ + back,
               !.fees = @ + SumFunction([l \in levels |-> Fee(l)]),
               !.realized = @ + pnl,
               !.trades = @ \o [k \in DOMAIN order |-> Trade(order[k])]]

(* Slip: a level that holds a slice already is bought again.                *)
GridAppliedAgain(a, bar) ==
  LET b == LotsBought(a, LevelsWanted(a))
      due == {l \in DOMAIN b.grid :
                GridTarget(l) # None /\ bar.close >= GridTarget(l)}
  IN LotsSold(b, due, [l \in due |-> SlipDown(GridTarget(l))], "take_profit")

GridApplied(a, bar) ==
  LET b   == LotsBought(a, LevelsWanted(a) \ DOMAIN a.grid)
      due == {l \in DOMAIN b.grid :
                GridTarget(l) # None /\ bar.close >= GridTarget(l)}
  IN LotsSold(b, due, [l \in due |-> SlipDown(GridTarget(l))], "take_profit")

(* Slip: the purchase may spend more than the account holds.                *)
DcaAppliedUncapped(a, bar) ==
  IF Flag("dca") \in a.pending /\ ~DcaCapped(a.dca)
    THEN [a EXCEPT !.dca = DcaBought(@, DcaAmount, bar.open, a.bar),
                   !.fees = @ + Taker(DcaAmount), !.cash = @ - DcaAmount]
    ELSE a

DcaApplied(a, bar) ==
  LET spend == DcaSpend(a.cash)
      buys  == Flag("dca") \in a.pending /\ ~DcaCapped(a.dca) /\ spend > 0
  IN IF ~buys THEN a
     ELSE [a EXCEPT !.dca = DcaBought(@, spend, bar.open, a.bar),
                    !.fees = @ + Taker(spend), !.cash = @ - spend]

(* Slip: the intents outlive the bar that has executed them.                *)
AfterBarKeepingIntents(a, bar) ==
  LET b == [a EXCEPT !.bar = @ + 1, !.mark = bar.close]
  IN CASE a.kind = "grid" -> GridApplied(b, bar)
       [] a.kind = "dca"  -> DcaApplied(b, bar)
       [] a.kind = "rule" -> Held(RiskChecked(RuleApplied(b, bar), bar), bar)

AfterBar(a, bar) ==
  LET b == [a EXCEPT !.bar = @ + 1, !.mark = bar.close]
      c == CASE a.kind = "grid" -> GridApplied(b, bar)
             [] a.kind = "dca"  -> DcaApplied(b, bar)
             [] a.kind = "rule" -> Held(RiskChecked(RuleApplied(b, bar), bar), bar)
  IN [c EXCEPT !.pending = {}]

-----------------------------------------------------------------------------
(* force_close, at the last mark.                                          *)

(* Nothing but the base is reset.                                           *)
DcaSold(a) ==
  LET px    == SlipDown(a.mark)
      trade == DcaTrade(a.dca, px, a.bar)
  IN [a EXCEPT !.cash = @ + DcaProceeds(a.dca, px),
               !.fees = @ + Taker(px * a.dca.base),
               !.realized = @ + trade.pnl, !.trades = Append(@, trade),
               !.dca.base = 0]

(* Slip: the accumulated base is sold but not cleared.                      *)
ForceClosedTwice(a) ==
  IF a.mark = None THEN a
  ELSE CASE a.kind = "rule" ->
              IF a.pos = None THEN a ELSE Closed(a, a.mark, "end_of_data")
         [] a.kind = "grid" ->
              LotsSold(a, DOMAIN a.grid, [l \in DOMAIN a.grid |-> SlipDown(a.mark)],
                       "end_of_data")
         [] a.kind = "dca" ->
              IF a.dca.base = 0 THEN a
              ELSE [DcaSold(a) EXCEPT !.dca.base = a.dca.base]

ForceClosed(a) ==
  IF a.mark = None THEN a
  ELSE CASE a.kind = "rule" ->
              IF a.pos = None THEN a ELSE Closed(a, a.mark, "end_of_data")
         [] a.kind = "grid" ->
              IF DOMAIN a.grid = {} THEN a
              ELSE LotsSold(a, DOMAIN a.grid, [l \in DOMAIN a.grid |-> SlipDown(a.mark)],
                            "end_of_data")
         [] a.kind = "dca" -> IF a.dca.base > 0 THEN DcaSold(a) ELSE a

-----------------------------------------------------------------------------
(* The snapshots that the query tools return: positions, balance, portfolio *)
(* and pnl.                                                                 *)

Equity(a) ==
  IF a.mark = None THEN a.cash
  ELSE a.cash
         + (IF a.pos = None THEN 0 ELSE Unrealized(a.pos, a.mark))
         + SumFunction([l \in DOMAIN a.grid |-> a.grid[l].size * a.mark])
         + a.dca.base * a.mark

(* The rule position only, marked to the latest close: what a grid or a DCA *)
(* account holds is not listed.                                             *)
Positions(a) ==
  IF a.pos = None THEN {}
  ELSE LET mark == IF a.mark = None THEN a.pos.entry ELSE a.mark
       IN {[side |-> a.pos.side, size |-> a.pos.size, mark |-> mark,
            unrealized |-> Unrealized(a.pos, mark)]}

(* The base currency held, negative when short.                             *)
Holdings(a) ==
  CASE a.pos # None -> IF a.pos.side = "long" THEN a.pos.size ELSE -a.pos.size
    [] a.pos = None -> SumFunction([l \in DOMAIN a.grid |-> a.grid[l].size])
                         + a.dca.base

Portfolio(a) ==
  [equity |-> Equity(a), cash |-> a.cash, position_value |-> Equity(a) - a.cash,
   position |-> Positions(a), mark |-> a.mark]

(* Slip: the entry fee and the funding of the open position are left out.   *)
PnlGross(a) ==
  LET unrealized == IF a.pos = None \/ a.mark = None THEN 0
                    ELSE Gross(a.pos, a.mark)
  IN [realized |-> a.realized, unrealized |-> unrealized, fees |-> a.fees,
      funding |-> a.funding, total |-> a.realized + unrealized]

Pnl(a) ==
  LET unrealized == IF a.pos = None \/ a.mark = None THEN 0
                    ELSE Unrealized(a.pos, a.mark)
  IN [realized |-> a.realized, unrealized |-> unrealized, fees |-> a.fees,
      funding |-> a.funding, total |-> a.realized + unrealized]
=============================================================================
