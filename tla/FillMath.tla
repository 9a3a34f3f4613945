------------------------------- MODULE FillMath -------------------------------
(* The fill arithmetic that the paper broker and the backtest's simulated   *)
(* broker share: the former calls its own a faithful port of the latter's.  *)
(*                                                                         *)
(* Money and base amounts are integers.  What the two brokers compute with  *)
(* percentages, divisions and rounding is left to the operators below, of   *)
(* which nothing is assumed but that they yield integers: the accounting    *)
(* must come out even for any fee, slippage and sizing.                     *)
EXTENDS Integers, Sequences, FiniteSets

CONSTANTS
  SlipUp(_),         (* price at which a buy fills                          *)
  SlipDown(_),       (* price at which a sell fills                         *)
  Taker(_),          (* fee on a notional                                   *)
  TargetSize(_, _),  (* base size for an equity and an entry price          *)
  StopDelta(_),      (* distance of the stop from the entry, or None        *)
  TakeDelta(_),      (* distance of the target from the entry, or None      *)
  FundingCharge(_),  (* funding on a notional for one interval              *)
  FundingOn,         (* perpetual symbol and funding enabled                *)
  BarHours, FundingInterval,
  Levels,            (* the grid's price levels                             *)
  GridSize(_),       (* base size of one level's slice at a fill price      *)
  DcaAmount, DcaMax, (* quote per DCA purchase; most purchases, or None     *)
  DcaQty(_, _),      (* base bought for an amount of money at a price       *)
  InitialCash,
  None               (* Python's None                                       *)

Position ==
  [side : {"long", "short"}, entry : Int, size : Int, fee : Int,
   stop : Int \cup {None}, take : Int \cup {None},
   held : Int, funding : Int, hours : Int]

ASSUME FillAssumption ==
  /\ FundingOn \in BOOLEAN
  /\ BarHours \in Nat /\ FundingInterval \in Nat \ {0}
  /\ Levels \subseteq Int /\ IsFiniteSet(Levels)
  /\ InitialCash \in Nat /\ DcaAmount \in Nat /\ DcaMax \in Nat \cup {None}
  /\ None \notin Int /\ None \notin Position

(* The rest of what the fills rest on, which speaks of all integers.        *)
FillsAreIntegers ==
  /\ \A p \in Int : /\ SlipUp(p) \in Int /\ SlipDown(p) \in Int
                    /\ Taker(p) \in Int /\ FundingCharge(p) \in Int
                    /\ GridSize(p) \in Int
                    /\ StopDelta(p) \in Int \cup {None}
                    /\ TakeDelta(p) \in Int \cup {None}
  /\ \A m, p \in Int : TargetSize(m, p) \in Int /\ DcaQty(m, p) \in Int

(* A fee takes no more than what is paid, slippage leaves a price that is   *)
(* not negative, and what is spent buys something.                          *)
FillsAreFair ==
  /\ \A n \in Nat : Taker(n) \in 0 .. n
  /\ \A p \in Nat \ {0} : SlipDown(p) \in Nat
  /\ \A m, p \in Nat \ {0} : DcaQty(m - Taker(m), SlipUp(p)) \in Nat \ {0}

Slip(price, sell) == IF sell THEN SlipDown(price) ELSE SlipUp(price)

RiskLevel(entry, delta, below) ==
  IF delta = None THEN None ELSE IF below THEN entry - delta ELSE entry + delta

NewPosition(side, equity, fill_open) ==
  LET px   == Slip(fill_open, side = "short")
      size == TargetSize(equity, px)
  IN [side |-> side, entry |-> px, size |-> size, fee |-> Taker(px * size),
      stop |-> RiskLevel(px, StopDelta(px), side = "long"),
      take |-> RiskLevel(px, TakeDelta(px), side = "short"),
      held |-> 0, funding |-> 0, hours |-> 0]

Gross(pos, px) ==
  IF pos.side = "long" THEN (px - pos.entry) * pos.size
                       ELSE (pos.entry - px) * pos.size

ExitFee(pos, px) == Taker(px * pos.size)

Unrealized(pos, mark) == Gross(pos, mark) - pos.fee - pos.funding

ClosedTrade(pos, px, reason) ==
  [side |-> pos.side, entry |-> pos.entry, exit |-> px, size |-> pos.size,
   pnl |-> Gross(pos, px) - pos.fee - ExitFee(pos, px) - pos.funding,
   fees |-> pos.fee + ExitFee(pos, px), funding |-> pos.funding,
   held |-> pos.held, reason |-> reason]

(* The price and reason of an intrabar exit, or None; the stop comes first. *)
RiskExit(pos, bar) ==
  LET Hit(level, falling) ==
        level # None /\ IF falling THEN bar.low <= level ELSE bar.high >= level
  IN IF Hit(pos.stop, pos.side = "long")
       THEN [px |-> pos.stop, reason |-> "stop_loss"]
     ELSE IF Hit(pos.take, pos.side = "short")
       THEN [px |-> pos.take, reason |-> "take_profit"]
     ELSE None

(* One more bar held, and the funding of every interval that has elapsed.   *)
HeldOneBar(pos, close) ==
  LET hours  == pos.hours + BarHours
      charge == (hours \div FundingInterval) * FundingCharge(close * pos.size)
  IN IF ~FundingOn THEN [pos EXCEPT !.held = @ + 1]
     ELSE [pos EXCEPT !.held = @ + 1, !.hours = hours % FundingInterval,
                      !.funding = IF pos.side = "long" THEN @ + charge
                                                       ELSE @ - charge]

(* The next level up, where a level's slice is sold, or None.               *)
GridTarget(level) ==
  LET above == {l \in Levels : l > level}
  IN IF above = {} THEN None ELSE CHOOSE l \in above : \A x \in above : l <= x

GridLot(level, bar) ==
  LET px == SlipUp(level)
  IN [size |-> GridSize(px), px |-> px, fee |-> Taker(px * GridSize(px)),
      bar |-> bar]

(* sorted(levels).                                                          *)
Ascending(levels) ==
  CHOOSE s \in [1 .. Cardinality(levels) -> levels] :
    \A i, j \in DOMAIN s : i < j => s[i] < s[j]

NoLots == [l \in {} |-> None]

LotCost(lot) == lot.px * lot.size + lot.fee

LotTrade(lot, px, bar, reason) ==
  [side |-> "long", entry |-> lot.px, exit |-> px, size |-> lot.size,
   pnl |-> (px - lot.px) * lot.size - lot.fee - Taker(px * lot.size),
   fees |-> lot.fee + Taker(px * lot.size), funding |-> 0,
   held |-> bar - lot.bar, reason |-> reason]

NoDca == [base |-> 0, cost |-> 0, fees |-> 0, count |-> 0, first |-> 0]

(* A purchase on the bar with number bar, out of some cash.                 *)
DcaSpend(cash) == IF DcaAmount <= cash THEN DcaAmount ELSE cash

DcaCapped(dca) == DcaMax # None /\ dca.count >= DcaMax

DcaBought(dca, spend, price, bar) ==
  [base  |-> dca.base + DcaQty(spend - Taker(spend), SlipUp(price)),
   cost  |-> dca.cost + spend,
   fees  |-> dca.fees + Taker(spend),
   count |-> dca.count + 1,
   first |-> IF dca.count = 0 THEN bar ELSE dca.first]

DcaProceeds(dca, px) == px * dca.base - Taker(px * dca.base)

DcaTrade(dca, px, bar) ==
  [side |-> "long", cost |-> dca.cost, exit |-> px, size |-> dca.base,
   pnl |-> DcaProceeds(dca, px) - dca.cost,
   fees |-> dca.fees + Taker(px * dca.base), funding |-> 0,
   held |-> bar - dca.first, reason |-> "end_of_data"]
=============================================================================
