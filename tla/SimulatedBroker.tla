--------------------------- MODULE SimulatedBroker ---------------------------
(* The backtest: the engine's broker walks the bars of a data set with the  *)
(* signal the interpreter computes at each bar, fills every signal at the   *)
(* open of the next bar, and closes what is left at the last close.  It is  *)
(* the specification that a deployed strategy promises to implement.        *)
EXTENDS FillMath, FiniteSetsExt, SequencesExt

CONSTANTS
  Bars,     (* the bars a data set may hold: [open, high, low, close]       *)
  Signals   (* the signals the interpreter may compute                      *)

VARIABLES
  kind,     (* spec.strategy_type                                           *)
  cash, pos, trades,
  filled,   (* the slice held at each filled grid level                     *)
  dca,      (* what DCA has accumulated                                     *)
  prev,     (* the previous bar's signal [flags, levels, dca], or None      *)
  bar,      (* the number of bars walked                                    *)
  mark,     (* the close of the last of them, or None                       *)
  equity,   (* the last point of the equity curve                           *)
  done      (* has the run ended?                                           *)

vars == <<kind, cash, pos, trades, filled, dca, prev, bar, mark, equity, done>>

Init ==
  /\ kind \in {"rule", "grid", "dca"}
  /\ cash = InitialCash
  /\ pos = None
  /\ trades = <<>>
  /\ filled = NoLots
  /\ dca = NoDca
  /\ prev = None
  /\ bar = 0
  /\ mark = None
  /\ equity = InitialCash
  /\ done = FALSE

-----------------------------------------------------------------------------
(* The rule ledger, [cash, pos, trades], as one bar changes it.             *)

Ledger == [cash |-> cash, pos |-> pos, trades |-> trades]

Settled(l, px, reason) ==
  LET t == ClosedTrade(l.pos, px, reason)
  IN [cash |-> l.cash + t.pnl, pos |-> None, trades |-> Append(l.trades, t)]

Entered(l, side, b) == [l EXCEPT !.pos = NewPosition(side, l.cash, b.open)]

(* A position is left on the exit signal of its own side, or on an entry    *)
(* signal of the other side, and entries are only looked at when flat.      *)
Executed(l, sig, b) ==
  LET against == IF l.pos = None THEN {}
                 ELSE IF l.pos.side = "long" THEN {"exit_long", "enter_short"}
                                             ELSE {"exit_short", "enter_long"}
      leave == sig.flags \cap against # {}
      m == IF leave
             THEN Settled(l, Slip(b.open, l.pos.side = "long"), "signal") ELSE l
  IN IF m.pos # None THEN m
     ELSE IF "enter_long" \in sig.flags THEN Entered(m, "long", b)
     ELSE IF "enter_short" \in sig.flags THEN Entered(m, "short", b)
     ELSE m

Stopped(l, b) ==
  LET hit == IF l.pos = None THEN None ELSE RiskExit(l.pos, b)
  IN IF hit = None THEN l ELSE Settled(l, hit.px, hit.reason)

Carried(l, b) ==
  IF l.pos = None THEN l ELSE [l EXCEPT !.pos = HeldOneBar(@, b.close)]

RuleBar(b) ==
  LET l == Carried(Stopped(IF prev = None THEN Ledger
                                          ELSE Executed(Ledger, prev, b), b), b)
  IN /\ cash' = l.cash /\ pos' = l.pos /\ trades' = l.trades
     /\ equity' = l.cash + IF l.pos = None THEN 0
                                           ELSE Unrealized(l.pos, b.close)
     /\ UNCHANGED <<filled, dca>>

-----------------------------------------------------------------------------
(* Slices of lots are sold lowest level first, each at its price.           *)
Sales(lots, levels, price, reason) ==
  LET order == Ascending(levels)
  IN [k \in DOMAIN order |->
        LotTrade(lots[order[k]], price[order[k]], bar', reason)]

SalesCash(lots, levels, price) ==
  SumFunction([l \in levels |-> price[l] * lots[l].size
                                 - Taker(price[l] * lots[l].size)])

GridBar(b) ==
  LET buys   == IF prev = None THEN {} ELSE prev.levels \ DOMAIN filled
      lots   == [l \in DOMAIN filled \cup buys |->
                   IF l \in buys THEN GridLot(l, bar') ELSE filled[l]]
      due    == {l \in DOMAIN lots :
                   GridTarget(l) # None /\ b.close >= GridTarget(l)}
      price  == [l \in due |-> SlipDown(GridTarget(l))]
  IN /\ cash' = cash - SumFunction([l \in buys |-> LotCost(lots[l])])
                     + SalesCash(lots, due, price)
     /\ filled' = [l \in DOMAIN lots \ due |-> lots[l]]
     /\ trades' = trades \o Sales(lots, due, price, "take_profit")
     /\ equity' = cash' + SumFunction([l \in DOMAIN lots \ due |->
                                       lots[l].size * b.close])
     /\ UNCHANGED <<pos, dca>>

DcaBar(b) ==
  LET spend == DcaSpend(cash)
      buys  == prev # None /\ prev.dca /\ ~DcaCapped(dca) /\ spend > 0
  IN /\ IF buys THEN /\ dca' = DcaBought(dca, spend, b.open, bar')
                     /\ cash' = cash - spend
                ELSE UNCHANGED <<dca, cash>>
     /\ equity' = cash' + dca'.base * b.close
     /\ UNCHANGED <<pos, trades, filled>>

(* One bar, and the signal the interpreter computes at its close.           *)
WalkBar(b, sig) ==
  /\ ~done
  /\ prev' = sig
  /\ mark' = b.close
  /\ bar' = bar + 1
  /\ \/ kind = "rule" /\ RuleBar(b)
     \/ kind = "grid" /\ GridBar(b)
     \/ kind = "dca"  /\ DcaBar(b)
  /\ UNCHANGED <<kind, done>>

(* The bars are exhausted: what is open is closed at the last close.        *)
RuleEnds ==
  LET l == IF pos = None THEN Ledger ELSE Settled(Ledger, mark, "end_of_data")
  IN cash' = l.cash /\ trades' = l.trades

GridEnds ==
  LET price == [k \in DOMAIN filled |-> SlipDown(mark)]
  IN /\ cash' = cash + SalesCash(filled, DOMAIN filled, price)
     /\ trades' = trades \o Sales(filled, DOMAIN filled, price, "end_of_data")

DcaEnds ==
  IF dca.base > 0
    THEN /\ cash' = cash + DcaProceeds(dca, SlipDown(mark))
         /\ trades' = Append(trades, DcaTrade(dca, SlipDown(mark), bar))
    ELSE UNCHANGED <<cash, trades>>

Finish ==
  /\ ~done
  /\ mark # None
  /\ done' = TRUE
  /\ bar' = bar
  /\ pos' = None
  /\ filled' = NoLots
  /\ dca' = [dca EXCEPT !.base = 0]
  /\ \/ kind = "rule" /\ RuleEnds
     \/ kind = "grid" /\ GridEnds
     \/ kind = "dca"  /\ DcaEnds
  /\ equity' = cash'
  /\ UNCHANGED <<kind, prev, mark>>

Next == (\E b \in Bars, sig \in Signals : WalkBar(b, sig)) \/ Finish

Spec == Init /\ [][Next]_vars
=============================================================================
