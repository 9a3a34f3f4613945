----------------------------- MODULE PaperBroker -----------------------------
(* The paper broker of one session under any mix of calls: orders of a      *)
(* strategy and of clients, cancels, bars, and force-closes when the        *)
(* session ends.                                                            *)
EXTENDS PaperAccount

CONSTANTS
  Bars,       (* the bars a feed may deliver: [open, high, low, close]      *)
  MaxBars,    (* bound: bars per session                                    *)
  MaxOrders   (* bound: orders submitted per session                        *)

ASSUME BarsAssumption ==
  /\ \A b \in Bars : {b.open, b.high, b.low, b.close} \subseteq Nat \ {0}
  /\ MaxBars \in Nat

VARIABLES
  acct,   (* the account                                                    *)
  ended   (* has the session been force-closed?                             *)

vars == <<acct, ended>>

Init == acct \in {NewAccount(kind) : kind \in Kinds} /\ ended = FALSE

NumSubmitted(a) == Len(SelectSeq(a.orders, LAMBDA o : o.intent # Flag("close")))

(* The runtime's intents and manual orders, in any mix.                     *)
Submit(intent) ==
  /\ NumSubmitted(acct) < MaxOrders
  /\ acct' = Submitted(acct, intent)
  /\ UNCHANGED ended

Cancel(k) ==
  /\ k \in DOMAIN acct.orders
  /\ acct.orders[k].status = "open"
  /\ acct' = Canceled(acct, k)
  /\ UNCHANGED ended

(* A runtime that was stopped and finalized sees no further bar             *)
(* (SessionLifecycle).                                                      *)
OnBar(bar) ==
  /\ ~ended
  /\ acct.bar < MaxBars
  /\ acct' = AfterBar(acct, bar)
  /\ UNCHANGED ended

ForceClose ==
  /\ acct' = ForceClosed(acct)
  /\ ended' = (ended \/ acct.mark # None)

Next ==
  \/ \E intent \in Intents : Submit(intent)
  \/ \E k \in 1 .. Len(acct.orders) : Cancel(k)
  \/ \E bar \in Bars : OnBar(bar)
  \/ ForceClose

Spec == Init /\ [][Next]_vars

-----------------------------------------------------------------------------
(* Properties.                                                             *)

TradePnl(trades)  == SumFunction([k \in DOMAIN trades |-> trades[k].pnl])
TradeFees(trades) == SumFunction([k \in DOMAIN trades |-> trades[k].fees])

SliceCost(lots) == SumFunction([l \in DOMAIN lots |-> LotCost(lots[l])])
SliceFees(lots) == SumFunction([l \in DOMAIN lots |-> lots[l].fee])

DcaCost(dca) == IF dca.base > 0 THEN dca.cost ELSE 0
DcaFees(dca) == IF dca.base > 0 THEN dca.fees ELSE 0

(* Every variable holds a value of its kind.                                *)
TypeOK ==
  /\ acct.kind \in Kinds
  /\ ended \in BOOLEAN
  /\ {acct.cash, acct.realized, acct.fees, acct.funding} \subseteq Int
  /\ acct.mark \in Int \cup {None}
  /\ acct.bar \in 0 .. MaxBars
  /\ acct.pending \subseteq Intents
  /\ DOMAIN acct.grid \subseteq Levels
  /\ \A k \in DOMAIN acct.orders :
        acct.orders[k].status \in {"open", "filled", "canceled"}

(* No money appears or disappears: cash is the initial cash plus the pnl of *)
(* the closed trades, less what the open grid slices and the DCA holding    *)
(* have cost; the realized counter is the sum over the trade history.       *)
CashReconciles ==
  /\ acct.realized = TradePnl(acct.trades)
  /\ acct.cash = InitialCash + acct.realized - SliceCost(acct.grid) - DcaCost(acct.dca)

(* fees_paid is the fees of the closed trades plus those already paid on    *)
(* what is open.                                                            *)
FeesReconcile ==
  acct.fees = TradeFees(acct.trades) + SliceFees(acct.grid) + DcaFees(acct.dca)
                + (IF acct.pos = None THEN 0 ELSE acct.pos.fee)

(* get_pnl and get_portfolio tell the same story: the total is what equity  *)
(* has gained since the start, but for what the slices of a grid and a DCA  *)
(* holding are worth above their cost, which get_pnl leaves out; and the    *)
(* position that get_positions lists accounts for all of the unrealized     *)
(* part.                                                                    *)
PnlExplainsEquity ==
  LET cost == SliceCost(acct.grid) + DcaCost(acct.dca)
      gain == IF DOMAIN acct.grid = {} /\ acct.dca.base = 0 THEN 0
              ELSE Holdings(acct) * acct.mark - cost
  IN /\ Pnl(acct).total + gain = Portfolio(acct).equity - InitialCash
     /\ Pnl(acct).unrealized
          = SumFunction([p \in Portfolio(acct).position |-> p.unrealized])

(* Ending a session leaves no inventory, and ending it again, which         *)
(* stop_strategy allows, books nothing twice.                               *)
EndIsFinal ==
  [][ended => acct'.trades = acct.trades /\ acct'.cash = acct.cash]_vars

(* DCA buys never overdraw the account nor exceed max_purchases.            *)
DcaWithinMeans ==
  acct.kind = "dca" =>
    acct.cash >= 0 /\ (DcaMax = None \/ acct.dca.count <= DcaMax)

(* A position is only opened on behalf of an entry that was submitted since *)
(* the previous bar: no intent acts twice, and none acts later than the     *)
(* next bar.                                                                *)
EntryNeedsFreshIntent ==
  [][acct.pos = None /\ acct'.pos # None =>
       \E k \in DOMAIN acct.orders :
          /\ acct.orders[k].intent = Flag(acct'.pos.side)
          /\ acct.orders[k].bar = acct.bar]_vars

-----------------------------------------------------------------------------
(* What the documentation promises and the code does not keep.              *)

(* "fees_paid and funding_paid are lifetime sums already reflected in the   *)
(* realized/unrealized figures": the total of get_pnl is what equity has    *)
(* gained.                                                                  *)
PnlIsWhole == Pnl(acct).total = Portfolio(acct).equity - InitialCash

(* "paper -> cancels the pending order in the in-process broker": an order  *)
(* that was cancelled before the bar does not open a position.              *)
CanceledNeverFills ==
  [][acct.pos = None /\ acct'.pos # None =>
       \E k \in DOMAIN acct.orders :
          /\ acct.orders[k].intent = Flag(acct'.pos.side)
          /\ acct.orders[k].bar = acct.bar
          /\ acct.orders[k].status # "canceled"]_vars
=============================================================================
