--------------------------- MODULE StrategyRuntime ---------------------------
(* A strategy deployed on a paper session: at every bar the runtime first   *)
(* lets the paper broker fill what is pending, then asks the interpreter    *)
(* for the bar's signal and submits the intents it stands for.  The same    *)
(* bars and signals, walked by the backtest, must give the same account.    *)
(*                                                                         *)
(* A comment that begins with "Slip" introduces a variant of the definition *)
(* below it with a plausible mistake in it.                                 *)
EXTENDS PaperBroker

CONSTANTS
  RuleSets,   (* per strategy: the sets of flags its rules may raise at once*)
  Lookback,   (* per kind: the longest lookback of its indicators           *)
  FirstBar    (* per kind: the first bar on which a rule can be defined     *)

VARIABLES
  rules,      (* the sets of flags this strategy's rules may raise at once  *)
  low,        (* the low of the last bar, or None                           *)
  signal      (* signals(df)[i] for the last bar i, or None                 *)

deployed == <<rules, low, signal, vars>>

DeployedInit ==
  /\ Init
  /\ rules \in RuleSets
  /\ low = None
  /\ signal = None

-----------------------------------------------------------------------------
(* The interpreter: the backtest's signal of a bar.                        *)

RuleSignal(flags) == [flags |-> flags, levels |-> {}, dca |-> FALSE]
GridSignal(levels) == [flags |-> {}, levels |-> levels, dca |-> FALSE]
DcaSignal(buy) == [flags |-> {}, levels |-> {}, dca |-> buy]

Flags == {"enter_long", "enter_short", "exit_long", "exit_short"}

AllSignals ==
  {RuleSignal(f) : f \in SUBSET Flags} \cup {GridSignal(l) : l \in SUBSET Levels}
    \cup {DcaSignal(b) : b \in BOOLEAN}

ASSUME DeployAssumption ==
  /\ RuleSets \subseteq SUBSET (SUBSET Flags)
  /\ None \notin AllSignals
  /\ Lookback["rule"] \in Nat /\ FirstBar["rule"] \in Nat

(* Levels the price has dropped to or through on this bar.                  *)
Triggered(b) == {l \in Levels : b.low <= l /\ (low = None \/ l < low)}

(* A rule over indicators that are not yet defined is false.  The DCA       *)
(* cadence is that of the timestamps, which may have gaps.                  *)
SignalsAt(b, n) ==
  CASE acct.kind = "grid" -> {GridSignal(Triggered(b))}
    [] acct.kind = "dca"  -> {DcaSignal(buy) : buy \in BOOLEAN}
    [] acct.kind = "rule" ->
         IF n < FirstBar["rule"] THEN {RuleSignal({})}
                                 ELSE {RuleSignal(f) : f \in rules}

-----------------------------------------------------------------------------
(* StrategyRuntime.on_bar.                                                 *)

(* Slip: two more bars are held back, for a crossover's look-back.          *)
MinSignalBarsTwoMore ==
  IF Lookback[acct.kind] = 0 THEN 1 ELSE Lookback[acct.kind] + 2

(* Bars to have seen before the interpreter is asked.                       *)
MinSignalBars ==
  IF Lookback[acct.kind] = 0 THEN 1 ELSE Lookback[acct.kind] + 1

(* An exit states no side, and an entry both ways is long.                  *)
IntentsFor(sig) ==
  CASE acct.kind = "grid" -> SetToSeq({GridBuy(l) : l \in sig.levels})
    [] acct.kind = "dca"  -> IF sig.dca THEN <<Flag("dca")>> ELSE <<>>
    [] acct.kind = "rule" ->
         (IF sig.flags \cap {"exit_long", "exit_short"} # {}
            THEN <<Flag("exit")>> ELSE <<>>)
         \o (IF "enter_long" \in sig.flags THEN <<Flag("long")>>
             ELSE IF "enter_short" \in sig.flags THEN <<Flag("short")>>
             ELSE <<>>)

(* The broker fills what is pending before the signal is asked for.         *)
DeployedOnBar(b, sig) ==
  LET a == AfterBar(acct, b)
  IN /\ ~ended
     /\ acct.bar < MaxBars
     /\ acct' = IF a.bar < MinSignalBars THEN a
                ELSE AllSubmitted(a, IntentsFor(sig))
     /\ signal' = sig
     /\ low' = b.low
     /\ UNCHANGED <<rules, ended>>

(* stop_strategy at any bar boundary; before the first bar it has nothing   *)
(* to close.                                                                *)
Stop ==
  /\ ~ended
  /\ acct.mark # None
  /\ ForceClose
  /\ UNCHANGED <<rules, low, signal>>

DeployedNext ==
  \/ \E b \in Bars : \E sig \in SignalsAt(b, acct.bar + 1) : DeployedOnBar(b, sig)
  \/ Stop

DeployedSpec == DeployedInit /\ [][DeployedNext]_deployed

-----------------------------------------------------------------------------
(* Properties.                                                             *)

Backtest ==
  INSTANCE SimulatedBroker
    WITH kind <- acct.kind, cash <- acct.cash, pos <- acct.pos,
         trades <- acct.trades, filled <- acct.grid, dca <- acct.dca,
         prev <- signal, bar <- acct.bar, mark <- acct.mark,
         equity <- Equity(acct), done <- ended, Signals <- AllSignals

(* What parity rests on.  An intent to exit states no side, and of entries  *)
(* both ways only one is submitted: rules must not ask for both at once,    *)
(* nor for an exit of the side opposite to one they enter.                  *)
Enter == [long |-> "enter_long", short |-> "enter_short"]
ExitOpposite == [long |-> "exit_short", short |-> "exit_long"]

RulesAgree ==
  \A R \in RuleSets :
    /\ \A f \in R : ~({"enter_long", "enter_short"} \subseteq f)
    /\ \A side \in DOMAIN Enter :
         (\E f \in R : Enter[side] \in f) => \A f \in R : ExitOpposite[side] \notin f

(* The gate must not hold back a bar on which a rule can be defined.        *)
WarmupAgrees ==
  /\ Lookback["grid"] = 0 /\ Lookback["dca"] = 0
  /\ Lookback["rule"] = 0 \/ FirstBar["rule"] > Lookback["rule"]

(* The deployed strategy implements the backtest: bar by bar the same cash, *)
(* position, closed trades, grid slices, DCA holding and equity, and after  *)
(* a stop at any bar the same final trades and equity as a backtest of the  *)
(* bars so far.                                                             *)
Parity == Backtest!Spec
=============================================================================
