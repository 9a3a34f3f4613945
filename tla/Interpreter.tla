---------------------------- MODULE Interpreter ----------------------------
(***************************************************************************)
(* engine/interpreter.py with strategy/spec.py and indicators/registry.py: *)
(* a strategy is accepted or rejected, then bars arrive one by one.  At    *)
(* every moment the backtest may evaluate all bars so far, and a live path *)
(* the last bar of a trailing window.                                      *)
(*                                                                         *)
(* Of the indicators there is one that looks at a window of Length bars    *)
(* (sma) and one that looks at everything before it (ema, seeded with the  *)
(* first sma); a strategy has one rule, since the four sides of a rule     *)
(* strategy are evaluated each for itself.                                 *)
(***************************************************************************)
EXTENDS RuleEvaluator, WalkForward, SequencesExt

CONSTANTS Num(_),   \* integers as numbers
          Payloads, \* specs: [type, indicators, rule, levels, interval]
          Feed,     \* per type: the bars [close, low, step] that may arrive
          MaxBars,  \* per type, bound: bars
          Length,   \* of the indicators
          None

ASSUME InterpreterAssumption ==
  /\ Length \in Nat \ {0}
  /\ {Num(k) : k \in {2, Length - 1, Length, Length + 1}} \subseteq Numbers
  /\ \A p \in Payloads :
       /\ p.type \in {"rule", "grid", "dca"} /\ p.indicators \subseteq {"sma", "ema"}
       /\ p.rule # None => p.rule \in Expressions /\ IsCondition(p.rule)
       /\ Feed[p.type] \subseteq [close : Numbers, low : Numbers, step : Nat]
  /\ None \notin Payloads

VARIABLES spec, bars, time
vars == <<spec, bars, time>>

OHLCV_COLUMNS == {"close", "low"}

(* StrategySpec: the block of the type and no other is present, and the    *)
(* rule uses what it may.                                                  *)
ValidSpec(p) ==
  /\ (p.type = "grid") = (p.levels # None)
  /\ (p.type = "dca") = (p.interval # None)
  /\ p.type = "rule" => p.rule # None
  /\ p.rule # None => ValidExpression(p.rule, OHLCV_COLUMNS \cup p.indicators)

-----------------------------------------------------------------------------
(* prepare: a frame of the bars with the columns of the indicators, NaN    *)
(* until they are warm.                                                    *)
Close(w) == [i \in DOMAIN w |-> w[i].close]

Mean(s) == Quotient(FoldLeft(LAMBDA x, y : Plus(x, y), Zero, s), Num(Length))
Sma(w) == [i \in DOMAIN w |-> IF i < Length THEN NaN
                             ELSE Mean(SubSeq(Close(w), i - Length + 1, i))]

Smoothed(ema, s) ==
  FoldLeft(LAMBDA e, x : Quotient(Plus(Times(Num(2), x), Times(Num(Length - 1), e)),
                                  Num(Length + 1)), ema, s)
Ema(w) == [i \in DOMAIN w |-> IF i <= Length THEN Sma(w)[i]
                             ELSE Smoothed(Sma(w)[Length], SubSeq(Close(w), Length + 1, i))]

Prepare(p, w) ==
  [c \in OHLCV_COLUMNS \cup p.indicators |->
     CASE c = "close" -> Close(w)
       [] c = "low"   -> [i \in DOMAIN w |-> w[i].low]
       [] c = "sma"   -> Sma(w)
       [] c = "ema"   -> Ema(w)]

-----------------------------------------------------------------------------
(* signals: what the strategy wants at each bar.                           *)
RuleSignals(p, w) ==
  LET enter == SeriesOf(p.rule, Prepare(p, w))
  IN [i \in DOMAIN w |-> [enter |-> enter[i], levels |-> {}, dca |-> FALSE]]

(* A level is triggered when the low comes down to it or through it.       *)
Triggered(p, w, i) ==
  {l \in p.levels : Compared("<=", w[i].low, l) /\ (i = 1 \/ Compared("<", l, w[i - 1].low))}
GridSignals(p, w) ==
  [i \in DOMAIN w |-> [enter |-> FALSE, levels |-> Triggered(p, w, i), dca |-> FALSE]]

(* The cadence of the timestamps, whichever the position in the window.    *)
DcaSignals(p, w) ==
  [i \in DOMAIN w |-> [enter |-> FALSE, levels |-> {}, dca |-> w[i].time % p.interval = 0]]

Signals(p, w) == CASE p.type = "rule" -> RuleSignals(p, w)
                   [] p.type = "grid" -> GridSignals(p, w)
                   [] p.type = "dca"  -> DcaSignals(p, w)

SignalAt(p, w) == Last(Signals(p, w))

-----------------------------------------------------------------------------
Init == spec = None /\ bars = << >> /\ time = 0

CreateStrategy(p) == /\ spec = None /\ ValidSpec(p)
                     /\ spec' = p
                     /\ UNCHANGED <<bars, time>>

(* The next bar; bars without a trade are missing from the data.           *)
BarArrives(b) ==
  /\ spec # None /\ Len(bars) < MaxBars[spec.type]
  /\ bars' = Append(bars, [close |-> b.close, low |-> b.low, time |-> time])
  /\ time' = time + b.step
  /\ UNCHANGED spec

Next == \/ \E p \in Payloads : CreateStrategy(p)
        \/ spec # None /\ \E b \in Feed[spec.type] : BarArrives(b)

Spec == Init /\ [][Next]_vars

-----------------------------------------------------------------------------
(* Trailing windows that end with bar i, and the bars a live path must     *)
(* supply: LIVE_WINDOW for a rule on the bars alone, one more than the     *)
(* lookback for a windowed indicator, all bars for a recursive one.        *)
WindowOf(i, n) == SubSeq(bars, i - n + 1, i)
Needed(i) ==
  IF spec.type = "dca" THEN 1
  ELSE IF spec.type = "rule" /\ "ema" \in Names(spec.rule) THEN i
  ELSE IF spec.type = "rule" /\ "sma" \in Names(spec.rule) THEN Length + 1
  ELSE 2

(* interpreter.py:3-11: the backtest's signal of bar i, computed with all  *)
(* later bars at hand, is the one the live path computes at bar i from any *)
(* window that is long enough or goes back to the first bar.  Nothing      *)
(* looks ahead, and no state hides outside the window.                     *)
BacktestIsLive ==
  spec # None =>
    LET all == Signals(spec, bars)
    IN \A i \in DOMAIN bars : \A n \in 1 .. i :
         n >= Needed(i) \/ n = i => all[i] = SignalAt(spec, WindowOf(i, n))

IsRule(p) == p # None /\ p.type = "rule"

ExtremaDefined(e, ctx) ==
  \A x \in Nodes(e) : x.op \in {"min", "max"} =>
    \A i \in DOMAIN x.args : ~IsNaN(ScalarOf(x.args[i], ctx))

(* evaluator.py:34-43: without crossings, the scalars of a bar give what   *)
(* the columns give in its row, though not, division and remainder have a  *)
(* branch of their own in either mode; the operands of min and max must be  *)
(* defined (see ExtremaAreParitySafe).                                     *)
ScalarIsSeries ==
  IsRule(spec) /\ ~Uses(spec.rule, Crossings) =>
    LET df == Prepare(spec, bars)
        series == SeriesOf(spec.rule, df)
    IN \A i \in DOMAIN bars :
         LET ctx == [c \in DOMAIN df |-> df[c][i]]
         IN ExtremaDefined(spec.rule, ctx) => ScalarOf(spec.rule, ctx) = series[i]

(* evaluator.py:34-39 has the operators and helpers "behave identically" in *)
(* the two modes, and _emin calls itself the "parity-safe binary form": the *)
(* same for min and max of whatever operands.                              *)
ExtremaAreParitySafe ==
  IsRule(spec) /\ ~Uses(spec.rule, Crossings) =>
    LET df == Prepare(spec, bars)
    IN \A i \in DOMAIN bars :
         ScalarOf(spec.rule, [c \in DOMAIN df |-> df[c][i]]) = SeriesOf(spec.rule, df)[i]

(* optimize.py:8-12: however many bars have come, no fold is scored on a   *)
(* bar it was trained on or before one, and the test windows follow upon   *)
(* each other up to the last bar.                                          *)
FoldsDoNotLeak == \A folds \in 2 .. 5 : Separate(Len(bars), folds)

-----------------------------------------------------------------------------
(* interpreter.py:149-150: "an undefined indicator value during the        *)
(* warm-up window is never a signal".  A rule that is a comparison with an *)
(* indicator, or the negation of one, is false until it is warm.           *)
OneComparison(e) == e.op \in Comparisons \/ (e.op = "not" /\ e.args[1].op \in Comparisons)
WarmupIsNoSignal ==
  IsRule(spec) /\ OneComparison(spec.rule) /\ Names(spec.rule) \cap {"sma", "ema"} # {} =>
    \A i \in DOMAIN bars : i < Length => ~Signals(spec, bars)[i].enter
=============================================================================
