# trader-mcp in TLA+

trader-mcp is an MCP server that lets a client research, backtest and run
trading strategies: it fetches market data, walks strategies over history, and
runs them on *execution sessions* in paper or exchange-sandbox ("testnet")
mode. This directory holds TLA+ models of the parts of it that decide what is
traded, the TLC configurations that check them, and TLAPS proofs about them.
Paths below are relative to `src/trader_mcp/` of the repository.

Every model is a translation of code. In a comment, "Slip" introduces a variant
of the definition that follows it with a plausible programming mistake in it;
`PROJECT.json` pairs each checked property with the slip it must catch.

## 1. Inventory

One process, one asyncio event loop. MCP tools are coroutines or plain
functions; two tool calls only interleave where one of them awaits. What is
written to disk is market data, strategies and reports: sessions, orders and
safety state die with the process.

| Part | State | Operations | Works with | Hard behaviour | What makes it correct | Modelled by |
|---|---|---|---|---|---|---|
| Manual order path (`server/execution.py` `place_order`, `safety/idempotency.py`) | per-session sequence numbers, the set of client order ids seen, id -> result | place an order: manager.get, preflight, claim of the id, simulate or route, remember the result | safety controller, exchange manager, adapter, paper broker | venue timeouts and retries, resubmissions while an answer is awaited, restart | one id, one order; a result is the order's own; no stretch between check and claim gives way; calls end | OrderPath |
| Execution tools over sessions (`server/execution.py`) | manual brokers, session registry | start_session, place_order on paper, cancel_order, open orders, deploy | safety tools, runtime | two registries of brokers, one shadowing the other; dry-run orders of testnet sessions, kept on a paper broker | an accepted order is where the risk check looks, and on a paper session can be found and cancelled | TradingTools (in dry run, its default; testnet cancels and queries ask the venue, which has no order then) |
| Safety controller (`safety/controller.py`, `kill_switch.py`, `risk.py`, `policy.py`) | global and per-exchange halts, risk limits | engage/reset, set limits, preflight | every `place_order` | limits read from snapshots; normalized scopes | no order while halted or over a cap | SafetyControl; the gate in OrderPath |
| Safety tools (`server/safety.py`) | none of its own | kill_switch engage cancels open paper orders over all sessions | session registry, manual brokers | misspelt scopes, running strategies | what a halt leaves open | TradingTools, SafetyControl |
| Arming, audit (`safety/arming.py`, `audit.py`) | tickets with expiry, bounded ring | arm, prune, record | controller | wall clock set back, ring full | armed only by a live grant; the trail tells what is in force | SafetyControl (the audit tool's query filters left out) |
| Session registry (`execution/session.py`), deploy/stop tools | per session: runtime, broker, feed, task, state, error | open, deploy, start, stop, status | run-loop tasks, manager.get | concurrent deploys and stops, cancellation racing failure | one loop; a stop stops and flattens; status is true | SessionLifecycle |
| Strategy runtime (`execution/runtime.py`) | bar buffer, stop flag | on_bar: fill, then signal, then intents; run loop | interpreter, broker, feed | warm-up gate; order within a bar | same trades as the backtest | StrategyRuntime |
| Paper broker (`execution/paper_broker.py`) | cash, position, pending flags, order records, grid slices, DCA holding, counters | submit, on_bar, cancel, force_close, snapshots | runtime, `place_order`, kill switch | intents outliving their bar, reversal and stop on one bar, repeated force-close | money is conserved; intents act once | FillMath, PaperAccount, PaperBroker (`apply_fills` left out) |
| Backtest (`engine/broker.py`, `engine/backtest.py`) | locals of one run | run | interpreter | next-bar fills | the reference for the runtime | FillMath, SimulatedBroker |
| Interpreter (`engine/interpreter.py`) | none | signals of a frame | indicators, evaluator | causality, trailing window | same signal live and in backtest | Interpreter |
| Specification and evaluator (`strategy/spec.py`, `evaluator.py`), indicators | none | validate a rule, evaluate it over columns or one bar | interpreter | undefined values, division by zero | both modes agree | RuleEvaluator (sizing and risk fields, indicator formulas left out) |
| Optimizer (`engine/optimize.py`) | none | walk-forward folds | backtest | window boundaries | no fold is scored on what it was trained on | WalkForward (the sweep left out) |
| Exchange adapter (`exchanges/adapter.py`) | ccxt client, throttle | REST calls with retries, websocket watch loops | venue | retries, key scope, reconnects, watch caches re-delivered | a request goes where it was asked for, if at all | ExchangeGateway (of the watch streams: candles) |
| Exchange manager (`exchanges/manager.py`) | adapters by (exchange, mode) | get, aclose_all | every tool; `server/app.py:153-164` and `validate.py:243` close | adapters are closed across an await, after the cache is emptied; the closing may be cancelled | an open adapter is cached or being closed; none is handed out once taken | ExchangeGateway |
| History (`data/sync.py`, `store.py`, `quality.py`) | parquet and manifest files | sync a range, repair gaps, write | adapter | interrupted sync, gaps, crash inside a write | the cache only grows; gaps are filled or named | HistorySync, HistoryCache (listings left out) |
| Market data tools (`server/market_data.py`, `historical.py`) | none | one public read, or a sync | adapter, history | - | - | the operations of ExchangeGateway and HistorySync |
| Reports and metrics, strategy library, server wiring, prompts, resources, configuration, logging, redaction | none, or one file per object | - | - | - | - | not modelled, section 7 |

The hazards that follow from this table, each at its line and with the
properties aimed at it, are in `PROJECT.json` under "hazards".

## 2. Modules

```
OrderPath        <- OrderPathProofs, MCOrderPath
SessionLifecycle <- SessionLifecycleProofs, MCSessionLifecycle
TradingTools     <- TradingToolsProofs, MCTradingTools
SafetyControl    <- SafetyControlProofs, MCSafetyControl
ExchangeGateway  <- ExchangeGatewayProofs, MCExchangeGateway

HistoryCache --INSTANCE--> HistorySync <- HistorySyncProofs, MCHistorySync
                 (HistorySync implements HistoryCache)

FillMath <- PaperAccount <- PaperBroker <- PaperBrokerProofs, MCPaperBroker
   ^                            ^---- StrategyRuntime <- MCStrategyRuntime
   +- SimulatedBroker --INSTANCE--> StrategyRuntime
                 (StrategyRuntime implements SimulatedBroker)

RuleEvaluator <- Interpreter <- InterpreterProofs, MCInterpreter
WalkForward   <----+
```

An arrow `<-` is EXTENDS; PaperBrokerProofs extends StrategyRuntime too, and holds the
proofs about both. No module has a RECURSIVE operator: what walks a syntax tree is a
function on `Expressions`.

**OrderPath** models `place_order` (`server/execution.py:254-523`) with everything it
calls. `pc[c]` says at which await a call is: `adapter` (manager.get), `awaiting`
(the network call inside `create_order`), `backoff` (the sleep between attempts). The
await of manager.get never gives way: it takes a lock whose holder awaits nothing
that suspends (`exchanges/manager.py:62-77`). OrderPath and SessionLifecycle let
others run there all the same, so that they have more behaviours than the code and
what holds of them does not rest on that. `PlacePaperOrder` is the whole call of a
paper session, which never awaits; `PlaceTestnetOrder` runs up to manager.get and
`AdapterReady`/`AdapterUnavailable` from there. `Decide` is the synchronous stretch
from the risk inputs to the reservation of the id: derive the id, ask the controller
(`Refused`: cap, halt, gate), find the id claimed (`Duplicate`), or claim it
(`Admit`) and be refused by the order model, simulate, or route. `CreateOrderOk`,
`CreateOrderRejected`, `TransientError` and `Retry` are the adapter's retry loop.
`Deliver`/`RequestLost`/`VenueBooks`/`VenueRefuses` are the sandbox exchange, outside
the repository: requests may be lost, a timed-out request may still be booked, and
the venue may refuse a client order id that it has already booked, or not. `Restart`
kills every call and empties the registry and the safety state. The id
`make_client_order_id` hashes is modelled as the triple it hashes (session, leg,
seq): SHA-256 prefixes are taken to be distinct. `FreshSafetyCheck` says that the
stretch from the check to the claim has no await in it.

**SessionLifecycle** models one session (`execution/session.py:38-160`,
`runtime.py:298-323`, the deploy and stop tools). A deploy brings its own runtime and
at most one task, so deploys index all three. `DeployPaper` never awaits;
`DeployTestnet` binds a runtime and then awaits manager.get, after which `FeedReady`
starts whatever runtime the session *then* holds (`drives`). `loop[d]` distinguishes
a task that has not run yet, waits for its feed, has yielded after a bar, or is done.
That a deploy starts a runtime that another deploy has bound is, as said above, more
than the code does. `StopStrategy` is `stop` up to the await of the cancelled task,
`StopResumes` the rest. Tasks may be resumed in any order: asyncio runs ready
callbacks first come first served, so the model has a few more interleavings than one
loop produces and misses none. `finalized` is a history variable.

**FillMath** is the fill arithmetic both brokers share (`engine/broker.py` is the
original, `paper_broker.py` its port). Percentages, divisions and rounding are
operator constants that yield integers: fee, slippage, size, stop distance,
funding. What is checked is accounting, which must hold for any of them. Sums over
slices and trades are folds of functions, and `Ascending` is `sorted`.

**PaperAccount** is the paper broker's state as one record and its methods as
functions on it, `AfterBar` being `on_bar` whole (fill, risk exit, funding,
clearing of the pending flags). **PaperBroker** makes steps of them in any order
a client can cause: `Submit`, `Cancel`, `OnBar`, `ForceClose`.

**SimulatedBroker** is the backtest (`engine/broker.py:95-540`), a state machine
of its own with one step per bar and one for the close of the last bar. It is
the abstract specification: the documentation of the runtime promises that a
deployed strategy gives "identical trades/fills/equity" to it.

**StrategyRuntime** is `on_bar` of the runtime over the state of PaperBroker, whose
`ForceClose` is the end of its `Stop`: the broker advances, then, past the warm-up
gate, the bar's signal becomes intents. Its own state and steps are named for the
deployment (`DeployedInit`, `DeployedOnBar`, `DeployedSpec`). `Parity`
is the SimulatedBroker's specification under the refinement mapping that reads
the account as the backtest's locals and the interpreter's last signal as
`signals[i-1]`. It compares cash, position, trades, grid slices, DCA holding and
equity at every bar, and the final trades and equity after a stop at any bar.

PaperAccount also has the snapshots, which are read by tools and by the risk
check: `Positions`, `Portfolio` and `Pnl` as the code computes them, each its own
way.

**TradingTools** composes what the tools do over several sessions: a session's
manual broker and the broker of its deployed strategy; `StartSession`, `PlaceOrder`,
`CancelOrder`, `DeployStrategy`, a loop's own `StrategySubmits`, and
`EngageKillSwitch` with its sweep over all paper sessions, whose scope is compared as
typed while the halt is normalized. The dry run is on, as it is by default: an order
of a testnet session is recorded on a paper broker like that of a paper session.
`Held` is the broker `_read_paper_broker` picks, from which the risk check of the
next order is fed in both modes; `OpenOrders` is what `get_open_orders` returns: on a
paper session the open ones of `Held`, on a testnet session those of the exchange,
which has none. TradingTools says which broker an order is in; what a bar does with
it is PaperBroker's.

**SafetyControl** is the controller itself: halts, every cap of `RiskLimits`
against the context an order brings, tickets under a wall clock that may be set
back, and the audit ring. `Preflight` takes the answer of the gate for one order
as an input, as OrderPath has the gate. Each action writes its audit entries in
the order of the code: a preflight its intent or denial, and where `place_order` goes
on without an await, the `order_result` behind it; an order that is routed
(`routed`) has its result when the venue has answered (`OrderAnswered`), with
anything in between. `GetSafetyStatus` prunes tickets and writes none.

**HistorySync** lets several `sync_history` calls of one dataset interleave at
their fetches. Between two awaits a call runs straight: `AfterPage` and
`AfterGapPage` are those stretches, with paging, flushing, the manifest, gap
detection and gap repair, and return the possible outcomes (cache, manifest, call).
A crash may happen between stretches, after the rename of the data file with the
first manifest missing or torn (`CrashInWrite`), or in the middle of the stamp,
which rewrites the manifest in place (`CrashInStamp`). **HistoryCache** is the
abstract specification: rows of published candles are stored, no bar is ever lost.

**ExchangeGateway** is the way to the venue: `Get` with its cache, creation and the
refusal of an exchange without a sandbox, the key-scope gate, the request with its
attempts, and one candle stream with backoff. `aclose_all` is four actions:
`AcloseAll` takes the adapters out of the cache under the lock, `ClosingsBegin` is the
first step of the gathered tasks, each of which flags its adapter as closed and awaits
its client, `ClosingEnds` the return of one client, and `AcloseAllCancelled` the
cancellation of the gather, which leaves adapters as they are. `gathers` are the
closings under way; between the first two steps a `get` may create a second open
adapter of a key. `sent` records where each request went. `Call` stands for every operation
of the adapter, in three classes: public reads, private operations, credential
checks; the tools differ only in the class and in the environment they name.

**RuleEvaluator** has expressions as syntax trees (`Expressions`, each with a height
`Depth`), their validation, and the two modes of `evaluate_expression`: `SeriesOf`
over columns and `ScalarOf` over one bar, each a function on trees that applies one
step of `_eval_node` (`ColumnOf`, `ValueOf`) to the values of the arguments. The
arithmetic is abstract: operators on a set of numbers with an undefined one among
them. Division and remainder have an operator for each mode (`SafeDiv`,
`SafeDivColumns`), as the code has a branch for each: over one bar a zero divisor
yields NaN at once, over a column it is replaced by NaN before dividing. What the
evaluator asks of floats is `FloatsBehave`; in MCInterpreter they are fractions in
lowest terms, and NaN the one without a denominator, so that divisions are exact and
undefined values spread as in the code. Equal numbers are the same number: floats
have two zeros, which no operator of the evaluator tells apart, since it does not
divide by them. **Interpreter** accepts a strategy and lets bars arrive; at each
moment the signals of all bars and of the trailing window exist. There is one
windowed indicator (`sma`) and one that needs the whole prefix (`ema`).
**WalkForward** is the windows of the optimizer's folds.

## 3. Runs

| Run | Instance | States | Shows |
|---|---|---|---|
| `order_path` | 2 calls, a testnet and a paper session on two exchanges, 5 kinds of request, 2 attempts, 1 restart, one cap, one misspelt-case scope | 388,840 | type, `SingleClaim`, `OneSenderPerId`, `ResultsAreReal`, `AnswerIsOwnOrder`, `AutoIdsDistinct`, `FreshSafetyCheck`, `CallsFinish` |
| `session_lifecycle` | 3 deploys, 2 stops, either mode | 318,572 | type, `OneLoop`, `FinalizedStaysFlat`, `RunningMeansLive`, `ErrorSticks`, `StopReturns` |
| `trading_tools` | 2 sessions on two exchanges, paper or testnet in dry run, an order a session, a signal a broker, scopes right, misspelt and `*` | 240,760 | type, `HaltLeavesNoClientOrder`, `SweepWithinHalt`, `AcceptedIsBooked` |
| `safety_control` | one exchange, 3 scopes, 3 clock values, ttls up to one too long, ring of 3, 4 entries | 1,460,310 | type, `AuditTells`, `ArmedByLiveGrant` |
| `market_feed` | 3 exchanges (complete, without a sandbox, without keys), 2 callers, 2 calls of 2 attempts, 2 adapters, 2 candles | 2,428,029 | type, `SentAsAsked`, `CachedOrTaken` |
| `history_sync` | 2 slots, 3 calls, venue bars 0, 1, 3, 5, 7, a clock step, 1 crash | 26,813 | type, `GapsFilled`, `StampSticks`, `OnlyGrows`, `SyncEnds` |
| `paper_broker` | 3 bars out of 4 shapes, 3 orders, each of rule, grid, DCA | 1,311,435 | type, `CashReconciles`, `FeesReconcile`, `DcaWithinMeans`, `PnlExplainsEquity`, `EndIsFinal`, `EntryNeedsFreshIntent` |
| `parity` | up to 6 bars of 4 shapes, one-sided and reversal rule sets, grid, DCA | 256,011 | `Parity` |
| `interpreter` | a grammar of rules over 4 bars, grid over 5, DCA over 11, indicators of 2 bars | 93,772 | `BacktestIsLive`, `ScalarIsSeries`, `FoldsDoNotLeak` |
| `resubmission` | as `order_path` | - | violated, see section 4 |
| `stop_force_closes` | 2 deploys, 1 stop | - | violated |
| `dry_run_orders` | as `trading_tools` | - | violated |

Why the bounds are enough. Every property of the order path speaks of at most two
calls, and a call meets all its cases (retry, exhaustion, late booking) with two
attempts; one restart puts calls in two lives. Three deploys are the least with which
a task drives a runtime bound by another deploy while a third is in progress; two
stops await and re-stop. The sweep of the kill switch is one loop over sessions and
one over orders: two sessions on different exchanges show what it reaches and spares,
and a broker with one client order and one of its strategy what it misses. The ring
of three is full and drops an entry within the four entries, two of which one order
may write, and a grant, its revocation and a second grant need three. The venue's
bars leave holes that no fetch can fill beside gaps that one can; with pages of one
bar a sync and a gap need several, the flush threshold of three is crossed within a
call, a full range has more gaps than the two a call may repair, and three calls put
one before, one beside and one after a crash. Two adapters are one key twice, or two
keys. Three bars let an intent be submitted, filled, and be missing or repeated on
the next; the four bar shapes cross each grid level both ways and hit stop, target,
and both on one bar; the funding interval does not divide the bar, so that remainders
carry over. The arithmetic constants are deliberately not proportional to price
(`MCTaker`, `MCSlipUp`), so that a fee counted twice or not at all cannot cancel out.
Six bars put a lookback of one, the gate, an entry, a reversal and an exit in one
behaviour. A moving value of two bars, a crossover over it and one bar more make
four; the DCA interval needs eleven to come round. The theorems of section 5 lift
these properties, but for liveness, to every value of the constants, and of liveness
the part that is safety.

The named bounds are `MaxRestarts`, `MaxAttempts` (the code's `MAX_RETRIES`),
`MaxSessions`, `MaxOrders`, `MaxSignals`, `MaxEntries`, `MaxAdapters`, `MaxCalls`,
`MaxCandles`, `MaxCrashes`, `LastNow` and `MaxBars`. `Capacity`, `MaxTTL`, `FlushAt`,
`MaxGapRepairs`, `MaxRetries` and `MaxBackoff` are constants of the code, made
small. Deadlock is not checked where the system may stop: no client has to
deploy, place, sync or feed another bar once the bound is reached. `order_path`,
`trading_tools` and `safety_control` never deadlock, as the operator can always act.

Symmetry is used where callers are interchangeable (`market_feed`), and not with
liveness.

Fairness. `CallsFinish` assumes that a call that can be resumed is resumed
(asyncio runs every ready task) and that ccxt gives a request up after its
timeout, so an await of the network ends; it assumes nothing of the venue or of
clients. `StopReturns` assumes that a cancelled task is resumed with the
cancellation and that a stop whose task is done is resumed; it assumes no bar
of the feed. `SyncEnds` assumes that a fetch under way is answered at some time if
it does not fail, as the adapter bounds both its attempts and the time of each;
it does not assume that any fetch fails, that clients cancel or that the venue's
clock stands. All are weak fairness of single actions; strong fairness is nowhere
needed.

## 4. Where code and documentation disagree

Three runs each check one sentence the repository says of itself, and are violated.

1. `resubmission`: the id is recorded before there is a result, and the duplicate
   branch reads `order_results[coid]`: a resubmission during or after a failed
   first call raises `KeyError` where the docstring promises the prior record
   (`server/execution.py:379-381`, `:486`).
2. `stop_force_closes`: `stop` re-reads `session.runtime` after its await; a deploy
   in between has bound another, and the cancelled loop's position stays open
   (`execution/session.py:142-160`, `server/execution.py:693-694`).
3. `dry_run_orders`: with the dry run on, an order of a testnet session is
   acknowledged and lies on a paper broker, but `get_open_orders` and `cancel_order`
   of that session ask the exchange and the kill switch leaves testnet sessions out,
   so that no tool lists or cancels it (`server/execution.py:499-504` against
   `:579-586`, `:542-552` and `server/safety.py:255-256`).

The same kind of disagreement is reproduced by configurations that are kept beside
the runs (`tlc -config X.cfg` with the MC module of the component):

| Configuration | Module | Property | What happens |
|---|---|---|---|
| `OrderPathOmittedSeq` | MCOrderPath | `OmittedSeqIsNewOrder` | An explicit `seq` does not move the automatic counter, so a call without one can be taken for a retry of an older order (`server/execution.py:377-378`, `:476`). |
| `TradingShadowedOrders` | MCTradingTools | `SweepScansBothBrokers` | The sweep of the kill switch, which "scans the registry's deployed-session brokers AND the execution lane's manual paper brokers", takes the manual one only where no strategy was deployed: an order placed before the deploy stays open (`server/safety.py:246-247`, `:257`). |
| `TradingStarHalt` | MCTradingTools | `StarHaltsEverything` | A halt of scope `*`, which tickets and the safety status use as the name of everything, is kept as that of an exchange called `*` and halts nothing (`safety/kill_switch.py:65`, `server/safety.py:207-209`). |
| `PaperCancel` | MCPaperBroker | `CanceledNeverFills` | `cancel` changes the record's status but not the pending flag: the cancelled order fills at the next bar (`server/execution.py:529-530`, `execution/paper_broker.py:658-664`). |
| `PaperPnl` | MCPaperBroker | `PnlIsWhole` | The realized and unrealized figures, said to reflect all fees (`execution/models.py:285-286`), know nothing of open grid slices and of a DCA holding, so that their total is not what equity has gained. `PnlExplainsEquity` is what does hold. |
| `ParityBothSides` | MCStrategyRuntime | `Parity` | An exit intent does not say which side it exits, so with rules for both sides the paper broker closes positions the backtest keeps; likewise when both entries are raised at once (`paper_broker.py:208-225`, `engine/broker.py:198-208`). |
| `ParityWarmup` | MCStrategyRuntime | `Parity` | The gate waits one bar more than a rule without a crossover needs (`execution/runtime.py:135-163`). |
| `GatewayFeedOrder` | MCExchangeGateway | `FeedAscending` | The runtime asks for bars in ascending order (`runtime.py:43-47`); the watch loop hands on all cached candles at each update, in part not closed (`exchanges/adapter.py:982`). |
| `InterpreterExtrema` | MCInterpreter | `ExtremaAreParitySafe` | `min` and `max`, said to be parity-safe, yield their first operand over one bar when either is undefined, and their second over columns (`strategy/evaluator.py:547-570`). |
| `InterpreterWarmup` | MCInterpreter | `WarmupIsNoSignal` | A comparison with an undefined value is said to be no signal (`engine/interpreter.py:149-150`); under `not`, with `!=`, or beside a defined operand of `min`, it is one. |

`Parity` in the passing run is therefore restricted to what the code does keep:
strategies with rules for one side only, or reversal strategies without exit rules
that never raise both entries; first rule signals one bar after the lookback; no
manual orders; bars in order and once. The first two restrictions are stated as
`RulesAgree` and `WarmupAgrees` in StrategyRuntime, where they are hypotheses of the
theorem: `ParityBothSides` has rules that break the one, `ParityWarmup` a lookback
that breaks the other.

Stated in HistorySync, violated, and without a configuration: `FullyBackfilled` (a
sync whose `since` is earlier than the first cached bar starts at the last cached
one, and an empty page ends a sync with status ok: `data/sync.py:14-15`, `138-173`)
and `RepairedIsACount` (a gap filled in its middle is two gaps, so that the reported
number can be negative: `:254-258`).

Met while modelling: a running strategy submits to its broker without the
preflight, so that a halt does not reach it (`execution/runtime.py:208`,
`docs/workflows.md:170`); `HaltLeavesNoClientOrder` speaks of clients' orders for
that reason. A testnet cancel reports `canceled: true` also for an order that the
venue says is closed. `ScalarIsSeries` is therefore about bars where the operands of
every `min` and `max` are defined, and `HaltLeavesNoClientOrder`
and `AcceptedIsBooked` promise of cancelling and listing only what a client of a paper
session sees. A cancelled `aclose_all` leaves adapters open that nobody will close
(`exchanges/manager.py:86-89`), which `CachedOrTaken` admits as the state "left". A
venue that books a retry of a request that had timed out books the order twice
(`exchanges/adapter.py:361`): OrderPath has that behaviour and `OneSenderPerId` admits it,
as both bookings are of one call; ids that are minted again after a restart are not
excluded either. A halt whose scope is misspelt in case halts the exchange but sweeps none of
its orders; `SweepWithinHalt` says only that the sweep reaches no further than the halt.
Indicators like `ema` need the whole prefix, which the runtime supplies.

## 5. Theorems

TLAPS checks the eight proof modules, each theorem for every value of the
constants that the named assumption admits. They follow one pattern: an inductive
invariant (`IInv` or a stronger one named below), of which the run's invariants are
parts or consequences, with a lemma per group of actions and a lemma for each
operator that several of them use.

*OrderPath* (`ConstantsAssumption`, which types the constants; any number
of sessions, calls, requests, attempts, restarts). `IInv` adds `Phases`, which ties
a call's `pc` to what it has (before the decision it has no id, while it awaits the
venue it owns one and has made an attempt, and what waits belongs to the current
life of the process), that
every claimed id is in the registry, that the automatic
counter is beyond every automatic id of this life, and that everything on the wire
or booked was sent by a call under the id it owns. One lemma treats `Decide`,
which three actions share, another the recording of a result. From `IInv`:
`TypeCorrect`, `ClaimedOnce`, `SentOnce`, `RecordsAreReal`, `AnswersOwnOrder`,
`AutoIdsAreDistinct`, and the action properties `SafetyIsCheckedFresh` and
`CallsWearOut`: the steps a waiting call has left (`StepsLeft`) are a number between
one and twice the attempts, each step of its own lowers it, and no other step of the
system raises it.

*SessionLifecycle* (`NoneAssumption`: `None` is no deploy). `IInv` adds `Bound` (a
call waiting for its feed has bound a runtime, without which `FeedReady` could start
nothing), `FinalizedAreStopped` (why a finalized runtime ignores the bars of a later
loop), `CreatedIsQuiet` (a task that has not run has not set the state, so that
cancelling it cannot leave "running" behind) and `ActiveNoError`. The proof separates
what speaks of tasks and state from what speaks of brokers (`Brokers`), as most
actions touch one of them only. From it: `TypeCorrect`, `OneLoopPerSession`,
`FinalizedIsFinal`, `RunningIsLive`, and the action properties `ErrorIsKept` and
`CancelledEndsOnly`. The latter needs `AwaitsCancelled` (a stop awaits a task it has
cancelled, and no task recovers from that) besides `OneLoop`: the session has no
other loop that could act, and no deploy starts one while this one lives.

*TradingTools* (`TradingAssumption`). `Shape` adds to the type that only opened
sessions have brokers and that a loop has a deployed broker to drive, without which
its orders would have no place. `HaltIsClean` is inductive on top of it: a client's
order passes only unhalted, a global halt closes every open order a client of a paper
session sees, whatever a loop submits later knows of the halt, and no step brings
an older order back into view (a deploy shows a fresh broker, and what it
shadows stays out of sight). `SweepIsWithinHalt` and `AcceptedOrderIsBooked` are action
properties: the first compares the two ways of spelling a scope, the second needs
that an accepted order, of either mode, is appended to the broker that the tools pick.

*SafetyControl* (`ControlAssumption`). `TypeCorrect` includes that the ring never
exceeds its capacity and that tickets and halts are kept under normalized scopes
only. `ArmedOnlyByLiveGrant` rests on `Backed`: as long as the ring has dropped
nothing that matters, every ticket has its grant on the trail with no later
revocation of its scope; expiry, also under a clock that goes back, is then read off
`IsActive`. `TrailTells` treats the limits, the global halt and each exchange as one
*matter*, with the entries that are about it and the value they set. For any matter
(`Told`): an entry about it that is appended sets the value, another entry leaves it,
and dropping the oldest entry takes away no latest word but one that had no later
(`NewlyTold`, `StillTold`); a preflight appends one or two entries that are about
none. What is in force is compared with the ring as it is, full or not, without
recursion.

*HistorySync* (`SyncAssumption`). `ImplementsCache` is the refinement: initial states
are initial, and each step is a step of HistoryCache or a stutter. A stretch of a
call is a composition of writes, so the lemmas say of each stretch that its outcomes
are sound (rows are only added or replaced by published ones, the manifest keeps
its stamp) and compose. It needs `Buffers`: the rows a suspended call still holds are
published. `StampStays` is an action property: a call that becomes complete has just
written the stamp, and every write of the manifest but the one a crash interrupts
keeps a stamp it reads; it speaks of every step, after a crash as before. `GapsAreFilled`
speaks of calls that are done; what is inductive is `Walks`, which says what a call
in the middle of its repair has done (`Repairing`): the gaps it has left behind are
filled, and of the first of the others all that lies before its cursor. A page
leaves out no bar on its way (`AnswerLeavesNothingOut`), the cursor leaves a gap only
past its end or when the venue has no bar left, and a gap lies between two stored
bars, so that all its bars are published already (`GapsLieBetween`); the repair of
one call stands when others store (`WalksOn`). `SyncIsTyped` follows from `Walks` as
well, and includes that no call asks for bars beyond its window. `EveryAnswerAdvances`
is the ranking of the two loops: from `Walks` and `AnswerLeavesNothingOut` (a page that
is not empty puts the cursor beyond itself), what an answer leaves is further on in
the window, in a gap, or has one gap fewer of the finitely many it found, or is
done.

*ExchangeGateway* (`GatewayAssumption`). `Registry` ties adapters to keys: the cache
points to an adapter of its own key that is open and that no `aclose_all` has taken,
every other one is in one closing, closed, or left by a cancelled one. `Requests`
says that a call under way has sent its request through the adapter it resolved. From
them `TypeCorrect` (with the bounds on attempts and on the backoff),
`RequestsAreSentAsAsked` and `OpenAdaptersAreAccountedFor`.

*PaperBroker*. `IInv` is the shape of the account (not its amounts: the numeric
operators are arbitrary), `PendingIsFresh` (a pending flag is an intent submitted
since the last bar) and `EndedIsFlat` (after a force-close nothing is open). Each
function on accounts has a lemma saying what it keeps. From it, with no
assumption on the arithmetic, the action properties `EntriesAreFresh` and
`EndedBooksNothing`.

The money needs more: `BooksInv` adds that the amounts are integers, that cash,
fees and the realized counter are what trades, slices, the DCA holding and the
position make of them (`Balanced`), that an account holds inventory of its own kind
only, and the means of a DCA account (`Means`). Each function has a second lemma for
it, and on each bar the lemmas compose in the order of `on_bar`. From it
`AccountIsTyped`, `CashIsAccountedFor`, `FeesAreAccountedFor`, `DcaStaysWithinMeans`
and `SnapshotsAgree`. What trades and slices add up to is a fold over a finite set,
and induction over such a set is out of the prover's reach in the form the library
has it; the lemmas on sums take a smallest subset on which they would fail instead
(`SmallestSubset`, from a well-founded order on finite sets), and are the lemmas that
both brokers' proofs cite: a sum over a disjoint union is the sum of the sums, a sum
of differences their difference, and booking slices in ascending order books each
once.

Of the arithmetic the theorems assume, in FillMath: `FillAssumption`, which TLC
evaluates (the constants' kinds; `None` is no number and no position);
`FillsAreIntegers` (a fee, slippage, size, stop distance, quantity of integers is an
integer); and `FillsAreFair` (of an amount not negative a fee takes between nothing
and all, slippage never makes a price negative, a purchase buys something). The last
two range over all integers and are therefore hypotheses of the theorems instead of
assumptions that TLC could evaluate. The code has them by the validation of its
percentages (`strategy/spec.py:158`, `execution/models.py:102`) and because a positive
quotient of floats is positive, but for one value: a taker fee of exactly 100 %, which
the validation admits and which leaves nothing of a DCA purchase, is outside the
theorems. The operators of MCPaperBroker and MCStrategyRuntime have both properties too.

*StrategyRuntime* (in PaperBrokerProofs). `DeployedIsBacktest` is the refinement of
SimulatedBroker by StrategyRuntime, for any bars, fills and rules: a deployment
begins as a backtest does, a bar of the runtime is `WalkBar` on the mapped state, and
`Stop` is `Finish`. Its invariant `DeployedInv` says that the pending intents are
what the last signal asks for (`Agrees`, which is why a signal fills at the next open
and once), that a position has a side the rules enter (`Sided`, without which an exit
could close what the backtest keeps), and what PaperBroker's proofs need of the
account. One lemma per kind of account shows a bar, and one per kind the end; the
fills are alike because SimulatedBroker's copy of FillMath is instantiated with the
same constants. The hypotheses are those on fills, `RulesAgree` and `WarmupAgrees`;
section 4 shows that `Parity` fails without either of the last two, and the rule sets
of the passing run satisfy both.

*Interpreter* (`ExpressionsAssumption`, `InterpreterAssumption`: trees are finite and
have a type, the indicators a positive length, the bars numbers). What a rule
computes is a recursion over its tree, and what it computes for every tree would be
an induction, which the library states with an operator as a parameter. The
argument therefore goes by sets. `TreesAreWellFounded`: a set that has every tree
whose arguments it has, has all trees; it follows from the least height at which it
could fail (`AllNumbers`). `Evaluation`: an evaluation exists for all heights, since one
for height n+1 can be put together from one for n, and any two agree, which gives
`SeriesOf`, `ScalarOf` and `Nodes` the equations they unfold by.

From that, `LiveIsBacktest`. The value of an expression in row k needs the columns it
names in row k only (`NumbersAreLocal`), and a condition, because of crossings,
those in row k and the one before (`ConditionsAreLocal`); both compare one frame with
another at a different row, so that they speak of a window and of the whole. The
rows of a window are those of the whole: bars and `sma` because they look at Length
bars, `ema` only if the window begins where the frame does (`SmaOfWindow`,
`EmaOfWindow`, `RowOfWindow`), which is where `Needed` has its cases from. Grid levels
look at two bars and DCA at the timestamp. The invariant is `Accepted`: the strategy is
one that was validated (so every name in the rule is a column of the frame) and the bars
are bars. No hypothesis is made on the arithmetic: whatever floats do, they do
it alike in the window and in the backtest.

`ScalarModeIsSeriesMode` takes one step of the evaluators at a time (`StepAgrees`):
each operator that does not cross is the same in both modes, given that its arguments
are. It is about expressions without a crossing, at bars where the operands of every
`min` and `max` are defined: section 4 shows that the modes differ where one is not.
Division by zero needs that what is divided by NaN is NaN (`CalculationsAgree`),
`min` and `max` an order on defined numbers (`ExtremaAgree`), and both come from
`FloatsBehave`, which is the theorem's hypothesis because it quantifies over all
numbers; floats have it, and so have the fractions of the run. That every value is a
number (`StepIsNumber`) needs the sums of the indicators to be, which are folds: the
lemma on folds (`FoldExists`, `FoldIsNumber`) is on the sets of positions they run
over.

`FoldsAreSeparate`, for any number of bars and folds: the windows are contiguous, a
fold is scored after what it was trained on, the last window ends with the last bar
and none is shorter than two bars. `NoFoldLeaks` is the run's `FoldsDoNotLeak`, the same
for the bars that have come.

Only model-checked: liveness (`CallsFinish`, `StopReturns`, `SyncEnds`), which needs
ENABLED. What it rests on is proved, as far as it is safety: `CallsWearOut`,
`CancelledEndsOnly` and `EveryAnswerAdvances` say that the steps that fairness promises
are enough, for any values of the constants. Their properties (`CallsUseUpSteps`,
`CancelledOnlyEnds`, `AnswersAdvance`) stand in the proof modules and no run repeats
them, as each run checks the liveness that follows. What TLC adds is that a step is
always there to be taken and that fairness takes it.

## 6. Plan

The protocols whose races lose or duplicate orders came first (OrderPath,
SessionLifecycle), then the money (FillMath, PaperAccount, PaperBroker), the promise
of parity (SimulatedBroker, StrategyRuntime), the composition of tools and safety
(TradingTools, SafetyControl), the way to the venue and the cache (ExchangeGateway,
HistorySync), and the signals (RuleEvaluator, Interpreter, WalkForward). What is
left:

1. The inputs of the risk check (position count and notional) computed from several
   sessions' snapshots, instead of being given.
2. The other watch streams of the adapter.

## 7. Not modelled

- Reports, metrics, tearsheet and the parameter sweep: pure functions of one
  finished run over floats, or a library's search.
- The strategy library and its templates: one file per strategy, written and read by
  tools that do not await.
- The numeric formulas of indicators, and the rounding of floats: amounts are
  integers or fractions, and equalities are exact.
- In StrategyRuntime, rules are a set of signals that may be raised at any bar; how
  a rule yields its signal is Interpreter's.
- Live mode: the gate refuses it before any state changes.
- Server wiring, prompts, resources, logging, redaction and configuration: no state,
  or constant.
- The delay of the watch loop is computed as `2 ** (failures - 1)` before it is
  bounded (`exchanges/adapter.py:962-965`), which overflows a float after some
  thousand failures in a row: `LongerDelay` is the bounded delay.
- `apply_fills` of the paper broker, which nothing calls.
- The runtime's optional buffer cap, which no caller sets and the code calls an
  approximation.
- The parsing of rule expressions, and of ccxt rows: data conversion.
