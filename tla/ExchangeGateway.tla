-------------------------- MODULE ExchangeGateway --------------------------
(***************************************************************************)
(* exchanges/manager.py and exchanges/adapter.py: the tools' way to the    *)
(* venue.  The manager keeps one adapter per (exchange, testnet); a call   *)
(* gets its adapter, passes the key-scope gate and sends a request that is *)
(* retried after transient failures; a watcher follows the venue's candle  *)
(* stream and hands each row on to the runtime; aclose_all takes all       *)
(* adapters out of the cache and closes them.                              *)
(*                                                                         *)
(* Creating an adapter awaits nothing and the manager's lock is never held *)
(* over an await, so manager.get is one step; a call is suspended while a  *)
(* request is under way and while it backs off.  aclose_all empties the    *)
(* cache in one step, and its closings, one task per adapter, run later,   *)
(* while others get adapters; whoever awaits aclose_all may be cancelled.  *)
(*                                                                         *)
(* A comment that begins with "Slip" introduces a variant of the definition*)
(* below it with a plausible mistake in it.                                *)
(***************************************************************************)
EXTENDS Integers, Sequences, FiniteSets, SequencesExt, FiniteSetsExt

CONSTANTS Exchanges,
          Sandboxed,    \* exchanges with a sandbox endpoint (urls.test)
          Credentialed, \* exchanges with configured credentials
          TradeKeys,    \* exchanges whose key is trade-enabled
          Streaming,    \* exchanges with WebSocket support
          Callers,      \* slots for concurrent tool calls
          MaxRetries,   \* MAX_RETRIES
          MaxBackoff,   \* WS_BACKOFF_MAX_SECONDS in units of the base delay
          Window,       \* candles the stream's rolling cache holds
          MaxAdapters,  \* bound: adapters created
          MaxCalls,     \* bound: calls made
          MaxCandles,   \* bound: candles of the venue
          None

ASSUME GatewayAssumption ==
  /\ Sandboxed \cup Credentialed \cup TradeKeys \cup Streaming \subseteq Exchanges
  /\ TradeKeys \subseteq Credentialed
  /\ {MaxRetries, MaxBackoff, Window, MaxAdapters, MaxCandles} \subseteq Nat \ {0}
  /\ MaxCalls \in Nat
  /\ None \notin {"not_supported", "scope", "unconfigured"}

Keys == Exchanges \X BOOLEAN

VARIABLES
  adapters, \* the adapters created so far, by number
  cached,   \* the manager's cache: key -> number of the adapter or 0
  gathers,  \* the adapters whose closing each aclose_all still awaits
  call,     \* the tool calls
  sent,     \* every request that left: who asked for what, and where it went
  calls,    \* calls made so far
  head,     \* the venue's newest candle, and whether it is still hollow:
  hollow,   \*   without a close or volume
  watch,    \* the watcher
  fed       \* the candle last handed to the runtime, or 0

vars == <<adapters, cached, gathers, call, sent, calls, head, hollow, watch, fed>>
market == <<head, hollow, watch, fed>>

NoCall == [pc |-> "idle", key |-> None, op |-> None, adapter |-> 0, attempts |-> 0,
           answer |-> None]
NoWatch == [pc |-> "off", adapter |-> 0, delay |-> 0, rows |-> << >>]

Init == /\ adapters = << >>
        /\ cached = [k \in Keys |-> 0] /\ gathers = {}
        /\ call = [c \in Callers |-> NoCall]
        /\ sent = {} /\ calls = 0
        /\ head = 1 /\ hollow = FALSE
        /\ watch = NoWatch /\ fed = 0

-----------------------------------------------------------------------------
(* ExchangeAdapter.create: sandbox mode is refused where there is none.    *)
(* Slip: an exchange without a sandbox is used as it is.                   *)
CreatableAnyway(k) == TRUE
Creatable(k) == k[2] => k[1] \in Sandboxed

(* Its client is open, being closed, closed, or left to itself.            *)
Created(k) == [key |-> k, sandbox |-> k[2] /\ k[1] \in Sandboxed,
               trade |-> k[1] \in TradeKeys, state |-> "open"]

(* ExchangeManager.get: the cached adapter of the key, or a new one.       *)
Resolved(k) == IF cached[k] # 0 THEN cached[k] ELSE Len(adapters) + 1
Get(k) == IF cached[k] # 0 THEN UNCHANGED <<adapters, cached>>
          ELSE /\ Len(adapters) < MaxAdapters
               /\ adapters' = Append(adapters, Created(k))
               /\ cached' = [cached EXCEPT ![k] = Len(adapters) + 1]

(* _require_trade_scope.                                                   *)
InScope(k, op) == op = "trade" => k[1] \in TradeKeys

(* A tool call: manager.get, the gate of the operation, the first request. *)
(* validate_credentials sends nothing when there is no key to validate.    *)
Refused(k, op) == IF ~Creatable(k) THEN "not_supported"
                  ELSE IF ~InScope(k, op) THEN "scope"
                  ELSE IF op = "credentials" /\ k[1] \notin Credentialed THEN "unconfigured"
                  ELSE None

Call(c, k, op) ==
  /\ call[c].pc \in {"idle", "done"} /\ calls < MaxCalls
  /\ calls' = calls + 1
  /\ IF Creatable(k) THEN Get(k) ELSE UNCHANGED <<adapters, cached>>
  /\ IF Refused(k, op) # None
     THEN /\ call' = [call EXCEPT ![c] = [NoCall EXCEPT !.pc = "done", !.answer = Refused(k, op)]]
          /\ UNCHANGED sent
     ELSE /\ call' = [call EXCEPT ![c] = [pc |-> "request", key |-> k, op |-> op,
                        adapter |-> Resolved(k), attempts |-> 1, answer |-> None]]
          /\ sent' = sent \cup {[asked |-> k, op |-> op, adapter |-> Resolved(k)]}
  /\ UNCHANGED <<gathers, market>>

(* The operations of an adapter: reads of public data, whatever needs a     *)
(* trade-enabled key (orders, positions, balances), and the check of a key. *)
PublicRead(c, k) == Call(c, k, "public")
PrivateOperation(c, k) == Call(c, k, "trade")
ValidateCredentials(c, k) == Call(c, k, "credentials")

(* The tools: market data, history and clock are read from production, and  *)
(* a session trades on the testnet only.                                    *)
GetMarketData(c, x) == PublicRead(c, <<x, FALSE>>)
TradeOnTestnet(c, x) == PrivateOperation(c, <<x, TRUE>>)

Answered(c, answer) ==
  /\ call' = [call EXCEPT ![c] = [NoCall EXCEPT !.pc = "done", !.answer = answer]]
  /\ UNCHANGED <<adapters, cached, gathers, sent, calls, market>>

(* _call: the request is answered, ...                                     *)
Succeeds(c) == call[c].pc = "request" /\ Answered(c, "ok")

(* ... fails for good (bad symbol, authentication, a closed client), ...   *)
FailsForGood(c) == call[c].pc = "request" /\ Answered(c, "exchange")

(* ... or fails for now: the call backs off, unless it was the last try.   *)
(* Slip: the attempts are counted from the first retry.                    *)
LastTryLate(n) == n > MaxRetries
LastTry(n) == n >= MaxRetries
FailsForNow(c) ==
  /\ call[c].pc = "request"
  /\ IF LastTry(call[c].attempts) THEN Answered(c, "network")
     ELSE /\ call' = [call EXCEPT ![c].pc = "sleep"]
          /\ UNCHANGED <<adapters, cached, gathers, sent, calls, market>>

Retries(c) ==
  /\ call[c].pc = "sleep"
  /\ call' = [call EXCEPT ![c].pc = "request", ![c].attempts = @ + 1]
  /\ sent' = sent \cup {[asked |-> call[c].key, op |-> call[c].op, adapter |-> call[c].adapter]}
  /\ UNCHANGED <<adapters, cached, gathers, calls, market>>

-----------------------------------------------------------------------------
(* ExchangeManager.aclose_all and ExchangeAdapter.aclose.                  *)
InState(those, x) ==
  [i \in DOMAIN adapters |->
     IF i \in those THEN [adapters[i] EXCEPT !.state = x] ELSE adapters[i]]

(* Slip: the cache keeps the adapters that are to be closed.               *)
EmptiedLazily == cached
Emptied == [k \in Keys |-> 0]

(* The cache is emptied, and the closings are scheduled.                   *)
AcloseAll ==
  LET taken == {cached[k] : k \in Keys} \ {0}
  IN /\ taken # {}
     /\ gathers' = gathers \cup {taken}
     /\ cached' = Emptied
     /\ UNCHANGED <<adapters, call, sent, calls, market>>

(* The tasks of a gather run their first steps back to back: each flags its*)
(* adapter as closed and awaits client.close().                            *)
ClosingsBegin(g) ==
  /\ \A i \in g : adapters[i].state = "open"
  /\ adapters' = InState(g, "closing")
  /\ UNCHANGED <<cached, gathers, call, sent, calls, market>>

(* client.close() returns, or raises, which is swallowed; with the last one*)
(* aclose_all returns.                                                     *)
ClosingEnds(i) ==
  /\ adapters[i].state = "closing"
  /\ adapters' = InState({i}, "closed")
  /\ gathers' = {g \ {i} : g \in gathers} \ {{}}
  /\ UNCHANGED <<cached, call, sent, calls, market>>

(* The gather is cancelled, and its tasks with it: an adapter whose task   *)
(* had not begun, or was in client.close(), is left as it is.              *)
AcloseAllCancelled(g) ==
  /\ adapters' = InState(g, "left")
  /\ gathers' = gathers \ {g}
  /\ UNCHANGED <<cached, call, sent, calls, market>>

-----------------------------------------------------------------------------
(* watch_ohlcv for a deployed strategy: the adapter is the testnet's.      *)
StartWatch(x) ==
  LET k == <<x, TRUE>>
  IN /\ watch.pc = "off" /\ Creatable(k) /\ x \in Streaming
     /\ Get(k)
     /\ watch' = [NoWatch EXCEPT !.pc = "await", !.adapter = Resolved(k)]
     /\ UNCHANGED <<gathers, call, sent, calls, head, hollow, fed>>

(* The rolling cache of the stream, oldest first; a row without a usable   *)
(* number is dropped by _normalize_ohlcv_row.                              *)
UsableRows == LET first == Max({1, head - Window + 1})
                  last  == IF hollow THEN head - 1 ELSE head
              IN [i \in 1 .. last - first + 1 |-> first + i - 1]

(* An update brings the whole rolling cache and ends a streak of failures. *)
Update == /\ watch.pc = "await"
          /\ watch' = [watch EXCEPT !.pc = IF UsableRows = << >> THEN "await" ELSE "rows",
                                    !.delay = 0, !.rows = UsableRows]
          /\ UNCHANGED <<adapters, cached, gathers, call, sent, calls, head, hollow, fed>>

(* The runtime takes the next row.                                         *)
TakeRow == /\ watch.pc = "rows"
           /\ fed' = Head(watch.rows)
           /\ watch' = [watch EXCEPT !.rows = Tail(@),
                                     !.pc = IF Len(watch.rows) > 1 THEN "rows" ELSE "await"]
           /\ UNCHANGED <<adapters, cached, gathers, call, sent, calls, head, hollow>>

(* A transient failure: the delay doubles, up to its bound, and the watch  *)
(* is taken up again.                                                      *)
(* Slip: the delay is not bounded.                                         *)
LongerDelayUnbounded(d) == IF d = 0 THEN 1 ELSE 2 * d
LongerDelay(d) == IF d = 0 THEN 1 ELSE Min({2 * d, MaxBackoff})
WatchFailsForNow == /\ watch.pc = "await"
                    /\ watch' = [watch EXCEPT !.pc = "sleep", !.delay = LongerDelay(@)]
                    /\ UNCHANGED <<adapters, cached, gathers, call, sent, calls, head, hollow, fed>>
Reconnects == /\ watch.pc = "sleep"
              /\ watch' = [watch EXCEPT !.pc = "await"]
              /\ UNCHANGED <<adapters, cached, gathers, call, sent, calls, head, hollow, fed>>

(* A failure for good, which the run loop reports, or its cancellation.    *)
WatchEnds == /\ watch.pc # "off"
             /\ watch' = NoWatch /\ fed' = 0
             /\ UNCHANGED <<adapters, cached, gathers, call, sent, calls, head, hollow>>

(* The venue: the newest candle is filled in, or the next one begins.      *)
Candle == /\ \/ hollow /\ hollow' = FALSE /\ UNCHANGED head
             \/ head < MaxCandles /\ head' = head + 1 /\ hollow' \in BOOLEAN
          /\ UNCHANGED <<adapters, cached, gathers, call, sent, calls, watch, fed>>

Next == \/ \E c \in Callers : \/ \E x \in Exchanges : GetMarketData(c, x) \/ TradeOnTestnet(c, x)
                              \/ \E k \in Keys : ValidateCredentials(c, k)
                              \/ Succeeds(c) \/ FailsForGood(c) \/ FailsForNow(c)
                              \/ Retries(c)
        \/ \E x \in Exchanges : StartWatch(x)
        \/ AcloseAll
        \/ \E g \in gathers : ClosingsBegin(g) \/ AcloseAllCancelled(g)
        \/ \E i \in DOMAIN adapters : ClosingEnds(i)
        \/ Update \/ TakeRow \/ WatchFailsForNow \/ Reconnects \/ WatchEnds
        \/ Candle

Spec == Init /\ [][Next]_vars

-----------------------------------------------------------------------------
Ops == {"public", "trade", "credentials"}
Adapter == [key : Keys, sandbox : BOOLEAN, trade : BOOLEAN,
            state : {"open", "closing", "closed", "left"}]
CallState == [pc : {"idle", "request", "sleep", "done"}, key : Keys \cup {None},
              op : Ops \cup {None}, adapter : 0 .. Len(adapters),
              attempts : 0 .. MaxRetries,
              answer : {None, "ok", "exchange", "network", "not_supported", "scope", "unconfigured"}]
WatchState == [pc : {"off", "await", "rows", "sleep"}, adapter : 0 .. Len(adapters),
               delay : 0 .. MaxBackoff, rows : Seq(1 .. MaxCandles)]

(* Types; a call makes at most MaxRetries attempts, and only while it is   *)
(* under way does it hold an adapter; the backoff of a watch is bounded.   *)
TypeOK ==
  /\ adapters \in Seq(Adapter)
  /\ cached \in [Keys -> 0 .. Len(adapters)]
  /\ gathers \subseteq SUBSET (1 .. Len(adapters))
  /\ sent \subseteq [asked : Keys, op : Ops, adapter : 1 .. Len(adapters)]
  /\ call \in [Callers -> CallState]
  /\ \A c \in Callers :
       /\ call[c].pc \in {"request", "sleep"} => call[c].adapter # 0
       /\ call[c].pc = "sleep" => call[c].attempts < MaxRetries
  /\ calls \in 0 .. MaxCalls
  /\ head \in 1 .. MaxCandles /\ hollow \in BOOLEAN /\ fed \in 0 .. MaxCandles
  /\ watch \in WatchState
  /\ (watch.rows # << >>) = (watch.pc = "rows")

(* Every request goes where it was asked to: through an adapter of its own *)
(* exchange, in sandbox mode exactly if the testnet was asked for          *)
(* (_enable_sandbox: "so an order never lands on production by accident"); *)
(* a trade operation only there, and only with a trade-enabled key.        *)
SentAsAsked ==
  \A r \in sent : LET a == adapters[r.adapter]
                 IN /\ a.key = r.asked
                    /\ a.sandbox = r.asked[2]
                    /\ r.op = "trade" => a.trade /\ a.sandbox

BeingClosed(i) == \E g \in gathers : i \in g

(* However gets, closings and their cancellations interleave, the adapters *)
(* that are open and that no aclose_all has taken are exactly those in the *)
(* cache, each under its own key: none is handed out that was taken, none  *)
(* is lost but by the cancellation of an aclose_all, and none is taken     *)
(* twice, although a second one of a key may be open while the first one   *)
(* waits to be closed.                                                     *)
CachedOrTaken ==
  \A i \in DOMAIN adapters :
    /\ adapters[i].state = "open" /\ ~BeingClosed(i) <=> cached[adapters[i].key] = i
    /\ adapters[i].state = "closing" => BeingClosed(i)
    /\ adapters[i].state \in {"closed", "left"} => ~BeingClosed(i)
    /\ \A k \in Keys \ {adapters[i].key} : cached[k] # i
    /\ \A g, h \in gathers : i \in g \cap h => g = h

(* What runtime.py:43-47 asks of a feed: bars "in ascending time order".   *)
(* The row handed on next is later than the last one.                      *)
FeedAscending == watch.rows # << >> => Head(watch.rows) > fed
=============================================================================
