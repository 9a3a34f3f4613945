---------------------------- MODULE TradingTools -----------------------------
(***************************************************************************)
(* The execution and safety tools over the sessions of one server: which   *)
(* broker a tool acts on, and what the kill switch reaches.  A session has *)
(* at most one broker for manual orders and one for its deployed strategy, *)
(* and a run loop that submits to the latter.                              *)
(*                                                                         *)
(* The process-wide dry run is on, its default: no order is routed, and an *)
(* order of a testnet session is recorded on a paper broker as that of a   *)
(* paper session is.  The tools that list and cancel the orders of a       *)
(* testnet session ask the exchange's sandbox, though, which has none.     *)
(* What a routed order goes through is OrderPath's subject, what a run     *)
(* loop goes through SessionLifecycle's, what an order does to the account *)
(* PaperBroker's, and the limits are SafetyControl's: here a limit refuses *)
(* an order or does not.                                                   *)
(*                                                                         *)
(* A comment that begins with "Slip" introduces a variant of the definition*)
(* below it with a plausible mistake in it.                                *)
(***************************************************************************)
EXTENDS Integers, Sequences

CONSTANTS
  MaxSessions, (* bound: sessions the registry mints                        *)
  Offers,      (* the <<mode, exchange>> pairs clients open sessions with   *)
  Exchanges,   (* exchange ids                                              *)
  Eligible,    (* those check_jurisdiction lets pass                        *)
  Sandboxed,   (* those with a sandbox: on others manager.get raises        *)
  Tradable,    (* those of them with a trade-enabled key                    *)
  Scopes,      (* strings a client may pass as a scope                      *)
  Norm,        (* Scopes and exchange ids -> the stripped lower-case string *)
  Star,        (* GLOBAL_SCOPE                                              *)
  MaxOrders,   (* bound: orders clients place per session                   *)
  MaxSignals,  (* bound: orders a deployed strategy submits                 *)
  None         (* Python's None                                             *)

(* A session's identity, an order as a broker keeps it, and a broker with   *)
(* the loop that drives it.                                                 *)
Session == [mode : {"paper", "testnet"}, exchange : Exchanges]
Order == [by : {"client", "strategy"}, status : {"open", "canceled"},
          halted : BOOLEAN]
Broker == [orders : Seq(Order), loop : {"none", "live"}]

ASSUME TradingAssumption ==
  /\ Offers \subseteq {"paper", "testnet"} \X Exchanges
  /\ MaxOrders \in Nat /\ MaxSessions \in Nat
  /\ Tradable \subseteq Sandboxed
  /\ None \notin Scopes \cup Session \cup Broker
  /\ None \notin Seq(Order)

VARIABLES
  session,        (* per session: its mode and exchange, or None            *)
  order_seq,      (* per session: how many orders clients have placed       *)
  manual,         (* manual_brokers: the orders of each, or None            *)
  deployed,       (* per session: the deployed broker, or None              *)
  looping,        (* per session: does a run loop run?                      *)
  global_engaged, (* KillSwitchState: the global halt                       *)
  exchange_halts  (* KillSwitchState: normalized ids that are halted        *)

halts == <<global_engaged, exchange_halts>>
vars  == <<session, order_seq, manual, deployed, looping, halts>>

Sessions == 1 .. MaxSessions

Init ==
  /\ session = [s \in Sessions |-> None]
  /\ order_seq = [s \in Sessions |-> 0]
  /\ manual = [s \in Sessions |-> None]
  /\ deployed = [s \in Sessions |-> None]
  /\ looping = [s \in Sessions |-> FALSE]
  /\ global_engaged = FALSE
  /\ exchange_halts = {}

-----------------------------------------------------------------------------
(* Sessions and their brokers.  An order keeps, for the properties, who    *)
(* submitted it and whether its exchange was halted at that moment.        *)

Opened == {s \in Sessions : session[s] # None}

IsHalted(exchange) == global_engaged \/ Norm[exchange] \in exchange_halts

NewOrder(s, by) ==
  [by |-> by, status |-> "open", halted |-> IsHalted(session[s].exchange)]

(* _read_paper_broker: the deployed broker's orders, which shadow those of  *)
(* a manual one, or None.  The risk check of place_order reads this broker  *)
(* in both modes.                                                           *)
Held(s) == IF deployed[s] # None THEN deployed[s].orders ELSE manual[s]

OpenAt(orders) ==
  IF orders = None THEN {} ELSE {k \in DOMAIN orders : orders[k].status = "open"}

(* get_open_orders, by position.  A testnet session's are those of the      *)
(* sandbox: none, since none is routed.                                     *)
OpenOrders(s) == IF session[s].mode = "paper" THEN OpenAt(Held(s)) ELSE {}

(* Ids are minted in order.                                                 *)
StartSession(s, mode, exchange) ==
  /\ session[s] = None
  /\ \A t \in 1 .. s - 1 : session[t] # None
  /\ mode = "testnet" => exchange \in Eligible
  /\ session' = [session EXCEPT ![s] = [mode |-> mode, exchange |-> exchange]]
  /\ UNCHANGED <<order_seq, manual, deployed, looping, halts>>

(* Slip: a client's order always goes to the manual broker.                 *)
AcceptedManually(s, order) ==
  /\ manual' = [manual EXCEPT ![s] = IF @ = None THEN <<order>>
                                     ELSE Append(@, order)]
  /\ UNCHANGED deployed

(* _paper_broker_for and submit, in both modes: the manual broker is made   *)
(* on first use.                                                            *)
Accepted(s, order) ==
  IF deployed[s] # None
    THEN /\ deployed' = [deployed EXCEPT ![s].orders = Append(@, order)]
         /\ UNCHANGED manual
    ELSE /\ manual' = [manual EXCEPT ![s] = IF @ = None THEN <<order>>
                                            ELSE Append(@, order)]
         /\ UNCHANGED deployed

(* Slip: the halt is not looked at.                                         *)
MayPassUnhalted(s) ==
  \/ session[s].mode = "paper"
  \/ session[s].exchange \in Tradable \cap Eligible

(* The kill switch and the gate, with the dry run on.                       *)
MayPass(s) ==
  /\ ~IsHalted(session[s].exchange)
  /\ \/ session[s].mode = "paper"
     \/ session[s].exchange \in Tradable \cap Eligible

(* A refused order, and a retry under an id that is taken, change nothing.  *)
PlaceOrder(s) ==
  /\ s \in Opened
  /\ MayPass(s)
  /\ order_seq[s] < MaxOrders
  /\ order_seq' = [order_seq EXCEPT ![s] = @ + 1]
  /\ Accepted(s, NewOrder(s, "client"))
  /\ UNCHANGED <<session, looping, halts>>

CanceledAt(orders, k) == [orders EXCEPT ![k].status = "canceled"]

(* On a testnet session the request goes to the sandbox instead, which has  *)
(* no such order.                                                           *)
CancelOrder(s, k) ==
  /\ s \in Opened
  /\ k \in OpenOrders(s)
  /\ IF deployed[s] # None
       THEN /\ deployed' = [deployed EXCEPT ![s].orders = CanceledAt(@, k)]
            /\ UNCHANGED manual
       ELSE /\ manual' = [manual EXCEPT ![s] = CanceledAt(@, k)]
            /\ UNCHANGED deployed
  /\ UNCHANGED <<session, order_seq, looping, halts>>

-----------------------------------------------------------------------------
(* deploy_strategy, stop_strategy and the run loop.                        *)

(* A fresh broker is bound, then the feed is made and the loop started.     *)
(* There is no feed without a sandbox, and a session whose loop runs keeps  *)
(* that loop, on the broker it had: the call raises, the broker stays.      *)
DeployStrategy(s) ==
  LET starts == /\ ~looping[s]
                /\ \/ session[s].mode = "paper"
                   \/ session[s].exchange \in Sandboxed
  IN /\ s \in Opened
     /\ deployed' = [deployed EXCEPT ![s] =
                       [orders |-> <<>>, loop |-> IF starts THEN "live" ELSE "none"]]
     /\ looping' = [looping EXCEPT ![s] = @ \/ starts]
     /\ UNCHANGED <<session, order_seq, manual, halts>>

NumSignals(s) ==
  Len(SelectSeq(deployed[s].orders, LAMBDA o : o.by = "strategy"))

(* A bar whose signal makes the strategy submit: straight to its broker.    *)
StrategySubmits(s) ==
  /\ deployed[s] # None
  /\ deployed[s].loop = "live"
  /\ NumSignals(s) < MaxSignals
  /\ deployed' = [deployed EXCEPT ![s].orders =
                    Append(@, NewOrder(s, "strategy"))]
  /\ UNCHANGED <<session, order_seq, manual, looping, halts>>

(* The feed ends or fails, or stop_strategy cancels the loop.               *)
LoopEnds(s) ==
  /\ looping[s]
  /\ looping' = [looping EXCEPT ![s] = FALSE]
  /\ deployed' = [deployed EXCEPT ![s] =
                    IF @.loop = "live" THEN [@ EXCEPT !.loop = "none"] ELSE @]
  /\ UNCHANGED <<session, order_seq, manual, halts>>

-----------------------------------------------------------------------------
(* The kill switch.                                                        *)

AllCanceled(orders) ==
  [k \in DOMAIN orders |-> [orders[k] EXCEPT !.status = "canceled"]]

(* Slip: the sweep takes every paper session, whatever its exchange.        *)
SweptEverywhere(s, scope) == s \in Opened /\ session[s].mode = "paper"

(* The sweep compares the scope as the client typed it.                     *)
Swept(s, scope) ==
  /\ s \in Opened
  /\ session[s].mode = "paper"
  /\ scope = None \/ session[s].exchange = scope

CancelOpenPaperOrders(scope) ==
  /\ deployed' = [s \in Sessions |->
       IF deployed[s] # None /\ Swept(s, scope)
         THEN [deployed[s] EXCEPT !.orders = AllCanceled(@)] ELSE deployed[s]]
  /\ manual' = [s \in Sessions |->
       IF deployed[s] = None /\ manual[s] # None /\ Swept(s, scope)
         THEN AllCanceled(manual[s]) ELSE manual[s]]

(* Slip: the halt is kept under the scope as typed.                         *)
EngageAsTyped(scope) ==
  /\ IF scope = None
       THEN global_engaged' = TRUE /\ UNCHANGED exchange_halts
       ELSE /\ exchange_halts' = exchange_halts \cup {scope}
            /\ UNCHANGED global_engaged
  /\ CancelOpenPaperOrders(scope)
  /\ UNCHANGED <<session, order_seq, looping>>

(* The halt is kept under the normalized scope.                             *)
EngageKillSwitch(scope) ==
  /\ IF scope = None
       THEN global_engaged' = TRUE /\ UNCHANGED exchange_halts
       ELSE /\ exchange_halts' = exchange_halts \cup {Norm[scope]}
            /\ UNCHANGED global_engaged
  /\ CancelOpenPaperOrders(scope)
  /\ UNCHANGED <<session, order_seq, looping>>

ResetKillSwitch(scope) ==
  /\ IF scope = None
       THEN global_engaged' = FALSE /\ exchange_halts' = {}
       ELSE /\ exchange_halts' = exchange_halts \ {Norm[scope]}
            /\ UNCHANGED global_engaged
  /\ UNCHANGED <<session, order_seq, manual, deployed, looping>>

(* What get_safety_status shows as halted.                                  *)
HaltedScopes == (IF global_engaged THEN {Star} ELSE {}) \cup exchange_halts

Next ==
  \/ \E s \in Sessions :
       \/ \E offer \in Offers : StartSession(s, offer[1], offer[2])
       \/ PlaceOrder(s)
       \/ \E k \in 1 .. MaxOrders + MaxSignals : CancelOrder(s, k)
       \/ DeployStrategy(s)
       \/ StrategySubmits(s)
       \/ LoopEnds(s)
  \/ \E scope \in Scopes \cup {None} :
       EngageKillSwitch(scope) \/ ResetKillSwitch(scope)

Spec == Init /\ [][Next]_vars

-----------------------------------------------------------------------------
(* Properties.                                                             *)

(* Every variable holds a value of its kind.                                *)
TypeOK ==
  /\ session \in [Sessions -> Session \cup {None}]
  /\ order_seq \in [Sessions -> 0 .. MaxOrders]
  /\ manual \in [Sessions -> Seq(Order) \cup {None}]
  /\ deployed \in [Sessions -> Broker \cup {None}]
  /\ looping \in [Sessions -> BOOLEAN]
  /\ global_engaged \in BOOLEAN
  /\ exchange_halts \subseteq {Norm[x] : x \in Scopes}

(* While a global halt is engaged, every open order a client still sees on  *)
(* a paper session was submitted by a running strategy after the halt: the  *)
(* sweep missed none, and no client order came through since, whatever was  *)
(* deployed, stopped, reset and engaged again in between.                   *)
HaltLeavesNoClientOrder ==
  global_engaged =>
    \A s \in Opened :
      \A k \in OpenOrders(s) : Held(s)[k].by = "strategy" /\ Held(s)[k].halted

(* The sweep reaches no further than the halt: a step that changes the      *)
(* halts and an order has halted the order's exchange, although the sweep   *)
(* and the halt compare the scope in different ways.                        *)
SweepWithinHalt ==
  [][\A s \in Opened :
       halts' # halts /\ Held(s)' # Held(s)
         => IsHalted(session[s].exchange)']_vars

(* An order that place_order acknowledges is with the broker whose          *)
(* positions and losses the risk check of the next order reads, whatever    *)
(* is deployed, and on a paper session it is open to get_open_orders,       *)
(* cancel_order and the sweep, which all read that broker too.              *)
AcceptedIsBooked ==
  [][\A s \in Opened :
       order_seq'[s] # order_seq[s] =>
         /\ Held(s)' # None
         /\ Held(s)' # Held(s)
         /\ Held(s)'[Len(Held(s)')].by = "client"
         /\ session[s].mode = "paper" => Len(Held(s)') \in OpenOrders(s)']_vars

-----------------------------------------------------------------------------
(* What the documentation promises and the code does not keep.             *)

(* "HALTS new orders for the scope (an exchange, or '*'/null for a global   *)
(* halt)": when the status shows '*' halted, every exchange is halted.      *)
StarHaltsEverything ==
  Star \in HaltedScopes => \A e \in Exchanges : IsHalted(e)

(* "List the open (pending) orders for a session": an order that place_order*)
(* has acknowledged as open is among those that get_open_orders returns.    *)
AcceptedIsListed ==
  [][\A s \in Opened : order_seq'[s] # order_seq[s] => OpenOrders(s)' # {}]_vars

(* "Scans the registry's deployed-session brokers AND the execution lane's  *)
(* manual paper brokers": under a global halt no client order is open on a  *)
(* paper session, with either broker.                                       *)
SweepScansBothBrokers ==
  global_engaged =>
    \A s \in Opened :
      session[s].mode = "paper" =>
        \A k \in OpenAt(manual[s]) : manual[s][k].by = "strategy"
=============================================================================
