------------------------- MODULE TradingToolsProofs --------------------------
(* Proofs about TradingTools, for any sessions, exchanges, scopes, spelling *)
(* of scopes, and any number of orders.                                     *)
(*                                                                         *)
(* HaltLeavesNoClientOrder is not inductive alone: a session that opens     *)
(* while a halt is in force must not find orders that were there before it  *)
(* (BrokersOfOpened).  The argument: only place_order adds a client's       *)
(* order, and it asks for the halt in the same step; only an engage starts  *)
(* a global halt, and it sweeps the broker of every paper session that the  *)
(* tools read; a deploy can only replace that broker by an empty one, and   *)
(* nothing ever brings a shadowed broker back.                              *)
EXTENDS TradingTools, TLAPS

USE DEF Sessions

(* Only a session that was opened has brokers.                              *)
BrokersOfOpened ==
  \A s \in Sessions : session[s] = None => manual[s] = None /\ deployed[s] = None

-----------------------------------------------------------------------------
(* Facts about orders and brokers.                                         *)

(* A new order is an order.                                                *)
LEMMA NewOrderType ==
  ASSUME TypeOK, NEW s \in Sessions, NEW by \in {"client", "strategy"}
  PROVE  NewOrder(s, by) \in Order
BY DEF TypeOK, NewOrder, Order, IsHalted

(* One more order.                                                         *)
LEMMA AppendType ==
  ASSUME NEW orders \in Seq(Order), NEW o \in Order
  PROVE  /\ Append(orders, o) \in Seq(Order)
         /\ Append(orders, o) # orders
         /\ Len(Append(orders, o)) = Len(orders) + 1
         /\ Append(orders, o)[Len(orders) + 1] = o
         /\ \A k \in DOMAIN orders : Append(orders, o)[k] = orders[k]
         /\ DOMAIN Append(orders, o) = DOMAIN orders \cup {Len(orders) + 1}
OBVIOUS

(* A broker with other orders is a broker.                                 *)
LEMMA BrokerWith ==
  ASSUME NEW b \in Broker, NEW orders \in Seq(Order)
  PROVE  /\ [b EXCEPT !.orders = orders] \in Broker
         /\ [b EXCEPT !.orders = orders].orders = orders
         /\ [b EXCEPT !.orders = orders] # None
<1>1. /\ [b EXCEPT !.orders = orders] \in Broker
      /\ [b EXCEPT !.orders = orders].orders = orders
  BY DEF Broker
<1> QED
  BY <1>1, TradingAssumption

(* Cancelling keeps the orders in their places.                            *)
LEMMA CanceledType ==
  ASSUME NEW orders \in Seq(Order)
  PROVE  /\ \A k \in DOMAIN orders : CanceledAt(orders, k) \in Seq(Order)
         /\ AllCanceled(orders) \in Seq(Order)
         /\ DOMAIN AllCanceled(orders) = DOMAIN orders
         /\ \A k \in DOMAIN orders : AllCanceled(orders)[k].status = "canceled"
<1>0. \A k \in DOMAIN orders :
        [orders[k] EXCEPT !.status = "canceled"] \in Order
  <2>1. \A o \in Order : [o EXCEPT !.status = "canceled"] \in Order
    BY DEF Order
  <2>2. \A k \in DOMAIN orders : orders[k] \in Order
    OBVIOUS
  <2> QED
    BY <2>1, <2>2
<1>1. ASSUME NEW k \in DOMAIN orders PROVE CanceledAt(orders, k) \in Seq(Order)
  <2>1. [orders[k] EXCEPT !.status = "canceled"] \in Order
    BY <1>0
  <2> QED
    BY <2>1 DEF CanceledAt
<1>3. AllCanceled(orders) \in Seq(Order)
  <2>1. DOMAIN orders = 1 .. Len(orders) /\ Len(orders) \in Nat
    OBVIOUS
  <2>2. AllCanceled(orders) \in [1 .. Len(orders) -> Order]
    BY <1>0, <2>1 DEF AllCanceled
  <2> QED
    BY <2>1, <2>2
<1>4. \A k \in DOMAIN orders : AllCanceled(orders)[k].status = "canceled"
  <2>1. \A k \in DOMAIN orders : orders[k] \in Order
    OBVIOUS
  <2> QED
    BY <2>1 DEF AllCanceled, Order
<1> QED
  BY <1>1, <1>3, <1>4 DEF AllCanceled

(* The orders the tools read are orders.                                    *)
LEMMA HeldType ==
  ASSUME TypeOK, NEW s \in Sessions
  PROVE  Held(s) \in Seq(Order) \cup {None}
BY DEF TypeOK, Held, Broker

-----------------------------------------------------------------------------
(* Types, and which sessions have brokers.                                 *)

(* A run loop drives a broker.                                              *)
LoopsHaveBrokers == \A s \in Sessions : looping[s] => deployed[s] # None

Shape == TypeOK /\ BrokersOfOpened /\ LoopsHaveBrokers

IInv == Shape /\ HaltLeavesNoClientOrder

(* At first there is no session.                                           *)
LEMMA InitShape == Init => Shape
<1> SUFFICES ASSUME Init PROVE Shape
  OBVIOUS
<1>1. /\ session \in [Sessions -> Session \cup {None}]
      /\ manual \in [Sessions -> Seq(Order) \cup {None}]
      /\ deployed \in [Sessions -> Broker \cup {None}]
  BY DEF Init
<1>2. order_seq \in [Sessions -> 0 .. MaxOrders]
  BY TradingAssumption DEF Init
<1>3. /\ looping \in [Sessions -> BOOLEAN]
      /\ global_engaged \in BOOLEAN
      /\ exchange_halts \subseteq {Norm[x] : x \in Scopes}
  BY DEF Init
<1>4. BrokersOfOpened /\ LoopsHaveBrokers
  BY DEF Init, BrokersOfOpened, LoopsHaveBrokers
<1> QED
  BY <1>1, <1>2, <1>3, <1>4 DEF Shape, TypeOK

(* The disjuncts of Next, one by one.                                       *)
LEMMA Steps ==
  ASSUME [Next]_vars
  PROVE  \/ \E s \in Sessions, offer \in Offers : StartSession(s, offer[1], offer[2])
         \/ \E s \in Sessions : PlaceOrder(s)
         \/ \E s \in Sessions, k \in 1 .. MaxOrders + MaxSignals : CancelOrder(s, k)
         \/ \E s \in Sessions : DeployStrategy(s)
         \/ \E s \in Sessions : StrategySubmits(s)
         \/ \E s \in Sessions : LoopEnds(s)
         \/ \E scope \in Scopes \cup {None} : EngageKillSwitch(scope)
         \/ \E scope \in Scopes \cup {None} : ResetKillSwitch(scope)
         \/ UNCHANGED vars
BY DEF Next

(* A step that gives an opened session a broker, or another one, and        *)
(* changes at most its run loop besides.                                    *)
LEMMA BrokerBound ==
  ASSUME Shape, NEW s \in Sessions, session[s] # None,
         NEW b \in Broker, deployed' = [deployed EXCEPT ![s] = b],
         NEW l \in BOOLEAN, looping' = [looping EXCEPT ![s] = l],
         order_seq' \in [Sessions -> 0 .. MaxOrders],
         UNCHANGED <<session, manual, halts>>
  PROVE  Shape'
<1> USE TradingAssumption DEF Shape, TypeOK, BrokersOfOpened, LoopsHaveBrokers, halts
<1>1. /\ deployed' \in [Sessions -> Broker \cup {None}]
      /\ looping' \in [Sessions -> BOOLEAN]
  OBVIOUS
<1>2. deployed'[s] # None /\ \A t \in Sessions \ {s} : deployed'[t] = deployed[t]
  BY DEF Broker
<1>3. BrokersOfOpened'
  BY <1>2
<1>4. LoopsHaveBrokers'
  BY <1>2
<1> QED
  BY <1>1, <1>3, <1>4

(* Every step keeps the types.                                             *)
LEMMA ShapeStep ==
  ASSUME Shape, [Next]_vars
  PROVE  Shape'
<1> USE TradingAssumption DEF Shape, TypeOK, BrokersOfOpened, LoopsHaveBrokers, halts
<1>1. ASSUME NEW s \in Sessions, NEW offer \in Offers,
             StartSession(s, offer[1], offer[2])
      PROVE  Shape'
  <2>1. [mode |-> offer[1], exchange |-> offer[2]] \in Session
    BY DEF Session
  <2> QED
    BY <1>1, <2>1 DEF StartSession
<1>2. ASSUME NEW s \in Sessions, PlaceOrder(s)
      PROVE  Shape'
  <2>1. NewOrder(s, "client") \in Order
    BY NewOrderType
  <2>2. CASE deployed[s] # None
    <3>1. deployed[s] \in Broker
      BY <2>2
    <3>2. [deployed[s] EXCEPT !.orders = Append(@, NewOrder(s, "client"))] \in Broker
      BY <3>1, <2>1, AppendType DEF Broker
    <3>3. deployed' = [deployed EXCEPT ![s] =
                  [deployed[s] EXCEPT !.orders = Append(@, NewOrder(s, "client"))]]
      BY <1>2, <2>2 DEF PlaceOrder, Accepted
    <3>4. /\ UNCHANGED <<session, manual, halts>>
          /\ looping' = [looping EXCEPT ![s] = looping[s]]
          /\ order_seq' \in [Sessions -> 0 .. MaxOrders]
          /\ session[s] # None
      BY <1>2, <2>2 DEF PlaceOrder, Accepted, Opened
    <3> QED
      BY <3>2, <3>3, <3>4, BrokerBound
  <2>3. CASE deployed[s] = None
    <3> DEFINE kept == IF manual[s] = None THEN <<NewOrder(s, "client")>>
                       ELSE Append(manual[s], NewOrder(s, "client"))
    <3>1. kept \in Seq(Order)
      BY <2>1, AppendType
    <3>2. manual' = [manual EXCEPT ![s] = kept]
      BY <1>2, <2>3 DEF PlaceOrder, Accepted
    <3> HIDE DEF kept
    <3>3. manual' \in [Sessions -> Seq(Order) \cup {None}]
      BY <3>1, <3>2
    <3>4. /\ UNCHANGED <<session, deployed, looping, halts>>
          /\ order_seq' \in [Sessions -> 0 .. MaxOrders]
          /\ session[s] # None
      BY <1>2, <2>3 DEF PlaceOrder, Accepted, Opened
    <3> QED
      BY <3>2, <3>3, <3>4
  <2> QED
    BY <2>2, <2>3
<1>3. ASSUME NEW s \in Sessions, NEW k \in 1 .. MaxOrders + MaxSignals,
             CancelOrder(s, k)
      PROVE  Shape'
  <2>1. k \in DOMAIN Held(s) /\ Held(s) # None
    BY <1>3 DEF CancelOrder, OpenOrders, OpenAt
  <2>2. CASE deployed[s] # None
    <3>1. [deployed[s] EXCEPT !.orders = CanceledAt(@, k)] \in Broker
      BY <2>1, <2>2, CanceledType DEF Held, Broker
    <3>2. deployed' = [deployed EXCEPT ![s] =
                         [deployed[s] EXCEPT !.orders = CanceledAt(@, k)]]
      BY <1>3, <2>2 DEF CancelOrder
    <3>3. /\ UNCHANGED <<session, manual, halts, order_seq>>
          /\ looping' = [looping EXCEPT ![s] = looping[s]]
          /\ session[s] # None
      BY <1>3, <2>2 DEF CancelOrder, Opened
    <3> QED
      BY <3>1, <3>2, <3>3, BrokerBound
  <2>3. CASE deployed[s] = None
    <3>1. CanceledAt(manual[s], k) \in Seq(Order)
      BY <2>1, <2>3, CanceledType DEF Held
    <3>2. manual' = [manual EXCEPT ![s] = CanceledAt(manual[s], k)]
      BY <1>3, <2>3 DEF CancelOrder
    <3>3. manual' \in [Sessions -> Seq(Order) \cup {None}]
      BY <3>1, <3>2
    <3>4. UNCHANGED <<session, order_seq, deployed, looping, halts>> /\ session[s] # None
      BY <1>3, <2>3 DEF CancelOrder, Opened
    <3> QED
      BY <3>2, <3>3, <3>4
  <2> QED
    BY <2>2, <2>3
<1>4. ASSUME NEW s \in Sessions, DeployStrategy(s)
      PROVE  Shape'
  <2> DEFINE starts == /\ ~looping[s]
                       /\ \/ session[s].mode = "paper"
                          \/ session[s].exchange \in Sandboxed
             fresh == [orders |-> <<>>, loop |-> IF starts THEN "live" ELSE "none"]
  <2>1. fresh \in Broker
    BY DEF Broker
  <2>2. deployed' = [deployed EXCEPT ![s] = fresh]
    BY <1>4 DEF DeployStrategy
  <2> HIDE DEF fresh
  <2>3. /\ UNCHANGED <<session, manual, halts, order_seq>>
        /\ looping' = [looping EXCEPT ![s] = looping[s] \/ starts]
        /\ (looping[s] \/ starts) \in BOOLEAN
        /\ session[s] # None
    BY <1>4 DEF DeployStrategy, Opened
  <2> QED
    BY <2>1, <2>2, <2>3, BrokerBound
<1>6. ASSUME NEW s \in Sessions, StrategySubmits(s)
      PROVE  Shape'
  <2>1. NewOrder(s, "strategy") \in Order
    BY NewOrderType
  <2>2. [deployed[s] EXCEPT !.orders = Append(@, NewOrder(s, "strategy"))] \in Broker
    <3>1. deployed[s] \in Broker
      BY <1>6 DEF StrategySubmits
    <3> QED
      BY <3>1, <2>1, AppendType DEF Broker
  <2>3. deployed' = [deployed EXCEPT ![s] =
          [deployed[s] EXCEPT !.orders = Append(@, NewOrder(s, "strategy"))]]
    BY <1>6 DEF StrategySubmits
  <2>4. /\ UNCHANGED <<session, manual, halts, order_seq>>
        /\ looping' = [looping EXCEPT ![s] = looping[s]]
        /\ session[s] # None
    BY <1>6 DEF StrategySubmits
  <2> QED
    BY <2>2, <2>3, <2>4, BrokerBound
<1>7. ASSUME NEW s \in Sessions, LoopEnds(s)
      PROVE  Shape'
  <2> DEFINE kept == IF deployed[s].loop = "live"
                       THEN [deployed[s] EXCEPT !.loop = "none"] ELSE deployed[s]
  <2>1. deployed' = [deployed EXCEPT ![s] = kept]
    BY <1>7 DEF LoopEnds
  <2>2. deployed[s] \in Broker
    BY <1>7 DEF LoopEnds
  <2>3. kept \in Broker
    BY <2>2 DEF Broker
  <2> HIDE DEF kept
  <2>4. /\ UNCHANGED <<session, manual, halts, order_seq>>
        /\ looping' = [looping EXCEPT ![s] = FALSE]
        /\ session[s] # None
    BY <1>7, <2>2 DEF LoopEnds
  <2> QED
    BY <2>1, <2>3, <2>4, BrokerBound
<1>8. ASSUME NEW scope \in Scopes \cup {None}, EngageKillSwitch(scope)
      PROVE  Shape'
  <2>1. \A s \in Sessions : deployed[s] # None =>
          [deployed[s] EXCEPT !.orders = AllCanceled(@)] \in Broker
    BY CanceledType DEF Broker
  <2>2. /\ deployed' \in [Sessions -> Broker \cup {None}]
        /\ \A s \in Sessions : deployed[s] = None => deployed'[s] = None
        /\ \A s \in Sessions : deployed[s] # None => deployed'[s] # None
    BY <1>8, <2>1 DEF EngageKillSwitch, CancelOpenPaperOrders
  <2>3. /\ manual' \in [Sessions -> Seq(Order) \cup {None}]
        /\ \A s \in Sessions : manual[s] = None => manual'[s] = None
    BY <1>8, CanceledType DEF EngageKillSwitch, CancelOpenPaperOrders
  <2>4. /\ UNCHANGED <<session, order_seq, looping>>
        /\ global_engaged' \in BOOLEAN
        /\ exchange_halts' \subseteq {Norm[x] : x \in Scopes}
    BY <1>8 DEF EngageKillSwitch
  <2> QED
    BY <2>2, <2>3, <2>4
<1>9. ASSUME NEW scope \in Scopes \cup {None}, ResetKillSwitch(scope)
      PROVE  Shape'
  BY <1>9 DEF ResetKillSwitch
<1>10. ASSUME UNCHANGED vars PROVE Shape'
  BY <1>10 DEF vars
<1> QED
  BY <1>1, <1>2, <1>3, <1>4, <1>6, <1>7, <1>8, <1>9, <1>10, Steps

-----------------------------------------------------------------------------
(* What a step does to the orders a client sees.                           *)

(* Orders that a sweep has cancelled are open no more.                      *)
LEMMA SweptIsClosed ==
  ASSUME Shape, NEW scope \in Scopes \cup {None}, NEW s \in Sessions,
         EngageKillSwitch(scope), Swept(s, scope)
  PROVE  OpenOrders(s)' = {}
<1> USE TradingAssumption DEF Shape, TypeOK
<1>1. CASE deployed[s] # None
  <2>1. deployed[s] \in Broker
    BY <1>1
  <2>2. deployed'[s] = [deployed[s] EXCEPT !.orders = AllCanceled(@)]
    BY <1>1 DEF EngageKillSwitch, CancelOpenPaperOrders
  <2>3. deployed'[s].orders = AllCanceled(deployed[s].orders) /\ deployed'[s] # None
    <3>1. [deployed[s] EXCEPT !.orders = AllCanceled(@)] \in Broker
      BY <2>1, CanceledType DEF Broker
    <3>2. deployed'[s] # None
      BY <3>1, <2>2
    <3> QED
      BY <2>1, <2>2, <3>2 DEF Broker
  <2>4. Held(s)' = AllCanceled(deployed[s].orders)
    BY <2>3 DEF Held
  <2>5. deployed[s].orders \in Seq(Order)
    BY <2>1 DEF Broker
  <2> QED
    BY <2>4, <2>5, CanceledType DEF OpenOrders, OpenAt
<1>2. CASE deployed[s] = None
  <2>1. deployed'[s] = None
    BY <1>2 DEF EngageKillSwitch, CancelOpenPaperOrders
  <2>2. CASE manual[s] # None
    <3>1. manual'[s] = AllCanceled(manual[s]) /\ manual[s] \in Seq(Order)
      BY <1>2, <2>2 DEF EngageKillSwitch, CancelOpenPaperOrders
    <3>2. Held(s)' = AllCanceled(manual[s])
      BY <2>1, <3>1 DEF Held
    <3> QED
      BY <3>1, <3>2, CanceledType DEF OpenOrders, OpenAt
  <2>3. CASE manual[s] = None
    <3>1. manual'[s] = None
      BY <1>2, <2>3 DEF EngageKillSwitch, CancelOpenPaperOrders
    <3> QED
      BY <2>1, <3>1 DEF Held, OpenOrders, OpenAt
  <2> QED
    BY <2>2, <2>3
<1> QED
  BY <1>1, <1>2

(* What the sweep leaves out it leaves alone.                               *)
LEMMA UnsweptIsKept ==
  ASSUME Shape, NEW scope \in Scopes \cup {None}, NEW s \in Sessions,
         EngageKillSwitch(scope), ~Swept(s, scope)
  PROVE  Held(s)' = Held(s)
BY DEF EngageKillSwitch, CancelOpenPaperOrders, Held, Shape, TypeOK

(* A strategy's submission is appended to what is visible.                  *)
LEMMA SubmissionIsAppended ==
  ASSUME Shape, NEW s \in Sessions, StrategySubmits(s)
  PROVE  Held(s)' = Append(Held(s), NewOrder(s, "strategy"))
<1> USE TradingAssumption DEF Shape, TypeOK
<1>1. deployed[s] \in Broker
  BY DEF StrategySubmits
<1>2. deployed'[s] = [deployed[s] EXCEPT !.orders = Append(@, NewOrder(s, "strategy"))]
  BY DEF StrategySubmits
<1>3. /\ deployed[s].orders \in Seq(Order)
      /\ NewOrder(s, "strategy") \in Order
  BY <1>1, NewOrderType DEF Broker
<1>4. Append(deployed[s].orders, NewOrder(s, "strategy")) \in Seq(Order)
  BY <1>3, AppendType
<1>5. /\ deployed'[s].orders = Append(deployed[s].orders, NewOrder(s, "strategy"))
      /\ deployed'[s] # None
  BY <1>1, <1>2, <1>4, BrokerWith
<1> QED
  BY <1>1, <1>5 DEF Held

(* So is a client's order.                                                  *)
LEMMA AcceptedIsAppended ==
  ASSUME Shape, NEW s \in Sessions, PlaceOrder(s)
  PROVE  Held(s)' = IF Held(s) = None THEN <<NewOrder(s, "client")>>
                       ELSE Append(Held(s), NewOrder(s, "client"))
<1> USE TradingAssumption DEF Shape, TypeOK
<1>1. CASE deployed[s] # None
  <2>1. deployed[s] \in Broker
    BY <1>1
  <2>2. deployed'[s] = [deployed[s] EXCEPT !.orders = Append(@, NewOrder(s, "client"))]
    BY <1>1 DEF PlaceOrder, Accepted
  <2>3. /\ deployed[s].orders \in Seq(Order)
        /\ NewOrder(s, "client") \in Order
    BY <2>1, NewOrderType DEF Broker
  <2>4. Append(deployed[s].orders, NewOrder(s, "client")) \in Seq(Order)
    BY <2>3, AppendType
  <2>5. /\ deployed'[s].orders = Append(deployed[s].orders, NewOrder(s, "client"))
        /\ deployed'[s] # None
    BY <2>1, <2>2, <2>4, BrokerWith
  <2> QED
    BY <1>1, <2>3, <2>5 DEF Held
<1>2. CASE deployed[s] = None
  <2>1. deployed'[s] = None
    BY <1>2 DEF PlaceOrder, Accepted
  <2>2. manual'[s] = IF manual[s] = None THEN <<NewOrder(s, "client")>>
                     ELSE Append(manual[s], NewOrder(s, "client"))
    BY <1>2 DEF PlaceOrder, Accepted
  <2> QED
    BY <1>2, <2>1, <2>2 DEF Held
<1> QED
  BY <1>1, <1>2

(* A client's cancellation changes one order's status.                      *)
LEMMA CancelIsHeld ==
  ASSUME Shape, NEW s \in Sessions, NEW k \in 1 .. MaxOrders + MaxSignals,
         CancelOrder(s, k)
  PROVE  /\ Held(s) # None
         /\ Held(s)' = CanceledAt(Held(s), k)
<1> USE TradingAssumption DEF Shape, TypeOK
<1>0. k \in DOMAIN Held(s) /\ Held(s) # None
  BY DEF CancelOrder, OpenOrders, OpenAt
<1>1. CASE deployed[s] # None
  <2>1. deployed[s] \in Broker
    BY <1>1
  <2>2. deployed'[s] = [deployed[s] EXCEPT !.orders = CanceledAt(@, k)]
    BY <1>1 DEF CancelOrder
  <2>3. deployed[s].orders \in Seq(Order) /\ k \in DOMAIN deployed[s].orders
    BY <1>0, <1>1, <2>1 DEF Broker, Held
  <2>4. CanceledAt(deployed[s].orders, k) \in Seq(Order)
    BY <2>3, CanceledType
  <2>5. /\ deployed'[s].orders = CanceledAt(deployed[s].orders, k)
        /\ deployed'[s] # None
    BY <2>1, <2>2, <2>4, BrokerWith
  <2> QED
    BY <1>0, <1>1, <2>5 DEF Held
<1>2. CASE deployed[s] = None
  BY <1>0, <1>2 DEF CancelOrder, Held
<1> QED
  BY <1>1, <1>2

(* The end of a run loop leaves the orders alone.                         *)
LEMMA LoopEndKeepsOrders ==
  ASSUME Shape, NEW s \in Sessions, LoopEnds(s), NEW t \in Sessions
  PROVE  Held(t)' = Held(t)
<1> USE TradingAssumption DEF Shape, TypeOK, LoopsHaveBrokers
<1>1. CASE t = s
  <2>1. deployed[s] \in Broker
    BY DEF LoopEnds
  <2>2. \A x : [deployed[s] EXCEPT !.loop = x].orders = deployed[s].orders
    BY <2>1 DEF Broker
  <2>3. \A x \in {"none", "live"} : [deployed[s] EXCEPT !.loop = x] \in Broker
    BY <2>1 DEF Broker
  <2>4. \/ deployed'[s] = deployed[s]
        \/ \E x \in {"none", "live"} : deployed'[s] = [deployed[s] EXCEPT !.loop = x]
    BY <2>1 DEF LoopEnds
  <2>5. deployed'[s].orders = deployed[s].orders /\ deployed'[s] # None
    BY <2>1, <2>2, <2>3, <2>4
  <2> QED
    BY <1>1, <2>1, <2>5 DEF Held
<1>2. CASE t # s
  BY <1>2 DEF LoopEnds, Held
<1> QED
  BY <1>1, <1>2

-----------------------------------------------------------------------------
(* A global halt leaves no client's order.                                 *)

(* Every step keeps the promise of a halt.                                 *)
LEMMA HaltStep ==
  ASSUME Shape, HaltLeavesNoClientOrder, [Next]_vars
  PROVE  HaltLeavesNoClientOrder'
<1> SUFFICES ASSUME global_engaged', NEW t \in Sessions, session'[t] # None,
                    session'[t].mode = "paper", NEW k \in OpenOrders(t)'
             PROVE  Held(t)'[k].by = "strategy" /\ Held(t)'[k].halted
  BY DEF HaltLeavesNoClientOrder, Opened, OpenOrders
<1> USE DEF Opened
<1>old. ASSUME global_engaged, session[t] = session'[t], NEW j \in OpenOrders(t)
        PROVE  Held(t)[j].by = "strategy" /\ Held(t)[j].halted
  BY <1>old DEF HaltLeavesNoClientOrder
<1>kept. ASSUME global_engaged, session[t] = session'[t], Held(t)' = Held(t)
         PROVE  Held(t)'[k].by = "strategy" /\ Held(t)'[k].halted
  <2>1. OpenOrders(t)' = OpenOrders(t)
    BY <1>kept DEF OpenOrders, OpenAt
  <2> QED
    BY <2>1, <1>kept, <1>old
<1>open. Held(t)' # None /\ k \in DOMAIN Held(t)' /\ Held(t)'[k].status = "open"
  BY DEF OpenOrders, OpenAt
<1>1. ASSUME NEW s \in Sessions, NEW offer \in Offers,
             StartSession(s, offer[1], offer[2])
      PROVE  Held(t)'[k].by = "strategy" /\ Held(t)'[k].halted
  <2>1. CASE t = s
    <3>1. Held(t)' = None
      BY <1>1, <2>1 DEF StartSession, Held, Shape, BrokersOfOpened
    <3> QED
      BY <3>1, <1>open
  <2>2. CASE t # s
    BY <1>1, <2>2, <1>kept DEF StartSession, Held, halts
  <2> QED
    BY <2>1, <2>2
<1>2. ASSUME NEW s \in Sessions, PlaceOrder(s)
      PROVE  FALSE
  BY <1>2 DEF PlaceOrder, MayPass, IsHalted, halts
<1>3. ASSUME NEW s \in Sessions, NEW i \in 1 .. MaxOrders + MaxSignals,
             CancelOrder(s, i)
      PROVE  Held(t)'[k].by = "strategy" /\ Held(t)'[k].halted
  <2>1. CASE t = s
    <3>1. Held(t) \in Seq(Order) /\ Held(t)' = CanceledAt(Held(t), i)
      BY <1>3, <2>1, CancelIsHeld, HeldType DEF Shape
    <3>2. k \in DOMAIN Held(t) /\ k # i
      <4>1. \A j \in DOMAIN Held(t) : Held(t)[j] \in Order
        BY <3>1
      <4>2. DOMAIN Held(t)' = DOMAIN Held(t)
        BY <3>1 DEF CanceledAt
      <4>3. k = i => Held(t)'[k].status = "canceled"
        BY <3>1, <4>1, <4>2, <1>open DEF CanceledAt, Order
      <4> QED
        BY <4>2, <4>3, <1>open
    <3>3. Held(t)'[k] = Held(t)[k]
      BY <3>1, <3>2 DEF CanceledAt
    <3>4. k \in OpenOrders(t)
      <4>1. session' = session
        BY <1>3 DEF CancelOrder
      <4> QED
        BY <3>1, <3>2, <3>3, <4>1, <1>open, TradingAssumption DEF OpenOrders, OpenAt
    <3> QED
      BY <3>3, <3>4, <1>3, <1>old DEF CancelOrder, halts
  <2>2. CASE t # s
    BY <1>3, <2>2, <1>kept DEF CancelOrder, Held, halts, Shape, TypeOK
  <2> QED
    BY <2>1, <2>2
<1>4. ASSUME NEW s \in Sessions, DeployStrategy(s)
      PROVE  Held(t)'[k].by = "strategy" /\ Held(t)'[k].halted
  <2>1. CASE t = s
    <3> DEFINE starts == /\ ~looping[s]
                         /\ \/ session[s].mode = "paper"
                            \/ session[s].exchange \in Sandboxed
               fresh == [orders |-> <<>>, loop |-> IF starts THEN "live" ELSE "none"]
    <3>1. deployed'[s] = fresh
      BY <1>4 DEF DeployStrategy, Shape, TypeOK
    <3>2. fresh \in Broker /\ fresh.orders = <<>>
      BY DEF Broker
    <3>3. fresh # None
      BY <3>2, TradingAssumption
    <3>4. Held(t)' = <<>>
      BY <2>1, <3>1, <3>2, <3>3 DEF Held
    <3> QED
      BY <3>4, <1>open
  <2>2. CASE t # s
    BY <1>4, <2>2, <1>kept DEF DeployStrategy, Held, halts, Shape, TypeOK
  <2> QED
    BY <2>1, <2>2
<1>5. ASSUME NEW s \in Sessions, LoopEnds(s)
      PROVE  Held(t)'[k].by = "strategy" /\ Held(t)'[k].halted
  <2>1. Held(t)' = Held(t)
    BY <1>5, LoopEndKeepsOrders
  <2> QED
    BY <1>5, <2>1, <1>kept DEF LoopEnds, halts
<1>6. ASSUME NEW s \in Sessions, StrategySubmits(s)
      PROVE  Held(t)'[k].by = "strategy" /\ Held(t)'[k].halted
  <2>1. CASE t = s
    <3> DEFINE o == NewOrder(s, "strategy")
    <3>1. Held(t)' = Append(Held(t), o)
      BY <1>6, <2>1, SubmissionIsAppended
    <3>2. o \in Order /\ o.by = "strategy" /\ o.halted
      <4>1. o \in Order
        BY NewOrderType DEF Shape
      <4>2. global_engaged
        BY <1>6 DEF StrategySubmits, halts
      <4> QED
        BY <4>1, <4>2 DEF NewOrder, IsHalted
    <3>3. Held(t) \in Seq(Order) /\ Held(t) # None
      <4>1. deployed[s] \in Broker
        BY <1>6 DEF StrategySubmits, Shape, TypeOK
      <4> QED
        BY <1>6, <2>1, <4>1, TradingAssumption DEF Held, StrategySubmits, Broker
    <3> HIDE DEF o
    <3>4. CASE k = Len(Held(t)) + 1
      BY <3>1, <3>2, <3>3, <3>4, AppendType
    <3>5. CASE k # Len(Held(t)) + 1
      <4>1. k \in DOMAIN Held(t) /\ Held(t)'[k] = Held(t)[k]
        BY <3>1, <3>2, <3>3, <3>5, <1>open, AppendType
      <4>2. k \in OpenOrders(t)
        <5>1. session' = session
          BY <1>6 DEF StrategySubmits
        <5> QED
          BY <4>1, <3>3, <5>1, <1>open DEF OpenOrders, OpenAt
      <4> QED
        BY <4>1, <4>2, <1>6, <1>old DEF StrategySubmits, halts
    <3> QED
      BY <3>4, <3>5
  <2>2. CASE t # s
    BY <1>6, <2>2, <1>kept DEF StrategySubmits, Held, halts, Shape, TypeOK
  <2> QED
    BY <2>1, <2>2
<1>7. ASSUME NEW scope \in Scopes \cup {None}, EngageKillSwitch(scope)
      PROVE  Held(t)'[k].by = "strategy" /\ Held(t)'[k].halted
  <2>1. session' = session
    BY <1>7 DEF EngageKillSwitch
  <2>2. ~Swept(t, scope)
    BY <1>7, SweptIsClosed
  <2>3. scope # None
    BY <2>1, <2>2 DEF Swept
  <2>4. global_engaged' = global_engaged
    BY <1>7, <2>3 DEF EngageKillSwitch
  <2> QED
    BY <1>7, <2>1, <2>2, <2>4, UnsweptIsKept, <1>kept
<1>8. ASSUME NEW scope \in Scopes \cup {None}, ResetKillSwitch(scope)
      PROVE  Held(t)'[k].by = "strategy" /\ Held(t)'[k].halted
  BY <1>8, <1>kept DEF ResetKillSwitch, Held
<1>9. ASSUME UNCHANGED vars
      PROVE  Held(t)'[k].by = "strategy" /\ Held(t)'[k].halted
  BY <1>9, <1>kept DEF vars, halts, Held
<1> QED
  BY <1>1, <1>2, <1>3, <1>4, <1>5, <1>6, <1>7, <1>8, <1>9, Steps

-----------------------------------------------------------------------------
(* The theorems.                                                           *)

(* The inductive invariant holds throughout.                               *)
LEMMA Invariance == Spec => []IInv
<1>1. Init => IInv
  BY InitShape DEF IInv, Shape, Init, HaltLeavesNoClientOrder
<1>2. IInv /\ [Next]_vars => IInv'
  BY ShapeStep, HaltStep DEF IInv
<1> QED
  BY <1>1, <1>2, PTL DEF Spec

(* Every variable of TradingTools keeps its type.                           *)
THEOREM TypeCorrect == Spec => []TypeOK
<1>1. IInv => TypeOK
  BY DEF IInv, Shape
<1> QED
  BY <1>1, Invariance, PTL

(* Under a global halt, whatever was deployed, stopped, reset and engaged   *)
(* before, a paper session shows no open order of a client.                 *)
THEOREM HaltIsClean == Spec => []HaltLeavesNoClientOrder
<1>1. IInv => HaltLeavesNoClientOrder
  BY DEF IInv
<1> QED
  BY <1>1, Invariance, PTL

(* The kill switch cancels orders of halted exchanges only.                 *)
THEOREM SweepIsWithinHalt == Spec => SweepWithinHalt
<1> DEFINE Within == \A s \in Opened :
                       halts' # halts /\ Held(s)' # Held(s)
                         => IsHalted(session[s].exchange)'
<1>1. IInv /\ [Next]_vars => [Within]_vars
  <2> SUFFICES ASSUME IInv, [Next]_vars, NEW s \in Opened,
                      halts' # halts, Held(s)' # Held(s)
               PROVE  IsHalted(session[s].exchange)'
    OBVIOUS
  <2>1. s \in Sessions /\ Shape
    BY DEF Opened, IInv
  <2>2. PICK scope \in Scopes \cup {None} :
          EngageKillSwitch(scope) \/ ResetKillSwitch(scope)
    BY Steps DEF StartSession, PlaceOrder, CancelOrder, DeployStrategy,
                 StrategySubmits, LoopEnds, vars, halts
  <2>3. EngageKillSwitch(scope)
    BY <2>2 DEF ResetKillSwitch, Held
  <2>4. Swept(s, scope)
    BY <2>1, <2>3, UnsweptIsKept
  <2>5. CASE scope = None
    BY <2>3, <2>5 DEF EngageKillSwitch, IsHalted
  <2>6. CASE scope # None
    BY <2>3, <2>4, <2>6 DEF EngageKillSwitch, IsHalted, Swept
  <2> QED
    BY <2>5, <2>6
<1> QED
  BY <1>1, Invariance, PTL DEF Spec, SweepWithinHalt

(* An order that place_order acknowledges is with the broker that the risk  *)
(* check of the next order reads, and open to the tools on a paper session. *)
(* Nothing is claimed of what the tools show of a testnet session.          *)
THEOREM AcceptedOrderIsBooked == Spec => AcceptedIsBooked
<1> DEFINE Booked(s) ==
             /\ Held(s)' # None
             /\ Held(s)' # Held(s)
             /\ Held(s)'[Len(Held(s)')].by = "client"
             /\ session[s].mode = "paper" => Len(Held(s)') \in OpenOrders(s)'
<1>1. IInv /\ [Next]_vars =>
        [\A s \in Opened : order_seq'[s] # order_seq[s] => Booked(s)]_vars
  <2> SUFFICES ASSUME IInv, [Next]_vars, NEW s \in Opened,
                      order_seq'[s] # order_seq[s]
               PROVE  Booked(s)
    OBVIOUS
  <2>1. s \in Sessions /\ Shape /\ TypeOK
    BY DEF Opened, IInv, Shape
  <2>2. PICK t \in Sessions : PlaceOrder(t)
    BY Steps DEF StartSession, EngageKillSwitch, ResetKillSwitch, CancelOrder,
                 DeployStrategy, StrategySubmits, LoopEnds, vars
  <2>3. t = s
    BY <2>1, <2>2 DEF PlaceOrder, TypeOK
  <2> DEFINE o == NewOrder(s, "client")
  <2>4. o \in Order /\ o.by = "client" /\ o.status = "open"
    BY <2>1, NewOrderType DEF NewOrder
  <2>5. Held(s)' = IF Held(s) = None THEN <<o>> ELSE Append(Held(s), o)
    BY <2>1, <2>2, <2>3, AcceptedIsAppended
  <2>6. Held(s) \in Seq(Order) \cup {None}
    BY <2>1, HeldType
  <2> HIDE DEF o
  <2>7. /\ Held(s)' \in Seq(Order) /\ Held(s)' # Held(s)
        /\ Len(Held(s)') \in DOMAIN Held(s)' /\ Held(s)'[Len(Held(s)')] = o
    <3>1. CASE Held(s) = None
      <4>1. /\ <<o>> \in Seq(Order) /\ Len(<<o>>) = 1 /\ <<o>>[1] = o
            /\ 1 \in DOMAIN <<o>>
        BY <2>4
      <4> QED
        BY <2>5, <3>1, <4>1, TradingAssumption
    <3>2. CASE Held(s) # None
      <4>1. Held(s) \in Seq(Order) /\ Held(s)' = Append(Held(s), o)
        BY <2>5, <2>6, <3>2
      <4>2. Len(Held(s)) + 1 \in DOMAIN Held(s)'
        BY <2>4, <4>1, AppendType
      <4> QED
        BY <2>4, <4>1, <4>2, AppendType
    <3> QED
      BY <3>1, <3>2
  <2>8. Held(s)' # None
    BY <2>7, TradingAssumption
  <2>9. session' = session
    BY <2>2 DEF PlaceOrder
  <2>10. session[s].mode = "paper" => Len(Held(s)') \in OpenOrders(s)'
    BY <2>4, <2>7, <2>8, <2>9 DEF OpenOrders, OpenAt
  <2> QED
    BY <2>4, <2>7, <2>8, <2>10
<1> QED
  BY <1>1, Invariance, PTL DEF Spec, AcceptedIsBooked
=============================================================================
