------------------------------ MODULE OrderPath ------------------------------
(***************************************************************************)
(* The manual order path of the server: the place_order tool from its      *)
(* first statement to its result, with the client-order-id registry, the   *)
(* safety preflight (kill switch, notional cap, gate), the retrying        *)
(* exchange adapter and the sandbox venue behind it.                       *)
(*                                                                         *)
(* The server is one asyncio event loop, so a tool call only interleaves   *)
(* with others where it awaits: in manager.get, in the network call and in *)
(* the backoff sleep.  Everything between two awaits is one action here.   *)
(* The await of manager.get finds its lock free and returns without giving *)
(* way; the module lets others run there all the same, so that nothing     *)
(* shown of it rests on that.                                              *)
(* A call is one place_order invocation and is never reused.               *)
(***************************************************************************)
EXTENDS Naturals, FiniteSets

CONSTANTS
  Sessions,      (* session ids that start_session has minted               *)
  Mode,          (* Sessions -> {"paper", "testnet"}                        *)
  ExchangeOf,    (* Sessions -> the exchange id the session was opened for  *)
  TradeEnabled,  (* exchanges whose credentials are trade-enabled           *)
  Eligible,      (* <<session, leg>> pairs check_jurisdiction lets pass     *)
  DryRun,        (* the process-wide dry-run default                        *)
  Legs,          (* (symbol, side) pairs an order can be for                *)
  Calls,         (* place_order invocations                                 *)
  Requests,      (* the arguments clients call place_order with             *)
  Notionals,     (* quote values an order or a position mark can imply      *)
  Caps,          (* values set_risk_limits may give max_order_notional      *)
  Scopes,        (* strings a client may pass as a kill-switch scope        *)
  Norm,          (* Scopes and exchange ids -> the stripped lower-case id   *)
  MaxAttempts,   (* MAX_RETRIES of the adapter                              *)
  MaxRestarts,   (* bound: how often the process may be restarted           *)
  None           (* Python's None: no seq, no price, no cap, no scope       *)

SessionMode == {"paper", "testnet"}

(* valid: the amount and the price pass OrderIntent's field constraints.   *)
Request ==
  [session : Sessions, leg : Legs, seq : Nat \cup {None},
   notional : Notionals \cup {None}, valid : BOOLEAN]

Coid == Sessions \X Legs \X Nat

Record == [owner : Calls, simulated : BOOLEAN]

ASSUME ConstantsAssumption ==
  /\ Requests \subseteq Request
  /\ Mode \in [Sessions -> SessionMode]
  /\ DOMAIN ExchangeOf = Sessions
  /\ Notionals \subseteq Nat
  /\ Caps \subseteq Nat
  /\ DryRun \in BOOLEAN
  /\ MaxAttempts \in Nat \ {0}
  /\ MaxRestarts \in Nat
  /\ None \notin Nat \cup Scopes \cup Coid \cup Record

VARIABLES
  order_seq,          (* per session: the next automatic sequence number    *)
  seen,               (* client order ids the IdempotencyRegistry holds     *)
  order_results,      (* client order id -> the record place_order returned *)
  global_engaged,     (* KillSwitchState: the global halt                   *)
  exchange_halts,     (* KillSwitchState: normalized ids that are halted    *)
  max_order_notional, (* the active notional cap, or None                   *)
  pc,                 (* where each call is                                 *)
  req,                (* the arguments of each call                         *)
  coid,               (* the client order id each call resolved to          *)
  role,               (* did the call claim its id or find it claimed?      *)
  attempt,            (* network attempts the call has made                 *)
  answer,             (* the record the call returned                       *)
  reply,              (* the venue's answer to the call's current attempt   *)
  wire,               (* requests on their way to the venue                 *)
  venue,              (* orders the venue has booked                        *)
  boot,               (* restarts of the process so far                     *)
  life                (* the value of boot when the call began              *)

registry == <<order_seq, seen, order_results>>
safety   == <<global_engaged, exchange_halts, max_order_notional>>
call     == <<pc, req, coid, role, attempt, answer, life>>
network  == <<reply, wire, venue>>
vars     == <<registry, safety, call, network, boot>>

-----------------------------------------------------------------------------
(* Data.  A comment that begins with "Slip" introduces a variant of the     *)
(* definition below it with a plausible mistake in it, which the properties *)
(* must tell from the code.                                                 *)

Attempt == Calls \X (1 .. MaxAttempts)

VenueOrder == [coid : Coid, call : Calls, attempt : 1 .. MaxAttempts]

Done    == {"returned", "denied", "failed", "key_error", "dead"}
Waiting == {"adapter", "awaiting", "backoff"}

(* Slip: the id forgets the session.                                        *)
SessionlessId(r, q) == <<CHOOSE s \in Sessions : TRUE, r.leg, q>>

(* make_client_order_id hashes its normalized inputs: the id is the triple. *)
ClientOrderId(r, q) == <<r.session, r.leg, q>>

IsHalted(exchange) == global_engaged \/ Norm[exchange] \in exchange_halts

(* The gate: paper is always simulated; testnet needs a trade-enabled key   *)
(* and an eligible venue, and is simulated while the dry-run default is on. *)
EvaluateOrder(r) ==
  IF Mode[r.session] = "paper" THEN "simulate"
  ELSE IF \/ ExchangeOf[r.session] \notin TradeEnabled
          \/ <<r.session, r.leg>> \notin Eligible THEN "deny"
  ELSE IF DryRun THEN "simulate" ELSE "route"

(* The notional the risk check sees.  Without a price it is the mark of the *)
(* session's open position, which this module leaves open, or unknown.      *)
RiskNotionals(r) ==
  IF r.notional = None THEN Notionals \cup {None} ELSE {r.notional}

BreachesCap(risk) ==
  /\ max_order_notional # None
  /\ IF risk = None THEN TRUE ELSE risk > max_order_notional

Refused(r, risk) ==
  \/ BreachesCap(risk)
  \/ IsHalted(ExchangeOf[r.session])
  \/ EvaluateOrder(r) = "deny"

Put(f, k, v) == [x \in DOMAIN f \cup {k} |-> IF x = k THEN v ELSE f[x]]

-----------------------------------------------------------------------------
Init ==
  /\ order_seq = [s \in Sessions |-> 0]
  /\ seen = {}
  /\ order_results = [k \in {} |-> None]
  /\ global_engaged = FALSE
  /\ exchange_halts = {}
  /\ max_order_notional = None
  /\ pc = [c \in Calls |-> "idle"]
  /\ req = [c \in Calls |-> None]
  /\ coid = [c \in Calls |-> None]
  /\ role = [c \in Calls |-> "none"]
  /\ attempt = [c \in Calls |-> 0]
  /\ answer = [c \in Calls |-> None]
  /\ reply = [c \in Calls |-> "none"]
  /\ wire = {}
  /\ venue = {}
  /\ boot = 0
  /\ life = [c \in Calls |-> 0]

-----------------------------------------------------------------------------
(* place_order, from the risk context to the next await or the result.     *)

Deny(c) ==
  /\ pc' = [pc EXCEPT ![c] = "denied"]
  /\ UNCHANGED <<registry, coid, role, attempt, answer, network>>

(* The id is already in the registry: order_results[coid] is returned, or   *)
(* raises KeyError when the first submission has left no result.            *)
Duplicate(c, k) ==
  /\ k \in seen
  /\ role' = [role EXCEPT ![c] = "duplicate"]
  /\ \/ /\ k \in DOMAIN order_results
        /\ pc' = [pc EXCEPT ![c] = "returned"]
        /\ answer' = [answer EXCEPT ![c] = order_results[k]]
     \/ /\ k \notin DOMAIN order_results
        /\ pc' = [pc EXCEPT ![c] = "key_error"]
        /\ UNCHANGED answer
  /\ UNCHANGED <<seen, order_results, attempt, network>>

(* The paper broker acknowledges at once.                                   *)
Simulate(c, k) ==
  LET rec == [owner |-> c, simulated |-> TRUE]
  IN /\ order_results' = Put(order_results, k, rec)
     /\ answer' = [answer EXCEPT ![c] = rec]
     /\ pc' = [pc EXCEPT ![c] = "returned"]
     /\ UNCHANGED <<attempt, network>>

(* Slip: the record is kept before the venue has answered.                  *)
RouteKeepingRecord(c) ==
  /\ pc' = [pc EXCEPT ![c] = "awaiting"]
  /\ attempt' = [attempt EXCEPT ![c] = 1]
  /\ reply' = [reply EXCEPT ![c] = "none"]
  /\ wire' = wire \cup {<<c, 1>>}
  /\ order_results' =
       Put(order_results, coid'[c], [owner |-> c, simulated |-> FALSE])
  /\ UNCHANGED <<answer, venue>>

(* adapter.create_order puts its first request on the wire and awaits.      *)
Route(c) ==
  /\ pc' = [pc EXCEPT ![c] = "awaiting"]
  /\ attempt' = [attempt EXCEPT ![c] = 1]
  /\ reply' = [reply EXCEPT ![c] = "none"]
  /\ wire' = wire \cup {<<c, 1>>}
  /\ UNCHANGED <<order_results, answer, venue>>

(* OrderIntent is built after the id is recorded: bad fields raise here.    *)
Invalid(c) ==
  /\ pc' = [pc EXCEPT ![c] = "failed"]
  /\ UNCHANGED <<order_results, attempt, answer, network>>

(* Slip: an id counts as taken only once its order has a result.            *)
ClaimUnlessAnswered(c, r, k) ==
  /\ k \notin DOMAIN order_results
  /\ seen' = seen \cup {k}
  /\ role' = [role EXCEPT ![c] = "owner"]
  /\ \/ ~r.valid /\ Invalid(c)
     \/ r.valid /\ EvaluateOrder(r) = "simulate" /\ Simulate(c, k)
     \/ r.valid /\ EvaluateOrder(r) = "route" /\ Route(c)

Claim(c, r, k) ==
  /\ k \notin seen
  /\ seen' = seen \cup {k}
  /\ role' = [role EXCEPT ![c] = "owner"]
  /\ \/ ~r.valid /\ Invalid(c)
     \/ r.valid /\ EvaluateOrder(r) = "simulate" /\ Simulate(c, k)
     \/ r.valid /\ EvaluateOrder(r) = "route" /\ Route(c)

(* Slip: the automatic counter does not move.                               *)
AdmitWithoutCounting(c, r) ==
  LET k == ClientOrderId(r, IF r.seq = None THEN order_seq[r.session]
                                            ELSE r.seq)
  IN /\ UNCHANGED order_seq
     /\ coid' = [coid EXCEPT ![c] = k]
     /\ Duplicate(c, k) \/ Claim(c, r, k)

Admit(c, r) ==
  LET q == IF r.seq = None THEN order_seq[r.session] ELSE r.seq
      k == ClientOrderId(r, q)
  IN /\ order_seq' = IF r.seq = None
                       THEN [order_seq EXCEPT ![r.session] = q + 1]
                       ELSE order_seq
     /\ coid' = [coid EXCEPT ![c] = k]
     /\ Duplicate(c, k) \/ Claim(c, r, k)

Decide(c, r) ==
  \E risk \in RiskNotionals(r) :
     \/ Refused(r, risk) /\ Deny(c)
     \/ ~Refused(r, risk) /\ Admit(c, r)

Begin(c, r) ==
  /\ pc[c] = "idle"
  /\ req' = [req EXCEPT ![c] = r]
  /\ life' = [life EXCEPT ![c] = boot]

PlacePaperOrder(c, r) ==
  /\ Mode[r.session] = "paper"
  /\ Begin(c, r)
  /\ Decide(c, r)
  /\ UNCHANGED <<safety, boot>>

PlaceTestnetOrder(c, r) ==
  /\ Mode[r.session] = "testnet"
  /\ Begin(c, r)
  /\ pc' = [pc EXCEPT ![c] = "adapter"]
  /\ UNCHANGED <<registry, safety, coid, role, attempt, answer, network, boot>>

(* Slip: the safety check ran before manager.get and is not run again.      *)
AdapterReadyUnchecked(c) ==
  /\ pc[c] = "adapter"
  /\ Admit(c, req[c])
  /\ UNCHANGED <<safety, req, life, boot>>

AdapterReady(c) ==
  /\ pc[c] = "adapter"
  /\ Decide(c, req[c])
  /\ UNCHANGED <<safety, req, life, boot>>

(* manager.get raises: no sandbox endpoint for the exchange.                *)
AdapterUnavailable(c) ==
  /\ pc[c] = "adapter"
  /\ pc' = [pc EXCEPT ![c] = "failed"]
  /\ UNCHANGED <<registry, safety, req, coid, role, attempt, answer, life,
                 network, boot>>

-----------------------------------------------------------------------------
(* ExchangeAdapter._call and the rest of place_order.                      *)

CreateOrderOk(c) ==
  LET rec == [owner |-> c, simulated |-> FALSE]
  IN /\ pc[c] = "awaiting"
     /\ reply[c] = "ok"
     /\ order_results' = Put(order_results, coid[c], rec)
     /\ answer' = [answer EXCEPT ![c] = rec]
     /\ pc' = [pc EXCEPT ![c] = "returned"]
     /\ UNCHANGED <<order_seq, seen, safety, req, coid, role, attempt, life,
                    network, boot>>

(* A non-transient error is mapped and raised at once.                      *)
CreateOrderRejected(c) ==
  /\ pc[c] = "awaiting"
  /\ reply[c] = "rejected"
  /\ pc' = [pc EXCEPT ![c] = "failed"]
  /\ UNCHANGED <<registry, safety, req, coid, role, attempt, answer, life,
                 network, boot>>

(* Slip: one attempt too many.                                              *)
TransientErrorOffByOne(c) ==
  /\ pc[c] = "awaiting"
  /\ pc' = [pc EXCEPT ![c] =
              IF attempt[c] > MaxAttempts THEN "failed" ELSE "backoff"]
  /\ UNCHANGED <<registry, safety, req, coid, role, attempt, answer, life,
                 network, boot>>

(* A transient error: the venue said so, or no answer came in time (any     *)
(* answer may be lost).  The last attempt raises, the others back off.      *)
TransientError(c) ==
  /\ pc[c] = "awaiting"
  /\ pc' = [pc EXCEPT ![c] =
              IF attempt[c] >= MaxAttempts THEN "failed" ELSE "backoff"]
  /\ UNCHANGED <<registry, safety, req, coid, role, attempt, answer, life,
                 network, boot>>

(* Slip: the attempts are not counted.                                      *)
RetryUncounted(c) ==
  /\ pc[c] = "backoff"
  /\ pc' = [pc EXCEPT ![c] = "awaiting"]
  /\ reply' = [reply EXCEPT ![c] = "none"]
  /\ wire' = wire \cup {<<c, attempt[c]>>}
  /\ UNCHANGED <<registry, safety, req, coid, role, attempt, answer, life,
                 venue, boot>>

Retry(c) ==
  /\ pc[c] = "backoff"
  /\ pc' = [pc EXCEPT ![c] = "awaiting"]
  /\ attempt' = [attempt EXCEPT ![c] = @ + 1]
  /\ reply' = [reply EXCEPT ![c] = "none"]
  /\ wire' = wire \cup {<<c, attempt[c] + 1>>}
  /\ UNCHANGED <<registry, safety, req, coid, role, answer, life, venue, boot>>

-----------------------------------------------------------------------------
(* The sandbox venue and the network (external).  Nothing in the code       *)
(* relies on the venue refusing a clientOrderId it already knows, so it may *)
(* book an id any number of times, or refuse any request.                   *)

(* An answer reaches the call only while it still awaits that attempt.      *)
Deliver(c, a, what) ==
  reply' = IF pc[c] = "awaiting" /\ attempt[c] = a
             THEN [reply EXCEPT ![c] = what] ELSE reply

VenueBooks(c, a) ==
  /\ <<c, a>> \in wire
  /\ wire' = wire \ {<<c, a>>}
  /\ venue' = venue \cup {[coid |-> coid[c], call |-> c, attempt |-> a]}
  /\ Deliver(c, a, "ok")
  /\ UNCHANGED <<registry, safety, call, boot>>

VenueRefuses(c, a, what) ==
  /\ <<c, a>> \in wire
  /\ wire' = wire \ {<<c, a>>}
  /\ Deliver(c, a, what)
  /\ UNCHANGED <<registry, safety, call, venue, boot>>

RequestLost(c, a) ==
  /\ <<c, a>> \in wire
  /\ wire' = wire \ {<<c, a>>}
  /\ UNCHANGED <<registry, safety, call, reply, venue, boot>>

-----------------------------------------------------------------------------
(* The safety tools and the process.                                       *)

EngageKillSwitch(scope) ==
  /\ IF scope = None
       THEN global_engaged' = TRUE /\ UNCHANGED exchange_halts
       ELSE /\ exchange_halts' = exchange_halts \cup {Norm[scope]}
            /\ UNCHANGED global_engaged
  /\ UNCHANGED <<registry, max_order_notional, call, network, boot>>

ResetKillSwitch(scope) ==
  /\ IF scope = None
       THEN global_engaged' = FALSE /\ exchange_halts' = {}
       ELSE /\ exchange_halts' = exchange_halts \ {Norm[scope]}
            /\ UNCHANGED global_engaged
  /\ UNCHANGED <<registry, max_order_notional, call, network, boot>>

SetRiskLimits(cap) ==
  /\ max_order_notional' = cap
  /\ UNCHANGED <<registry, global_engaged, exchange_halts, call, network, boot>>

(* The process dies and starts again: every in-memory table is empty, the   *)
(* calls that were waiting never return, and session ids are minted again.  *)
Restart ==
  /\ boot < MaxRestarts
  /\ boot' = boot + 1
  /\ order_seq' = [s \in Sessions |-> 0]
  /\ seen' = {}
  /\ order_results' = [k \in {} |-> None]
  /\ global_engaged' = FALSE
  /\ exchange_halts' = {}
  /\ max_order_notional' = None
  /\ pc' = [c \in Calls |-> IF pc[c] \in Waiting THEN "dead" ELSE pc[c]]
  /\ UNCHANGED <<req, coid, role, attempt, answer, life, network>>

CallStep(c) ==
  \/ AdapterReady(c)
  \/ AdapterUnavailable(c)
  \/ CreateOrderOk(c)
  \/ CreateOrderRejected(c)
  \/ TransientError(c)
  \/ Retry(c)

Venue(c, a) ==
  \/ VenueBooks(c, a)
  \/ \E what \in {"rejected", "unavailable"} : VenueRefuses(c, a, what)
  \/ RequestLost(c, a)

Next ==
  \/ \E c \in Calls, r \in Requests :
       PlacePaperOrder(c, r) \/ PlaceTestnetOrder(c, r)
  \/ \E c \in Calls : CallStep(c)
  \/ \E c \in Calls, a \in 1 .. MaxAttempts : Venue(c, a)
  \/ \E scope \in Scopes \cup {None} :
       EngageKillSwitch(scope) \/ ResetKillSwitch(scope)
  \/ \E cap \in Caps \cup {None} : SetRiskLimits(cap)
  \/ Restart

Spec == Init /\ [][Next]_vars

(* The event loop runs every ready task and ccxt times every request out,   *)
(* so a call that can take a step takes one.  Clients, venue and operator   *)
(* owe nothing.                                                             *)
FairSpec == Spec /\ \A c \in Calls : WF_vars(CallStep(c))

-----------------------------------------------------------------------------
(* Properties.                                                             *)

(* Every variable holds a value of its kind.                                *)
TypeOK ==
  /\ order_seq \in [Sessions -> Nat]
  /\ seen \subseteq Coid
  /\ DOMAIN order_results \subseteq Coid
  /\ \A k \in DOMAIN order_results : order_results[k] \in Record
  /\ global_engaged \in BOOLEAN
  /\ exchange_halts \subseteq {Norm[s] : s \in Scopes}
  /\ max_order_notional \in Caps \cup {None}
  /\ pc \in [Calls -> Done \cup Waiting \cup {"idle"}]
  /\ req \in [Calls -> Requests \cup {None}]
  /\ \A c \in Calls : pc[c] = "idle" \/ req[c] \in Requests
  /\ coid \in [Calls -> Coid \cup {None}]
  /\ role \in [Calls -> {"none", "owner", "duplicate"}]
  /\ attempt \in [Calls -> 0 .. MaxAttempts]
  /\ answer \in [Calls -> Record \cup {None}]
  /\ reply \in [Calls -> {"none", "ok", "rejected", "unavailable"}]
  /\ wire \subseteq Attempt
  /\ venue \subseteq VenueOrder
  /\ boot \in 0 .. MaxRestarts
  /\ life \in [Calls -> 0 .. MaxRestarts]

(* Within one life of the process no two place_order calls ever place or    *)
(* simulate under the same client order id, however they interleave: the    *)
(* registry check and the claim are one step.                               *)
SingleClaim ==
  \A c, d \in Calls :
     /\ role[c] = "owner" /\ role[d] = "owner"
     /\ coid[c] = coid[d] /\ life[c] = life[d]
     => c = d

(* A client's resubmission never becomes a second order at the venue: what  *)
(* the venue holds twice under one id was sent twice by the retry loop of a *)
(* single call, or by processes on either side of a restart.                *)
OneSenderPerId ==
  \A o, p \in venue :
     o.coid = p.coid /\ life[o.call] = life[p.call] => o.call = p.call

(* order_results only describes orders that exist: the record kept under an *)
(* id is that of the call that claimed the id in this life of the process,  *)
(* and a routed one has been booked by the venue.                           *)
ResultsAreReal ==
  \A k \in DOMAIN order_results :
     LET c == order_results[k].owner
     IN /\ role[c] = "owner" /\ coid[c] = k /\ life[c] = boot
        /\ \/ order_results[k].simulated
           \/ \E o \in venue : o.call = c /\ o.coid = k

(* Whatever place_order returns is the record of the order placed under the *)
(* caller's own client order id, for its own session and leg: a             *)
(* deduplicated call never gets the record of another session's order, nor  *)
(* of an order of an earlier life of the process.                           *)
AnswerIsOwnOrder ==
  \A c \in Calls :
     pc[c] = "returned" =>
       /\ answer[c] # None
       /\ coid[answer[c].owner] = coid[c]
       /\ req[answer[c].owner].session = req[c].session
       /\ req[answer[c].owner].leg = req[c].leg
       /\ life[answer[c].owner] = life[c]
       /\ role[answer[c].owner] = "owner"

(* Calls that leave seq out never share a client order id with one another  *)
(* within a session and a life of the process.                              *)
AutoIdsDistinct ==
  \A c, d \in Calls :
     /\ c # d /\ life[c] = life[d]
     /\ coid[c] # None /\ coid[d] # None
     /\ req[c].seq = None /\ req[d].seq = None
     => coid[c] # coid[d]

(* A call claims an id only while its exchange is not halted and its own    *)
(* notional is within the cap, both read at that moment: there is no await  *)
(* between the check and the claim, only one in front of both.              *)
FreshSafetyCheck ==
  [][\A c \in Calls :
       role[c] = "none" /\ role'[c] = "owner" =>
         /\ ~IsHalted(ExchangeOf[req'[c].session])
         /\ \/ max_order_notional = None
            \/ req'[c].notional = None
            \/ req'[c].notional <= max_order_notional]_vars

(* Nothing the client or the venue does makes place_order hang: a call that *)
(* waits for the adapter, the venue or a backoff comes to an end.           *)
CallsFinish ==
  \A c \in Calls : pc[c] \in Waiting ~> pc[c] \in Done

-----------------------------------------------------------------------------
(* What the tool's description promises and the code does not keep.        *)

(* "a resubmission with the same seq is deduped and returns the prior       *)
(* result": a resubmission never raises KeyError.                           *)
ResubmissionReturnsPrior == \A c \in Calls : pc[c] # "key_error"

(* "Omit seq and the server auto-increments a per-session counter so every  *)
(* call is a new, distinct order": such a call is never taken for a retry.  *)
OmittedSeqIsNewOrder ==
  \A c \in Calls :
     role[c] = "duplicate" => req[c].seq # None
=============================================================================
