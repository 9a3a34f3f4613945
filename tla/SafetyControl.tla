---------------------------- MODULE SafetyControl ----------------------------
(***************************************************************************)
(* The SafetyController of a server: risk limits, kill switch, arm tickets *)
(* that expire by the wall clock, the audit ring, and the preflight every  *)
(* client order goes through.  Every method runs to its end in one step of *)
(* the event loop; the wall clock moves between them and may be set back.  *)
(* place_order goes on from the preflight to its result in the same step,  *)
(* unless it sends the order to the venue and awaits the answer.           *)
(*                                                                         *)
(* A comment that begins with "Slip" introduces a variant of the definition*)
(* below it with a plausible mistake in it.                                *)
(***************************************************************************)
EXTENDS Integers, Sequences, Functions

CONSTANTS
  Exchanges,   (* exchange ids of sessions                                  *)
  Scopes,      (* strings a client may pass as a scope                      *)
  Norm,        (* Scopes and exchange ids -> the stripped lower-case string *)
  Star,        (* GLOBAL_SCOPE                                              *)
  Blank,       (* the empty string                                          *)
  LimitSets,   (* the RiskLimits clients may set                            *)
  Contexts,    (* the OrderRiskContexts place_order may compute             *)
  Gate,        (* what evaluate_order may answer: see OrderPath             *)
  TTLs,        (* ttl_seconds clients may ask for                           *)
  MaxTTL,      (* MAX_ARM_TTL_SECONDS                                       *)
  Times,       (* readings of the wall clock                                *)
  Capacity,    (* of the audit ring                                         *)
  MaxEntries,  (* bound: audit entries recorded                             *)
  None         (* Python's None                                             *)

ASSUME ControlAssumption ==
  /\ Gate \subseteq {"simulate", "route", "deny"}
  /\ MaxTTL \in Nat \ {0}
  /\ Capacity \in Nat \ {0}
  /\ Times \cup TTLs \subseteq Int

VARIABLES
  limits,         (* the active RiskLimits                                  *)
  global_engaged, (* KillSwitchState: the global halt                       *)
  exchange_halts, (* KillSwitchState: normalized ids that are halted        *)
  tickets,        (* ArmingRegistry: scope -> [armed_at, armed_until]       *)
  now,            (* the wall clock                                         *)
  routed,         (* orders of an exchange whose answer is awaited          *)
  audit,          (* the entries the ring holds                             *)
  evicted         (* how many it has dropped                                *)

halts == <<global_engaged, exchange_halts>>
ring  == <<audit, evicted>>
vars  == <<limits, halts, tickets, now, routed, ring>>

(* The caps of RiskLimits; the leverage of an order is never known to       *)
(* place_order, so that its cap refuses nothing.                            *)
Caps == {"order_notional", "position_notional", "open_positions", "daily_loss"}

NoLimits == [cap \in Caps |-> None]

NoTickets == [x \in {} |-> None]

Init ==
  /\ limits = NoLimits
  /\ global_engaged = FALSE
  /\ exchange_halts = {}
  /\ tickets = NoTickets
  /\ now \in Times
  /\ routed = [x \in Exchanges |-> 0]
  /\ audit = <<>>
  /\ evicted = 0

-----------------------------------------------------------------------------
(* AuditLog.                                                               *)

(* Of the timestamps only those of grants matter to the properties.         *)
Entry(event, scope, what) ==
  [event |-> event, scope |-> scope, what |-> what,
   at |-> IF event = "arm" THEN now ELSE None]

(* Slip: a full ring makes room before it appends, and one entry too late.  *)
RecordLate(entry) ==
  /\ Len(audit) + evicted < MaxEntries
  /\ IF Len(audit) > Capacity
       THEN audit' = Append(Tail(audit), entry) /\ evicted' = evicted + 1
       ELSE audit' = Append(audit, entry) /\ UNCHANGED evicted

(* deque(maxlen=capacity): the oldest entry gives way.                      *)
Dropped(log) == IF Len(log) = Capacity THEN 1 ELSE 0
Pushed(log, entry) == Append(IF Len(log) = Capacity THEN Tail(log) ELSE log, entry)

Record(entry) ==
  /\ Len(audit) + evicted < MaxEntries
  /\ audit' = Pushed(audit, entry)
  /\ evicted' = evicted + Dropped(audit)

RecordBoth(first, second) ==
  LET log == Pushed(audit, first)
  IN /\ Len(audit) + evicted + 1 < MaxEntries
     /\ audit' = Pushed(log, second)
     /\ evicted' = evicted + Dropped(audit) + Dropped(log)

-----------------------------------------------------------------------------
(* Kill switch and risk limits.                                            *)

IsHalted(exchange) == global_engaged \/ Norm[exchange] \in exchange_halts

EngageKillSwitch(scope) ==
  /\ IF scope = None
       THEN global_engaged' = TRUE /\ UNCHANGED exchange_halts
       ELSE /\ exchange_halts' = exchange_halts \cup {Norm[scope]}
            /\ UNCHANGED global_engaged
  /\ Record(Entry("kill_switch", scope, "engaged"))
  /\ UNCHANGED <<limits, tickets, now, routed>>

(* Slip: a global reset leaves the halts of single exchanges.               *)
ResetGlobalOnly(scope) ==
  /\ IF scope = None
       THEN global_engaged' = FALSE /\ UNCHANGED exchange_halts
       ELSE /\ exchange_halts' = exchange_halts \ {Norm[scope]}
            /\ UNCHANGED global_engaged
  /\ Record(Entry("kill_switch", scope, "reset"))
  /\ UNCHANGED <<limits, tickets, now, routed>>

ResetKillSwitch(scope) ==
  /\ IF scope = None
       THEN global_engaged' = FALSE /\ exchange_halts' = {}
       ELSE /\ exchange_halts' = exchange_halts \ {Norm[scope]}
            /\ UNCHANGED global_engaged
  /\ Record(Entry("kill_switch", scope, "reset"))
  /\ UNCHANGED <<limits, tickets, now, routed>>

SetRiskLimits(new) ==
  /\ limits' = new
  /\ Record(Entry("set_risk_limits", None, new))
  /\ UNCHANGED <<halts, tickets, now, routed>>

-----------------------------------------------------------------------------
(* The preflight.                                                          *)

(* A cap is breached by a strictly greater value only.                      *)
Breached(ctx) == {cap \in Caps : limits[cap] # None /\ ctx[cap] > limits[cap]}

(* place_order refuses a market order without a derivable price, before     *)
(* any other check, while a notional cap is set.                            *)
Unpriced(ctx) ==
  /\ ctx["order_notional"] = None
  /\ {limits["order_notional"], limits["position_notional"]} # {None}

Projected(ctx) ==
  [cap \in Caps |->
     CASE cap = "open_positions" ->
            IF ctx["open_positions"] = 0 THEN 1 ELSE ctx["open_positions"]
       [] cap = "daily_loss" -> ctx["daily_loss"]
       [] OTHER ->
            IF ctx["order_notional"] = None THEN 0 ELSE ctx["order_notional"]]

Verdict(exchange, ctx, gate) ==
  IF Unpriced(ctx) THEN "unpriced"
  ELSE IF IsHalted(exchange) THEN "halted"
  ELSE IF Breached(Projected(ctx)) # {} THEN "breach"
  ELSE gate

Result(exchange, gate) == Entry("order_result", exchange, gate)

(* A denied order and one whose client order id is known leave it at that   *)
(* entry; a simulated one has its result at once, one that is routed waits  *)
(* for it.                                                                 *)
Preflight(exchange, ctx, gate) ==
  LET verdict == Verdict(exchange, ctx, gate)
      intent == Entry(IF verdict \in Gate THEN "order_intent" ELSE "denied", exchange, verdict)
  IN /\ \/ Record(intent) /\ UNCHANGED routed
        \/ /\ verdict = "simulate"
           /\ RecordBoth(intent, Result(exchange, verdict))
           /\ UNCHANGED routed
        \/ /\ verdict = "route"
           /\ Record(intent)
           /\ routed' = [routed EXCEPT ![exchange] = @ + 1]
     /\ UNCHANGED <<limits, halts, tickets, now>>

(* The venue's answer: an order, or an error that place_order passes on.    *)
OrderAnswered(exchange) ==
  /\ routed[exchange] > 0
  /\ routed' = [routed EXCEPT ![exchange] = @ - 1]
  /\ Record(Result(exchange, "route")) \/ UNCHANGED ring
  /\ UNCHANGED <<limits, halts, tickets, now>>

-----------------------------------------------------------------------------
(* Arming.                                                                 *)

IsActive(t) == t.armed_at <= now /\ now < t.armed_until

Pruned == Restrict(tickets, {x \in DOMAIN tickets : IsActive(tickets[x])})

IsArmed(exchange) == {Star, Norm[exchange]} \cap DOMAIN Pruned # {}

(* ArmingRegistry.arm and .disarm: a ticket replaces an earlier one of its  *)
(* scope; without a scope all are revoked.                                  *)
Granted(scope, until) ==
  [x \in DOMAIN tickets \cup {Norm[scope]} |->
     IF x = Norm[scope] THEN [armed_at |-> now, armed_until |-> until]
     ELSE tickets[x]]

(* Slip: the ticket is looked up under the scope as typed.                  *)
RevokedAsTyped(scope) ==
  IF scope = None THEN NoTickets
  ELSE Restrict(tickets, DOMAIN tickets \ {scope})

Revoked(scope) ==
  IF scope = None THEN NoTickets
  ELSE Restrict(tickets, DOMAIN tickets \ {Norm[scope]})

(* With another phrase than the required one, a TTL that is not positive or *)
(* a blank scope the call raises and changes nothing.                       *)
ArmLiveTrading(scope, ttl) ==
  LET until == now + (IF ttl > MaxTTL THEN MaxTTL ELSE ttl)
  IN /\ ttl > 0
     /\ Norm[scope] # Blank
     /\ tickets' = Granted(scope, until)
     /\ Record(Entry("arm", Norm[scope], until))
     /\ UNCHANGED <<limits, halts, now, routed>>

DisarmLiveTrading(scope) ==
  /\ scope # None => Norm[scope] # Blank
  /\ tickets' = Revoked(scope)
  /\ Record(Entry("disarm", scope, None))
  /\ UNCHANGED <<limits, halts, now, routed>>

(* get_safety_status reads everything and prunes the expired tickets.       *)
GetSafetyStatus ==
  /\ tickets' = Pruned
  /\ UNCHANGED <<limits, halts, now, routed, ring>>

Clock(t) == now' = t /\ UNCHANGED <<limits, halts, tickets, routed, ring>>

-----------------------------------------------------------------------------
Next ==
  \/ \E scope \in Scopes \cup {None} :
       \/ EngageKillSwitch(scope)
       \/ ResetKillSwitch(scope)
       \/ DisarmLiveTrading(scope)
  \/ \E new \in LimitSets : SetRiskLimits(new)
  \/ \E exchange \in Exchanges, ctx \in Contexts, gate \in Gate :
       Preflight(exchange, ctx, gate)
  \/ \E exchange \in Exchanges : OrderAnswered(exchange)
  \/ \E scope \in Scopes, ttl \in TTLs : ArmLiveTrading(scope, ttl)
  \/ GetSafetyStatus
  \/ \E t \in Times : Clock(t)

Spec == Init /\ [][Next]_vars

-----------------------------------------------------------------------------
(* Properties.                                                             *)

(* Every variable holds a value of its kind, and the ring its capacity.     *)
TypeOK ==
  /\ limits \in LimitSets \cup {NoLimits}
  /\ global_engaged \in BOOLEAN
  /\ exchange_halts \subseteq {Norm[x] : x \in Scopes}
  /\ DOMAIN tickets \subseteq {Norm[x] : x \in Scopes} \ {Blank}
  /\ now \in Times
  /\ routed \in [Exchanges -> Nat]
  /\ Len(audit) <= Capacity

(* What an entry of the trail is about: the limits, the global halt, or the *)
(* halt of one exchange id, which a global reset lifts as well.             *)
OfLimits(e) == e.event = "set_risk_limits"
OfGlobal(e) == e.event = "kill_switch" /\ e.scope = None
OfHalt(e, x) == /\ e.event = "kill_switch"
                /\ IF e.scope = None THEN e.what = "reset" ELSE Norm[e.scope] = x

Later(k) == {audit[j] : j \in k + 1 .. Len(audit)}

(* The audit trail tells what is in force: of the limits, the global halt   *)
(* and every exchange, the latest entry that the ring still holds says what *)
(* holds now, and where there is none because nothing was ever recorded,    *)
(* nothing was ever set.  However full the ring is, it is the oldest word   *)
(* on a matter that is lost and never the latest, unless later entries push *)
(* it out.                                                                 *)
AuditTells ==
  /\ \A k \in DOMAIN audit :
       LET e == audit[k]
       IN /\ OfLimits(e) /\ (\A f \in Later(k) : ~OfLimits(f)) => limits = e.what
          /\ OfGlobal(e) /\ (\A f \in Later(k) : ~OfGlobal(f)) =>
               global_engaged = (e.what = "engaged")
          /\ \A x \in {Norm[y] : y \in Scopes} :
               OfHalt(e, x) /\ (\A f \in Later(k) : ~OfHalt(f, x)) =>
                 (x \in exchange_halts) = (e.what = "engaged")
  /\ evicted = 0 =>
       /\ (\A k \in DOMAIN audit : ~OfLimits(audit[k])) => limits = NoLimits
       /\ (\A k \in DOMAIN audit : ~OfGlobal(audit[k])) => ~global_engaged
       /\ \A x \in {Norm[y] : y \in Scopes} :
            (\A k \in DOMAIN audit : ~OfHalt(audit[k], x)) => x \notin exchange_halts

(* An exchange is armed only by a grant the trail shows, at most MaxTTL     *)
(* old, that no later disarm of that scope or of all scopes has revoked,    *)
(* however either was spelled and whichever way the clock was set.          *)
ArmedByLiveGrant ==
  evicted = 0 =>
    \A e \in Exchanges :
      IsArmed(e) =>
        \E k \in DOMAIN audit :
          /\ audit[k].event = "arm"
          /\ audit[k].scope \in {Star, Norm[e]}
          /\ audit[k].at <= now
          /\ now < audit[k].at + MaxTTL
          /\ \A j \in k + 1 .. Len(audit) :
               audit[j].event = "disarm" =>
                 /\ audit[j].scope # None
                 /\ Norm[audit[j].scope] # audit[k].scope
=============================================================================
