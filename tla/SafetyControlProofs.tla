------------------------- MODULE SafetyControlProofs -------------------------
(* Proofs about SafetyControl, for any exchanges, scopes, clocks and ring.  *)
(*                                                                         *)
(* ArmedByLiveGrant speaks of the tickets that are active now; what is      *)
(* inductive is that every ticket, active or not, has its grant on the      *)
(* trail with no revocation after it, as long as nothing has been dropped   *)
(* from the ring (Backed).                                                  *)
(*                                                                         *)
(* AuditTells is inductive with the types alone.  What it says of the       *)
(* limits, of the global halt and of every exchange has one form (Tells):   *)
(* the latest entry on a matter is true now.  An entry on another matter    *)
(* leaves that alone, whether or not it pushes the oldest one out, and one  *)
(* on the matter is its latest word.                                       *)
EXTENDS SafetyControl, SequenceTheorems, TLAPS

Entries == [event : {"kill_switch", "set_risk_limits", "order_intent", "denied", "order_result",
                     "arm", "disarm"},
            scope : Scopes \cup Exchanges \cup {Norm[x] : x \in Scopes} \cup {None},
            what  : LimitSets \cup Gate \cup Int
                      \cup {"engaged", "reset", "route", "unpriced", "halted", "breach", None},
            at    : Times \cup {None}]

(* Entry k of a log is the grant of scope x's ticket, and nothing later     *)
(* revokes it.                                                             *)
GrantIn(log, ticket, x, k) ==
  /\ log[k].event = "arm" /\ log[k].scope = x
  /\ log[k].at = ticket.armed_at
  /\ ticket.armed_until <= log[k].at + MaxTTL
  /\ \A j \in k + 1 .. Len(log) :
       log[j].event = "disarm" => log[j].scope # None /\ Norm[log[j].scope] # x

BackedBy(log, ticket, x) == \E k \in DOMAIN log : GrantIn(log, ticket, x, k)

Backed ==
  evicted = 0 => \A x \in DOMAIN tickets : BackedBy(audit, tickets[x], x)

Shape ==
  /\ audit \in Seq(Entries) /\ evicted \in Nat
  /\ \A x \in DOMAIN tickets : tickets[x].armed_at \in Int /\ tickets[x].armed_until \in Int

IInv == TypeOK /\ Shape /\ Backed

-----------------------------------------------------------------------------
(* At first there is no ticket and no entry.                               *)
LEMMA InitInv == Init => IInv
<1> SUFFICES ASSUME Init PROVE IInv
  OBVIOUS
<1>1. /\ DOMAIN tickets = {} /\ audit = << >> /\ evicted = 0
      /\ audit \in Seq(Entries) /\ Len(audit) = 0
  BY DEF Init, NoTickets
<1>2. TypeOK
  <2>1. Len(audit) <= Capacity
    BY <1>1, ControlAssumption
  <2>2. /\ limits \in LimitSets \cup {NoLimits} /\ global_engaged \in BOOLEAN
        /\ exchange_halts \subseteq {Norm[x] : x \in Scopes} /\ now \in Times
        /\ routed \in [Exchanges -> Nat]
    BY DEF Init
  <2> QED
    BY <1>1, <2>1, <2>2 DEF TypeOK
<1> QED
  BY <1>1, <1>2 DEF IInv, Shape, Backed

(* One more entry: the ring stays within its capacity, the entry is its     *)
(* last one, and the others move down by as many as are dropped.            *)
LEMMA PushedLog ==
  ASSUME NEW log \in Seq(Entries), Len(log) <= Capacity, NEW e \in Entries
  PROVE  /\ Pushed(log, e) \in Seq(Entries) /\ Len(Pushed(log, e)) <= Capacity
         /\ Dropped(log) \in {0, 1} /\ Dropped(log) <= Len(log)
         /\ Len(Pushed(log, e)) = Len(log) - Dropped(log) + 1
         /\ Pushed(log, e)[Len(Pushed(log, e))] = e
         /\ \A k \in 1 .. Len(log) - Dropped(log) :
              Pushed(log, e)[k] = log[k + Dropped(log)]
<1>1. Capacity \in Nat \ {0} /\ Len(log) \in Nat
  BY ControlAssumption
<1>2. CASE Len(log) = Capacity
  <2>1. Pushed(log, e) = Append(Tail(log), e) /\ Dropped(log) = 1
    BY <1>2 DEF Pushed, Dropped
  <2>2. log # << >>
    BY <1>1, <1>2
  <2>3. /\ Tail(log) \in Seq(Entries) /\ Len(Tail(log)) = Capacity - 1
        /\ \A k \in 1 .. Len(log) - 1 : Tail(log)[k] = log[k + 1]
    BY <1>1, <1>2, <2>2, HeadTailProperties
  <2> QED
    BY <1>1, <1>2, <2>1, <2>3
<1>3. CASE Len(log) # Capacity
  <2>1. Pushed(log, e) = Append(log, e) /\ Dropped(log) = 0
    BY <1>3 DEF Pushed, Dropped
  <2> QED
    BY <1>1, <1>3, <2>1
<1> QED
  BY <1>2, <1>3

(* What recording leaves of the ring's shape.                               *)
LEMMA Recorded ==
  ASSUME IInv, NEW e \in Entries, Record(e)
  PROVE  /\ audit' \in Seq(Entries) /\ evicted' \in Nat /\ Len(audit') <= Capacity
         /\ evicted' = 0 => evicted = 0 /\ Dropped(audit) = 0
<1>1. audit \in Seq(Entries) /\ evicted \in Nat /\ Len(audit) <= Capacity
  BY DEF IInv, TypeOK, Shape
<1>2. /\ Pushed(audit, e) \in Seq(Entries) /\ Len(Pushed(audit, e)) <= Capacity
      /\ Dropped(audit) \in {0, 1}
  BY <1>1, PushedLog
<1>3. audit' = Pushed(audit, e) /\ evicted' = evicted + Dropped(audit)
  BY DEF Record
<1> QED
  BY <1>1, <1>2, <1>3

(* The same of two entries in one step.                                     *)
LEMMA RecordedBoth ==
  ASSUME IInv, NEW e \in Entries, NEW f \in Entries, RecordBoth(e, f)
  PROVE  /\ audit' \in Seq(Entries) /\ evicted' \in Nat /\ Len(audit') <= Capacity
         /\ evicted' = 0 =>
              evicted = 0 /\ Dropped(audit) = 0 /\ Dropped(Pushed(audit, e)) = 0
<1>1. audit \in Seq(Entries) /\ evicted \in Nat /\ Len(audit) <= Capacity
  BY DEF IInv, TypeOK, Shape
<1> DEFINE log == Pushed(audit, e)
<1>2. log \in Seq(Entries) /\ Len(log) <= Capacity /\ Dropped(audit) \in {0, 1}
  BY <1>1, PushedLog
<1>3. audit' = Pushed(log, f) /\ evicted' = evicted + Dropped(audit) + Dropped(log)
  BY DEF RecordBoth
<1> HIDE DEF log
<1>4. audit' \in Seq(Entries) /\ Len(audit') <= Capacity /\ Dropped(log) \in {0, 1}
  BY <1>2, <1>3, PushedLog
<1> QED
  BY <1>1, <1>2, <1>3, <1>4 DEF log

(* An entry that does not revoke x leaves the grant of x's ticket standing. *)
LEMMA GrantStands ==
  ASSUME NEW log \in Seq(Entries), Len(log) <= Capacity, NEW e \in Entries,
         Dropped(log) = 0, NEW ticket, NEW x, BackedBy(log, ticket, x),
         e.event = "disarm" => e.scope # None /\ Norm[e.scope] # x
  PROVE  BackedBy(Pushed(log, e), ticket, x)
<1> DEFINE more == Pushed(log, e)
           n == Len(log)
<1>0. /\ n \in Nat /\ more \in Seq(Entries) /\ Len(more) = n - Dropped(log) + 1
      /\ more[Len(more)] = e
      /\ \A k \in 1 .. n - Dropped(log) : more[k] = log[k + Dropped(log)]
  <2>1. n \in Nat
    OBVIOUS
  <2> QED
    BY <2>1, PushedLog, Zenon
<1> HIDE DEF more
<1>1. /\ n \in Nat /\ more \in Seq(Entries) /\ Len(more) = n + 1 /\ more[n + 1] = e
      /\ \A k \in 1 .. n : more[k] = log[k]
  BY <1>0
<1>2. PICK k \in 1 .. n : GrantIn(log, ticket, x, k)
  BY DEF BackedBy
<1> HIDE DEF more
<1>3. ASSUME NEW j \in k + 1 .. n + 1
      PROVE  more[j].event = "disarm" => more[j].scope # None /\ Norm[more[j].scope] # x
  <2>1. CASE j = n + 1
    BY <2>1, <1>1
  <2>2. CASE j # n + 1
    <3>1. j \in k + 1 .. n /\ j \in 1 .. n
      BY <1>1, <2>2
    <3> QED
      BY <1>1, <1>2, <3>1 DEF GrantIn
  <2> QED
    BY <2>1, <2>2
<1>4. k \in DOMAIN more /\ more[k] = log[k]
  BY <1>1
<1>5. GrantIn(more, ticket, x, k)
  BY <1>1, <1>2, <1>3, <1>4 DEF GrantIn
<1> QED
  BY <1>4, <1>5 DEF BackedBy, more

(* A step that records an entry and grants nothing.                         *)
LEMMA RecordStep ==
  ASSUME IInv, NEW e \in Entries, Record(e), TypeOK',
         \A x \in DOMAIN tickets' :
           /\ x \in DOMAIN tickets /\ tickets'[x] = tickets[x]
           /\ e.event = "disarm" => e.scope # None /\ Norm[e.scope] # x
  PROVE  IInv'
<1>1. Shape'
  BY Recorded DEF IInv, Shape
<1>2. Backed'
  <2> SUFFICES ASSUME evicted' = 0, NEW x \in DOMAIN tickets'
               PROVE  BackedBy(audit', tickets'[x], x)
    BY DEF Backed
  <2>1. /\ evicted = 0 /\ Dropped(audit) = 0
        /\ audit \in Seq(Entries) /\ Len(audit) <= Capacity
    BY Recorded DEF IInv, TypeOK, Shape
  <2>2. BackedBy(audit, tickets[x], x)
    BY <2>1 DEF IInv, Backed
  <2>3. BackedBy(Pushed(audit, e), tickets[x], x)
    BY <2>1, <2>2, GrantStands
  <2>4. audit' = Pushed(audit, e)
    BY DEF Record
  <2> QED
    BY <2>3, <2>4
<1> QED
  BY <1>1, <1>2 DEF IInv

(* Two entries neither of which revokes anything.                           *)
LEMMA RecordBothStep ==
  ASSUME IInv, NEW e \in Entries, NEW f \in Entries, RecordBoth(e, f), TypeOK',
         tickets' = tickets, e.event # "disarm", f.event # "disarm"
  PROVE  IInv'
<1>1. Shape'
  BY RecordedBoth DEF IInv, Shape
<1>2. Backed'
  <2> SUFFICES ASSUME evicted' = 0, NEW x \in DOMAIN tickets'
               PROVE  BackedBy(audit', tickets'[x], x)
    BY DEF Backed
  <2> DEFINE log == Pushed(audit, e)
  <2>1. /\ evicted = 0 /\ Dropped(audit) = 0 /\ Dropped(log) = 0
        /\ audit \in Seq(Entries) /\ Len(audit) <= Capacity
    BY RecordedBoth DEF IInv, TypeOK, Shape
  <2>2. log \in Seq(Entries) /\ Len(log) <= Capacity
    BY <2>1, PushedLog
  <2>3. BackedBy(log, tickets[x], x)
    BY <2>1, GrantStands DEF IInv, Backed
  <2>4. audit' = Pushed(log, f)
    BY DEF RecordBoth
  <2> HIDE DEF log
  <2> QED
    BY <2>1, <2>2, <2>3, <2>4, GrantStands
<1> QED
  BY <1>1, <1>2 DEF IInv

-----------------------------------------------------------------------------
(* A halt grants nothing and revokes nothing.                              *)
LEMMA EngageStep ==
  ASSUME IInv, NEW scope \in Scopes \cup {None}, EngageKillSwitch(scope)
  PROVE  IInv'
<1> DEFINE e == Entry("kill_switch", scope, "engaged")
<1>1. e \in Entries /\ e.event = "kill_switch"
  BY DEF Entry, Entries
<1> HIDE DEF e
<1>2. Record(e) /\ UNCHANGED <<limits, tickets, now, routed>>
  BY DEF EngageKillSwitch, e
<1>3. exchange_halts' \subseteq {Norm[x] : x \in Scopes} /\ global_engaged' \in BOOLEAN
  BY DEF EngageKillSwitch, IInv, TypeOK
<1>4. TypeOK'
  BY <1>1, <1>2, <1>3, Recorded DEF IInv, TypeOK
<1> QED
  BY <1>1, <1>2, <1>4, RecordStep

(* Lifting a halt grants nothing and revokes nothing.                      *)
LEMMA ResetStep ==
  ASSUME IInv, NEW scope \in Scopes \cup {None}, ResetKillSwitch(scope)
  PROVE  IInv'
<1> DEFINE e == Entry("kill_switch", scope, "reset")
<1>1. e \in Entries /\ e.event = "kill_switch"
  BY DEF Entry, Entries
<1> HIDE DEF e
<1>2. Record(e) /\ UNCHANGED <<limits, tickets, now, routed>>
  BY DEF ResetKillSwitch, e
<1>3. exchange_halts' \subseteq {Norm[x] : x \in Scopes} /\ global_engaged' \in BOOLEAN
  BY DEF ResetKillSwitch, IInv, TypeOK
<1>4. TypeOK'
  BY <1>1, <1>2, <1>3, Recorded DEF IInv, TypeOK
<1> QED
  BY <1>1, <1>2, <1>4, RecordStep

(* Nor do new limits.                                                      *)
LEMMA LimitsStep ==
  ASSUME IInv, NEW new \in LimitSets, SetRiskLimits(new)
  PROVE  IInv'
<1> DEFINE e == Entry("set_risk_limits", None, new)
<1>1. e \in Entries /\ e.event = "set_risk_limits"
  BY DEF Entry, Entries
<1> HIDE DEF e
<1>2. Record(e) /\ limits' = new /\ UNCHANGED <<halts, tickets, now, routed>>
  BY DEF SetRiskLimits, e
<1>3. TypeOK'
  BY <1>1, <1>2, Recorded DEF IInv, TypeOK, halts
<1> QED
  BY <1>1, <1>2, <1>3, RecordStep

(* Nor does the check of an order, nor its result.                         *)
LEMMA PreflightStep ==
  ASSUME IInv, NEW x \in Exchanges, NEW ctx \in Contexts, NEW gate \in Gate,
         Preflight(x, ctx, gate)
  PROVE  IInv'
<1> DEFINE v == Verdict(x, ctx, gate)
           e == Entry(IF v \in Gate THEN "order_intent" ELSE "denied", x, v)
           f == Result(x, v)
<1>1. v \in Gate \cup {"unpriced", "halted", "breach"}
  BY DEF Verdict
<1>2. /\ UNCHANGED <<limits, halts, tickets, now>>
      /\ \/ Record(e) /\ UNCHANGED routed
         \/ RecordBoth(e, f) /\ UNCHANGED routed /\ v = "simulate"
         \/ Record(e) /\ routed' = [routed EXCEPT ![x] = @ + 1]
  BY DEF Preflight
<1> HIDE DEF v
<1>3. /\ e \in Entries /\ e.event # "disarm"
      /\ v \in Gate => f \in Entries /\ f.event # "disarm"
  BY <1>1 DEF Result, Entry, Entries
<1>4. routed' \in [Exchanges -> Nat]
  BY <1>2 DEF IInv, TypeOK
<1> HIDE DEF e, f
<1>5. CASE Record(e)
  <2>1. TypeOK'
    BY <1>2, <1>3, <1>4, <1>5, Recorded DEF IInv, TypeOK, halts
  <2> QED
    BY <1>2, <1>3, <1>5, <2>1, RecordStep
<1>6. CASE RecordBoth(e, f) /\ v = "simulate"
  <2>1. f \in Entries /\ f.event # "disarm"
    BY <1>1, <1>3, <1>6
  <2>2. TypeOK'
    BY <1>2, <1>3, <1>4, <1>6, <2>1, RecordedBoth DEF IInv, TypeOK, halts
  <2> QED
    BY <1>2, <1>3, <1>6, <2>1, <2>2, RecordBothStep
<1> QED
  BY <1>2, <1>5, <1>6

(* Nor does the venue's answer, which may leave no entry.                   *)
LEMMA AnsweredStep ==
  ASSUME IInv, NEW x \in Exchanges, OrderAnswered(x)
  PROVE  IInv'
<1> DEFINE e == Result(x, "route")
<1>1. /\ UNCHANGED <<limits, halts, tickets, now>> /\ routed' \in [Exchanges -> Nat]
      /\ Record(e) \/ UNCHANGED ring
  BY DEF OrderAnswered, IInv, TypeOK
<1>2. CASE Record(e)
  <2>1. e \in Entries /\ e.event # "disarm"
    BY DEF Result, Entry, Entries
  <2> HIDE DEF e
  <2>2. TypeOK'
    BY <1>1, <1>2, <2>1, Recorded DEF IInv, TypeOK, halts
  <2> QED
    BY <1>1, <1>2, <2>1, <2>2, RecordStep
<1>3. CASE UNCHANGED ring
  BY <1>1, <1>3 DEF IInv, TypeOK, Shape, Backed, halts, ring
<1> QED
  BY <1>1, <1>2, <1>3

(* A revocation takes the tickets away that its entry revokes.             *)
LEMMA DisarmStep ==
  ASSUME IInv, NEW scope \in Scopes \cup {None}, DisarmLiveTrading(scope)
  PROVE  IInv'
<1> DEFINE e == Entry("disarm", scope, None)
<1>1. e \in Entries /\ e.event = "disarm" /\ e.scope = scope
  BY DEF Entry, Entries
<1> HIDE DEF e
<1>2. Record(e) /\ tickets' = Revoked(scope) /\ UNCHANGED <<limits, halts, now, routed>>
  BY DEF DisarmLiveTrading, e
<1>3. \A x \in DOMAIN tickets' :
        /\ x \in DOMAIN tickets /\ tickets'[x] = tickets[x]
        /\ scope # None /\ Norm[scope] # x
  BY <1>2 DEF Revoked, NoTickets, Restrict
<1>4. TypeOK'
  BY <1>1, <1>2, <1>3, Recorded DEF IInv, TypeOK, halts
<1> QED
  BY <1>1, <1>2, <1>3, <1>4, RecordStep

(* A grant: the new ticket's entry is the trail's last one.                 *)
LEMMA ArmStep ==
  ASSUME IInv, NEW scope \in Scopes, NEW ttl \in TTLs, ArmLiveTrading(scope, ttl)
  PROVE  IInv'
<1> DEFINE n == Norm[scope]
           span == IF ttl > MaxTTL THEN MaxTTL ELSE ttl
           e == Entry("arm", n, now + span)
<1>1. /\ now \in Times /\ now \in Int /\ MaxTTL \in Nat
      /\ span \in Int /\ span <= MaxTTL
  BY ControlAssumption DEF IInv, TypeOK
<1> HIDE DEF span
<1>2. e \in Entries /\ e.event = "arm" /\ e.scope = n /\ e.at = now
  BY <1>1 DEF Entry, Entries
<1> HIDE DEF e
<1>3. /\ Record(e) /\ n # Blank
      /\ tickets' = Granted(scope, now + span)
      /\ UNCHANGED <<limits, halts, now, routed>>
  BY DEF ArmLiveTrading, e, span
<1>4. /\ DOMAIN tickets' = DOMAIN tickets \cup {n}
      /\ tickets'[n] = [armed_at |-> now, armed_until |-> now + span]
      /\ \A x \in DOMAIN tickets \ {n} : tickets'[x] = tickets[x]
  BY <1>3 DEF Granted
<1>5. n \in {Norm[x] : x \in Scopes}
  OBVIOUS
<1> HIDE DEF n
<1>6. TypeOK'
  BY <1>2, <1>3, <1>4, <1>5, Recorded DEF IInv, TypeOK, halts
<1>7. Shape'
  BY <1>1, <1>2, <1>3, <1>4, Recorded DEF IInv, Shape
<1>8. Backed'
  <2> SUFFICES ASSUME evicted' = 0, NEW x \in DOMAIN tickets'
               PROVE  BackedBy(audit', tickets'[x], x)
    BY DEF Backed
  <2>1. /\ audit' = Pushed(audit, e) /\ evicted = 0 /\ Dropped(audit) = 0
        /\ audit \in Seq(Entries) /\ Len(audit) <= Capacity
    BY <1>2, <1>3, Recorded DEF Record, IInv, TypeOK, Shape
  <2>2. CASE x # n
    <3>1. x \in DOMAIN tickets /\ tickets'[x] = tickets[x]
      BY <1>4, <2>2
    <3>2. BackedBy(audit, tickets[x], x)
      BY <2>1, <3>1 DEF IInv, Backed
    <3> QED
      BY <1>2, <2>1, <3>1, <3>2, GrantStands
  <2>3. CASE x = n
    <3>0. Len(audit) \in Nat
      BY <2>1
    <3>1. /\ audit' \in Seq(Entries)
          /\ Len(audit') = Len(audit) - Dropped(audit) + 1 /\ audit'[Len(audit')] = e
      BY <1>2, <2>1, PushedLog, Zenon
    <3>2. PICK k \in Nat : k = Len(audit')
      BY <3>0, <2>1, <3>1
    <3>4. audit'[k] = e /\ k \in DOMAIN audit' /\ \A j \in k + 1 .. Len(audit') : FALSE
      BY <2>1, <3>0, <3>1, <3>2
    <3>3. GrantIn(audit', tickets'[x], x, k)
      BY <1>1, <1>2, <1>4, <2>3, <3>4 DEF GrantIn
    <3> QED
      BY <3>3, <3>4 DEF BackedBy
  <2> QED
    BY <2>2, <2>3
<1> QED
  BY <1>6, <1>7, <1>8 DEF IInv

(* The status prunes tickets and writes nothing.                           *)
LEMMA StatusStep ==
  ASSUME IInv, GetSafetyStatus
  PROVE  IInv'
<1>1. /\ UNCHANGED <<limits, halts, now, routed, ring>>
      /\ \A x \in DOMAIN tickets' : x \in DOMAIN tickets /\ tickets'[x] = tickets[x]
  BY DEF GetSafetyStatus, Pruned, Restrict
<1>2. TypeOK' /\ Shape'
  BY <1>1 DEF IInv, TypeOK, Shape, halts, ring
<1>3. Backed'
  BY <1>1 DEF IInv, Backed, ring
<1> QED
  BY <1>2, <1>3 DEF IInv

(* The clock alone, or nothing at all.                                     *)
LEMMA StillStep ==
  ASSUME IInv, UNCHANGED <<limits, halts, tickets, routed, ring>>, now' \in Times
  PROVE  IInv'
BY DEF IInv, TypeOK, Shape, Backed, halts, ring

(* The inductive invariant holds throughout.                               *)
LEMMA Invariance == Spec => []IInv
<1>1. Init => IInv
  BY InitInv
<1>2. IInv /\ [Next]_vars => IInv'
  <2> SUFFICES ASSUME IInv, [Next]_vars PROVE IInv'
    OBVIOUS
  <2>1. ASSUME NEW t \in Times, Clock(t) PROVE IInv'
    BY <2>1, StillStep DEF Clock
  <2>2. ASSUME UNCHANGED vars PROVE IInv'
    <3>1. now \in Times /\ UNCHANGED <<limits, halts, tickets, now, routed, ring>>
      BY <2>2 DEF vars, IInv, TypeOK
    <3> QED
      BY <3>1, StillStep
  <2> QED
    BY <2>1, <2>2, EngageStep, ResetStep, LimitsStep, PreflightStep, AnsweredStep,
       DisarmStep, ArmStep, StatusStep DEF Next
<1> QED
  BY <1>1, <1>2, PTL DEF Spec

(* No order of calls fills the ring beyond its capacity (AuditLog), and no  *)
(* ticket is kept under a scope that is not normalized (ArmingRegistry).    *)
THEOREM TypeCorrect == Spec => []TypeOK
<1>1. IInv => TypeOK
  BY DEF IInv
<1> QED
  BY <1>1, Invariance, PTL

(* Whenever is_armed answers yes, the trail shows the grant: at most        *)
(* MAX_ARM_TTL_SECONDS old, not in the future, and not revoked since.       *)
THEOREM ArmedOnlyByLiveGrant == Spec => []ArmedByLiveGrant
<1>1. IInv => ArmedByLiveGrant
  <2> SUFFICES ASSUME IInv, evicted = 0, NEW e \in Exchanges, IsArmed(e)
               PROVE  \E k \in DOMAIN audit :
                        /\ audit[k].event = "arm"
                        /\ audit[k].scope \in {Star, Norm[e]}
                        /\ audit[k].at <= now
                        /\ now < audit[k].at + MaxTTL
                        /\ \A j \in k + 1 .. Len(audit) :
                             audit[j].event = "disarm" =>
                               /\ audit[j].scope # None
                               /\ Norm[audit[j].scope] # audit[k].scope
    BY DEF ArmedByLiveGrant
  <2>1. PICK x \in {Star, Norm[e]} : x \in DOMAIN tickets /\ IsActive(tickets[x])
    BY DEF IsArmed, Pruned, Restrict
  <2>2. PICK k \in DOMAIN audit : GrantIn(audit, tickets[x], x, k)
    BY <2>1 DEF IInv, Backed, BackedBy
  <2>3. /\ tickets[x].armed_at \in Int /\ tickets[x].armed_until \in Int
        /\ now \in Int /\ MaxTTL \in Nat
    BY <2>1, ControlAssumption DEF IInv, Shape, TypeOK
  <2>4. audit[k].at <= now /\ now < audit[k].at + MaxTTL
    BY <2>1, <2>2, <2>3 DEF IsActive, GrantIn
  <2> QED
    BY <2>1, <2>2, <2>4 DEF GrantIn
<1> QED
  BY <1>1, Invariance, PTL

-----------------------------------------------------------------------------
(* What the trail tells.                                                   *)

(* Of the entries on one matter, a set, the latest in the log is one of     *)
(* those that are true now; with none in the log, and none dropped, what    *)
(* holds at first holds now.                                               *)
Tells(log, dropped, matter, true_now, at_first) ==
  /\ \A k \in DOMAIN log :
       log[k] \in matter /\ (\A j \in k + 1 .. Len(log) : log[j] \notin matter) =>
         log[k] \in true_now
  /\ dropped = 0 /\ (\A k \in DOMAIN log : log[k] \notin matter) => at_first

LimitEntries  == {e \in Entries : OfLimits(e)}
GlobalEntries == {e \in Entries : OfGlobal(e)}
HaltEntries(x) == {e \in Entries : OfHalt(e, x)}
HaltNames == {Norm[y] : y \in Scopes}

LimitsNow == {e \in Entries : limits = e.what}
GlobalNow == {e \in Entries : global_engaged = (e.what = "engaged")}
HaltNow(x) == {e \in Entries : (x \in exchange_halts) = (e.what = "engaged")}

Told ==
  /\ Tells(audit, evicted, LimitEntries, LimitsNow, limits = NoLimits)
  /\ Tells(audit, evicted, GlobalEntries, GlobalNow, ~global_engaged)
  /\ \A x \in HaltNames :
       Tells(audit, evicted, HaltEntries(x), HaltNow(x), x \notin exchange_halts)

(* One matter at a time that is what AuditTells says.                       *)
LEMMA ToldIsEnough ==
  ASSUME audit \in Seq(Entries), Told
  PROVE  AuditTells
<1>1. \A k \in DOMAIN audit :
        audit[k] \in Entries /\ \A j \in k + 1 .. Len(audit) : audit[j] \in Entries
  OBVIOUS
<1>2. ASSUME NEW k \in DOMAIN audit, OfLimits(audit[k]),
             \A f \in Later(k) : ~OfLimits(f)
      PROVE  limits = audit[k].what
  BY <1>1, <1>2 DEF Told, Tells, LimitEntries, LimitsNow, Later
<1>3. ASSUME NEW k \in DOMAIN audit, OfGlobal(audit[k]),
             \A f \in Later(k) : ~OfGlobal(f)
      PROVE  global_engaged = (audit[k].what = "engaged")
  <2>1. audit[k] \in GlobalEntries
        /\ \A j \in k + 1 .. Len(audit) : audit[j] \notin GlobalEntries
    BY <1>1, <1>3, Zenon DEF GlobalEntries, Later
  <2> QED
    BY <2>1, Zenon DEF Told, Tells, GlobalNow
<1>4. ASSUME NEW x \in HaltNames, NEW k \in DOMAIN audit, OfHalt(audit[k], x),
             \A f \in Later(k) : ~OfHalt(f, x)
      PROVE  (x \in exchange_halts) = (audit[k].what = "engaged")
  <2>1. audit[k] \in HaltEntries(x)
        /\ \A j \in k + 1 .. Len(audit) : audit[j] \notin HaltEntries(x)
    BY <1>1, <1>4, Zenon DEF HaltEntries, Later
  <2> QED
    BY <2>1, Zenon DEF Told, Tells, HaltNow
<1>5. ASSUME evicted = 0
      PROVE  /\ (\A k \in DOMAIN audit : ~OfLimits(audit[k])) => limits = NoLimits
             /\ (\A k \in DOMAIN audit : ~OfGlobal(audit[k])) => ~global_engaged
             /\ \A x \in HaltNames :
                  (\A k \in DOMAIN audit : ~OfHalt(audit[k], x)) => x \notin exchange_halts
  BY <1>5, Zenon DEF Told, Tells, LimitEntries, GlobalEntries, HaltEntries
<1> QED
  BY <1>2, <1>3, <1>4, <1>5, Zenon DEF AuditTells, HaltNames

(* An entry on another matter changes nothing, even in a full ring.         *)
LEMMA StillTold ==
  ASSUME NEW log \in Seq(Entries), Len(log) <= Capacity, NEW e \in Entries,
         NEW d \in Nat, NEW T, NEW G, NEW I,
         e \notin T, Tells(log, d, T, G, I)
  PROVE  Tells(Pushed(log, e), d + Dropped(log), T, G, I)
<1> DEFINE more == Pushed(log, e)
           n == Len(log)
           s == Dropped(log)
<1>1. /\ n \in Nat /\ s \in {0, 1} /\ s <= n
      /\ more \in Seq(Entries) /\ Len(more) = n - s + 1 /\ more[n - s + 1] = e
      /\ \A k \in 1 .. n - s : more[k] = log[k + s]
  BY PushedLog
<1> HIDE DEF more, s
<1>2. ASSUME NEW k \in DOMAIN more, more[k] \in T,
             \A j \in k + 1 .. Len(more) : more[j] \notin T
      PROVE  more[k] \in G
  <2>1. k \in 1 .. n - s
    BY <1>1, <1>2
  <2>2. k + s \in DOMAIN log /\ log[k + s] = more[k]
    BY <1>1, <2>1
  <2>3. ASSUME NEW j \in (k + s) + 1 .. n PROVE log[j] \notin T
    <3>1. j - s \in 1 .. n - s /\ j - s \in k + 1 .. Len(more) /\ (j - s) + s = j
      BY <1>1, <2>1
    <3> QED
      BY <1>1, <1>2, <3>1
  <2> QED
    BY <1>2, <2>2, <2>3 DEF Tells
<1>3. ASSUME d + s = 0, \A k \in DOMAIN more : more[k] \notin T PROVE I
  <2>1. d = 0 /\ s = 0
    BY <1>1, <1>3
  <2>2. \A k \in DOMAIN log : k \in DOMAIN more /\ log[k] = more[k]
    BY <1>1, <2>1
  <2> QED
    BY <1>3, <2>1, <2>2 DEF Tells
<1> QED
  BY <1>2, <1>3 DEF Tells, more, s

(* An entry on the matter is its latest, and need only be true.             *)
LEMMA NewlyTold ==
  ASSUME NEW log \in Seq(Entries), Len(log) <= Capacity, NEW e \in Entries,
         NEW d, NEW T, NEW G, NEW I, e \in T, e \in G
  PROVE  Tells(Pushed(log, e), d, T, G, I)
<1> DEFINE more == Pushed(log, e)
           n == Len(more)
<1>0. /\ more \in Seq(Entries) /\ Len(log) \in Nat /\ more[n] = e
      /\ Dropped(log) \in {0, 1} /\ Dropped(log) <= Len(log)
      /\ n = Len(log) - Dropped(log) + 1
  BY PushedLog
<1> HIDE DEF more
<1>1. n \in Nat /\ n \in DOMAIN more /\ more[n] = e /\ DOMAIN more = 1 .. n
  BY <1>0
<1>2. ASSUME NEW k \in DOMAIN more, \A j \in k + 1 .. n : more[j] \notin T
      PROVE  more[k] \in G
  <2>1. k = n
    BY <1>1, <1>2
  <2> QED
    BY <1>1, <2>1
<1> QED
  BY <1>1, <1>2 DEF Tells, more

(* So one step's entry either is on the matter and true of the new state,   *)
(* or leaves the matter as it was.                                         *)
LEMMA ToldNext ==
  ASSUME NEW log \in Seq(Entries), Len(log) <= Capacity, NEW e \in Entries,
         NEW d \in Nat, NEW T, NEW G, NEW I, NEW H, NEW J, Tells(log, d, T, G, I),
         \/ e \in T /\ e \in H
         \/ e \notin T /\ H = G /\ (I => J)
  PROVE  Tells(Pushed(log, e), d + Dropped(log), T, H, J)
<1>1. CASE e \in T /\ e \in H
  BY <1>1, NewlyTold
<1>2. CASE e \notin T /\ H = G /\ (I => J)
  <2>1. Tells(Pushed(log, e), d + Dropped(log), T, G, I)
    BY <1>2, StillTold
  <2> QED
    BY <1>2, <2>1, Zenon DEF Tells
<1> QED
  BY <1>1, <1>2

(* A step whose entries are on no matter, and that changes none.            *)
LEMMA QuietStep ==
  ASSUME IInv, Told, UNCHANGED <<limits, halts>>, NEW e \in Entries,
         e.event \notin {"set_risk_limits", "kill_switch"},
         \/ Record(e)
         \/ \E f \in Entries : /\ f.event \notin {"set_risk_limits", "kill_switch"}
                               /\ RecordBoth(e, f)
  PROVE  Told'
<1>1. audit \in Seq(Entries) /\ Len(audit) <= Capacity /\ evicted \in Nat
  BY DEF IInv, TypeOK, Shape
<1>2. \A f \in Entries : f.event \notin {"set_risk_limits", "kill_switch"} =>
        /\ f \notin LimitEntries /\ f \notin GlobalEntries
        /\ \A x \in HaltNames : f \notin HaltEntries(x)
  BY DEF LimitEntries, GlobalEntries, HaltEntries, OfLimits, OfGlobal, OfHalt
<1> DEFINE log == Pushed(audit, e)
           Holds(l, d) ==
             /\ Tells(l, d, LimitEntries, LimitsNow, limits = NoLimits)
             /\ Tells(l, d, GlobalEntries, GlobalNow, ~global_engaged)
             /\ \A x \in HaltNames :
                  Tells(l, d, HaltEntries(x), HaltNow(x), x \notin exchange_halts)
<1>3. log \in Seq(Entries) /\ Len(log) <= Capacity /\ evicted + Dropped(audit) \in Nat
  <2>1. log \in Seq(Entries) /\ Len(log) <= Capacity /\ Dropped(audit) \in {0, 1}
    BY <1>1, PushedLog
  <2> QED
    BY <1>1, <2>1
<1>4. Holds(log, evicted + Dropped(audit))
  BY <1>1, <1>2, StillTold DEF Told
<1>5. Holds(audit', evicted')
  <2>1. CASE Record(e)
    BY <1>4, <2>1 DEF Record
  <2>2. ASSUME NEW f \in Entries, f.event \notin {"set_risk_limits", "kill_switch"},
               RecordBoth(e, f)
        PROVE  Holds(audit', evicted')
    <3>1. audit' = Pushed(log, f) /\ evicted' = evicted + Dropped(audit) + Dropped(log)
      BY <2>2 DEF RecordBoth
    <3> HIDE DEF log
    <3>2. Holds(Pushed(log, f), evicted + Dropped(audit) + Dropped(log))
      BY <1>2, <1>3, <1>4, <2>2, StillTold
    <3> QED
      BY <3>1, <3>2
  <2> QED
    BY <2>1, <2>2
<1> QED
  BY <1>5 DEF Told, LimitsNow, GlobalNow, HaltNow, halts

(* The trail tells what is in force: no call changes a limit or a halt      *)
(* without an entry, no entry says what did not happen, and a full ring     *)
(* loses the oldest word on a matter before a later one (controller.py      *)
(* records every mutation, audit.py keeps the latest).                      *)
THEOREM TrailTells == Spec => []AuditTells
<1>1. Init => Told
  <2> SUFFICES ASSUME Init PROVE Told
    OBVIOUS
  <2>1. audit = << >> /\ DOMAIN audit = {} /\ limits = NoLimits
        /\ ~global_engaged /\ exchange_halts = {}
    BY DEF Init
  <2> QED
    BY <2>1 DEF Told, Tells
<1>2. IInv /\ Told /\ [Next]_vars => Told'
  <2> SUFFICES ASSUME IInv, Told, [Next]_vars PROVE Told'
    OBVIOUS
  <2>0. /\ audit \in Seq(Entries) /\ Len(audit) <= Capacity /\ evicted \in Nat
    BY DEF IInv, TypeOK, Shape
  <2>1. ASSUME NEW e \in Entries, Record(e),
               \/ e \in LimitEntries /\ e \in LimitsNow'
               \/ /\ e \notin LimitEntries /\ LimitsNow' = LimitsNow
                  /\ limits = NoLimits => limits' = NoLimits,
               \/ e \in GlobalEntries /\ e \in GlobalNow'
               \/ /\ e \notin GlobalEntries /\ GlobalNow' = GlobalNow
                  /\ ~global_engaged => ~global_engaged',
               \A x \in HaltNames :
                 \/ e \in HaltEntries(x) /\ e \in HaltNow(x)'
                 \/ /\ e \notin HaltEntries(x) /\ HaltNow(x)' = HaltNow(x)
                    /\ x \notin exchange_halts => x \notin exchange_halts'
        PROVE  Told'
    <3>1. audit' = Pushed(audit, e) /\ evicted' = evicted + Dropped(audit)
      BY <2>1 DEF Record
    <3>2. Tells(audit', evicted', LimitEntries, LimitsNow', limits' = NoLimits)
      BY <2>0, <2>1, <3>1, ToldNext DEF Told
    <3>3. Tells(audit', evicted', GlobalEntries, GlobalNow', ~global_engaged')
      BY <2>0, <2>1, <3>1, ToldNext DEF Told
    <3>4. \A x \in HaltNames :
            Tells(audit', evicted', HaltEntries(x), HaltNow(x)', x \notin exchange_halts')
      BY <2>0, <2>1, <3>1, ToldNext DEF Told
    <3> QED
      BY <3>2, <3>3, <3>4 DEF Told
  <2>2. ASSUME NEW scope \in Scopes \cup {None}, EngageKillSwitch(scope) PROVE Told'
    <3> DEFINE e == Entry("kill_switch", scope, "engaged")
    <3>1. e \in Entries /\ e.event = "kill_switch" /\ e.scope = scope /\ e.what = "engaged"
      BY DEF Entry, Entries
    <3>2. Record(e) /\ limits' = limits
      BY <2>2 DEF EngageKillSwitch
    <3> HIDE DEF e
    <3>3. e \notin LimitEntries /\ LimitsNow' = LimitsNow
      BY <3>1, <3>2 DEF LimitEntries, OfLimits, LimitsNow
    <3>4. \/ e \in GlobalEntries /\ e \in GlobalNow'
          \/ /\ e \notin GlobalEntries /\ GlobalNow' = GlobalNow
             /\ ~global_engaged => ~global_engaged'
      BY <2>2, <3>1 DEF EngageKillSwitch, GlobalEntries, OfGlobal, GlobalNow
    <3>5. ASSUME NEW x \in HaltNames
          PROVE  \/ e \in HaltEntries(x) /\ e \in HaltNow(x)'
                 \/ /\ e \notin HaltEntries(x) /\ HaltNow(x)' = HaltNow(x)
                    /\ x \notin exchange_halts => x \notin exchange_halts'
      BY <2>2, <3>1 DEF EngageKillSwitch, HaltEntries, OfHalt, HaltNow
    <3> QED
      BY <2>1, <3>1, <3>2, <3>3, <3>4, <3>5
  <2>3. ASSUME NEW scope \in Scopes \cup {None}, ResetKillSwitch(scope) PROVE Told'
    <3> DEFINE e == Entry("kill_switch", scope, "reset")
    <3>1. e \in Entries /\ e.event = "kill_switch" /\ e.scope = scope /\ e.what = "reset"
      BY DEF Entry, Entries
    <3>2. Record(e) /\ limits' = limits
      BY <2>3 DEF ResetKillSwitch
    <3> HIDE DEF e
    <3>3. e \notin LimitEntries /\ LimitsNow' = LimitsNow
      BY <3>1, <3>2 DEF LimitEntries, OfLimits, LimitsNow
    <3>4. \/ e \in GlobalEntries /\ e \in GlobalNow'
          \/ /\ e \notin GlobalEntries /\ GlobalNow' = GlobalNow
             /\ ~global_engaged => ~global_engaged'
      BY <2>3, <3>1 DEF ResetKillSwitch, GlobalEntries, OfGlobal, GlobalNow
    <3>5. ASSUME NEW x \in HaltNames
          PROVE  \/ e \in HaltEntries(x) /\ e \in HaltNow(x)'
                 \/ /\ e \notin HaltEntries(x) /\ HaltNow(x)' = HaltNow(x)
                    /\ x \notin exchange_halts => x \notin exchange_halts'
      BY <2>3, <3>1 DEF ResetKillSwitch, HaltEntries, OfHalt, HaltNow
    <3> QED
      BY <2>1, <3>1, <3>2, <3>3, <3>4, <3>5
  <2>4. ASSUME NEW new \in LimitSets, SetRiskLimits(new) PROVE Told'
    <3> DEFINE e == Entry("set_risk_limits", None, new)
    <3>1. e \in Entries /\ e.event = "set_risk_limits" /\ e.what = new
      BY DEF Entry, Entries
    <3>2. Record(e) /\ limits' = new /\ UNCHANGED halts
      BY <2>4 DEF SetRiskLimits
    <3> HIDE DEF e
    <3>3. e \in LimitEntries /\ e \in LimitsNow'
      BY <3>1, <3>2 DEF LimitEntries, OfLimits, LimitsNow
    <3>4. /\ e \notin GlobalEntries /\ GlobalNow' = GlobalNow
          /\ ~global_engaged => ~global_engaged'
      BY <3>1, <3>2 DEF halts, GlobalEntries, OfGlobal, GlobalNow
    <3>5. \A x \in HaltNames :
            /\ e \notin HaltEntries(x) /\ HaltNow(x)' = HaltNow(x)
            /\ x \notin exchange_halts => x \notin exchange_halts'
      BY <3>1, <3>2 DEF halts, HaltEntries, OfHalt, HaltNow
    <3> QED
      BY <2>1, <3>1, <3>2, <3>3, <3>4, <3>5
  <2>5. ASSUME NEW x \in Exchanges, NEW ctx \in Contexts, NEW gate \in Gate, Preflight(x, ctx, gate)
        PROVE  Told'
    <3> DEFINE v == Verdict(x, ctx, gate)
               e == Entry(IF v \in Gate THEN "order_intent" ELSE "denied", x, v)
               f == Result(x, v)
    <3>1. v \in Gate \cup {"unpriced", "halted", "breach"}
      BY DEF Verdict
    <3>2. /\ UNCHANGED <<limits, halts>>
          /\ Record(e) \/ (RecordBoth(e, f) /\ v = "simulate")
      BY <2>5 DEF Preflight
    <3> HIDE DEF v
    <3>3. e \in Entries /\ e.event \notin {"set_risk_limits", "kill_switch"}
      BY <3>1 DEF Entry, Entries
    <3>4. v = "simulate" => f \in Entries /\ f.event \notin {"set_risk_limits", "kill_switch"}
      BY <3>1 DEF Result, Entry, Entries
    <3> HIDE DEF e, f
    <3> QED
      BY <3>2, <3>3, <3>4, QuietStep
  <2>6. ASSUME UNCHANGED <<limits, halts, ring>> PROVE Told'
    BY <2>6 DEF Told, LimitsNow, GlobalNow, HaltNow, halts, ring
  <2>7. ASSUME NEW x \in Exchanges, OrderAnswered(x) PROVE Told'
    <3> DEFINE e == Result(x, "route")
    <3>1. UNCHANGED <<limits, halts>> /\ (Record(e) \/ UNCHANGED ring)
      BY <2>7 DEF OrderAnswered
    <3>2. CASE UNCHANGED ring
      BY <2>6, <3>1, <3>2
    <3>3. CASE Record(e)
      <4>1. e \in Entries /\ e.event = "order_result"
        BY DEF Result, Entry, Entries
      <4> HIDE DEF e
      <4> QED
        BY <3>1, <3>3, <4>1, QuietStep
    <3> QED
      BY <3>1, <3>2, <3>3
  <2>8. ASSUME NEW scope \in Scopes \cup {None}, DisarmLiveTrading(scope) PROVE Told'
    <3> DEFINE e == Entry("disarm", scope, None)
    <3>1. e \in Entries /\ e.event = "disarm"
      BY DEF Entry, Entries
    <3>2. Record(e) /\ UNCHANGED <<limits, halts>>
      BY <2>8 DEF DisarmLiveTrading
    <3> HIDE DEF e
    <3> QED
      BY <3>1, <3>2, QuietStep
  <2>9. ASSUME NEW scope \in Scopes, NEW ttl \in TTLs, ArmLiveTrading(scope, ttl) PROVE Told'
    <3> DEFINE span == IF ttl > MaxTTL THEN MaxTTL ELSE ttl
               e == Entry("arm", Norm[scope], now + span)
    <3>1. now \in Times /\ now + span \in Int
      BY ControlAssumption DEF IInv, TypeOK
    <3>2. Record(e) /\ UNCHANGED <<limits, halts>>
      BY <2>9 DEF ArmLiveTrading
    <3> HIDE DEF span
    <3>3. e \in Entries /\ e.event = "arm"
      BY <3>1 DEF Entry, Entries
    <3> HIDE DEF e
    <3> QED
      BY <3>2, <3>3, QuietStep
  <2> QED
    BY <2>2, <2>3, <2>4, <2>5, <2>7, <2>8, <2>9, <2>6 DEF Next, GetSafetyStatus, Clock, vars
<1>3. IInv /\ Told => AuditTells
  BY ToldIsEnough DEF IInv, Shape
<1> QED
  BY <1>1, <1>2, <1>3, Invariance, PTL DEF Spec
=============================================================================
