--------------------------- MODULE OrderPathProofs ---------------------------
(* Proofs about OrderPath, for every set of sessions, calls and requests,   *)
(* any number of attempts and any number of restarts.                       *)
(*                                                                         *)
(* The safety properties of OrderPath are not inductive one by one; their   *)
(* conjunction with the four facts below is (IInv).  The argument: a call   *)
(* claims an id only while it is idle or waits for the adapter, where it    *)
(* has no id yet (Phases); an id claimed in this life of the process is     *)
(* still in the registry (ClaimsAreSeen), so nobody else can claim it; only *)
(* claimants reach the wire and the venue, and always under the id they     *)
(* claimed (SentByOwners).                                                  *)
EXTENDS OrderPath, TLAPS

USE ConstantsAssumption DEF SessionMode

(* Where a call is determines whether it has an id and how it got it.       *)
Phases ==
  \A c \in Calls :
     /\ pc[c] \in {"idle", "adapter"} => role[c] = "none"
     /\ pc[c] \in {"awaiting", "backoff"} => role[c] = "owner"
     /\ pc[c] \in {"awaiting", "backoff"} => attempt[c] > 0
     /\ pc[c] = "backoff" => attempt[c] < MaxAttempts
     /\ coid[c] = None <=> role[c] = "none"
     /\ coid[c] # None => /\ req[c].session = coid[c][1]
                          /\ req[c].leg = coid[c][2]
     /\ pc[c] \in Waiting => life[c] = boot
     /\ life[c] <= boot

ClaimsAreSeen ==
  \A c \in Calls : role[c] = "owner" /\ life[c] = boot => coid[c] \in seen

SentByOwners ==
  /\ \A x \in wire : role[x[1]] = "owner"
  /\ \A o \in venue : role[o.call] = "owner" /\ coid[o.call] = o.coid
  /\ \A c \in Calls : reply[c] = "ok" => \E o \in venue : o.call = c

(* The automatic ids of this life lie below the session's counter.          *)
AutoIdsBelowCounter ==
  \A c \in Calls :
     coid[c] # None /\ life[c] = boot /\ req[c].seq = None =>
       coid[c][3] < order_seq[coid[c][1]]

IInv ==
  /\ TypeOK
  /\ Phases
  /\ SingleClaim
  /\ ClaimsAreSeen
  /\ SentByOwners
  /\ ResultsAreReal
  /\ AnswerIsOwnOrder
  /\ AutoIdsBelowCounter
  /\ AutoIdsDistinct

-----------------------------------------------------------------------------
(* The initial state.                                                      *)

(* At first no call has begun.                                             *)
LEMMA InitType == Init => TypeOK
<1> SUFFICES ASSUME Init PROVE TypeOK
  OBVIOUS
<1>1. /\ order_seq \in [Sessions -> Nat]
      /\ seen \subseteq Coid
  BY DEF Init
<1>2. /\ DOMAIN order_results \subseteq Coid
      /\ \A k \in DOMAIN order_results : order_results[k] \in Record
  BY DEF Init
<1>3. /\ global_engaged \in BOOLEAN
      /\ exchange_halts \subseteq {Norm[s] : s \in Scopes}
      /\ max_order_notional \in Caps \cup {None}
  BY DEF Init
<1>4. /\ pc \in [Calls -> Done \cup Waiting \cup {"idle"}]
      /\ req \in [Calls -> Requests \cup {None}]
      /\ \A c \in Calls : pc[c] = "idle" \/ req[c] \in Requests
      /\ coid \in [Calls -> Coid \cup {None}]
      /\ role \in [Calls -> {"none", "owner", "duplicate"}]
  BY DEF Init
<1>5. /\ attempt \in [Calls -> 0 .. MaxAttempts]
      /\ answer \in [Calls -> Record \cup {None}]
      /\ reply \in [Calls -> {"none", "ok", "rejected", "unavailable"}]
  BY DEF Init
<1>6. /\ wire \subseteq Attempt
      /\ venue \subseteq VenueOrder
      /\ boot \in 0 .. MaxRestarts
      /\ life \in [Calls -> 0 .. MaxRestarts]
  BY DEF Init
<1> QED BY <1>1, <1>2, <1>3, <1>4, <1>5, <1>6 DEF TypeOK

(* The invariant holds at first.                                           *)
LEMMA InitIInv == Init => IInv
<1> SUFFICES ASSUME Init PROVE IInv
  OBVIOUS
<1>1. TypeOK
  BY InitType
<1>2. Phases
  BY DEF Init, Phases, Waiting
<1>3. SingleClaim /\ ClaimsAreSeen /\ SentByOwners
  BY DEF Init, SingleClaim, ClaimsAreSeen, SentByOwners
<1>4. ResultsAreReal /\ AnswerIsOwnOrder
  BY DEF Init, ResultsAreReal, AnswerIsOwnOrder
<1>5. AutoIdsBelowCounter /\ AutoIdsDistinct
  BY DEF Init, AutoIdsBelowCounter, AutoIdsDistinct
<1> QED BY <1>1, <1>2, <1>3, <1>4, <1>5 DEF IInv

-----------------------------------------------------------------------------
(* The step that leads from the risk check to the next await or result.    *)

(* An id is a triple of the request's session, its leg and a number.        *)
LEMMA CoidType ==
  ASSUME TypeOK, NEW r \in Requests,
         NEW q, q = IF r.seq = None THEN order_seq[r.session] ELSE r.seq
  PROVE  /\ r.session \in Sessions
         /\ q \in Nat
         /\ ClientOrderId(r, q) \in Coid
         /\ ClientOrderId(r, q)[1] = r.session
         /\ ClientOrderId(r, q)[2] = r.leg
         /\ ClientOrderId(r, q)[3] = q
<1>1. r \in Request
  BY DEF Request
<1> QED BY <1>1 DEF TypeOK, Request, ClientOrderId, Coid

(* A call that stores its record and returns it keeps the two invariants    *)
(* about results, if the owners there were keep their ids.                  *)
LEMMA RecordStep ==
  ASSUME IInv, NEW c \in Calls, NEW k \in Coid, NEW rec \in Record,
         rec.owner = c,
         rec.simulated = TRUE \/ \E o \in venue : o.call = c /\ o.coid = k,
         order_results' = Put(order_results, k, rec),
         answer' = [answer EXCEPT ![c] = rec],
         coid'[c] = k, role'[c] = "owner", life'[c] = boot,
         \A d \in Calls \ {c} : /\ coid'[d] = coid[d] /\ life'[d] = life[d]
                                /\ pc'[d] = pc[d],
         \A d \in Calls : role[d] = "owner" =>
                             /\ role'[d] = "owner"
                             /\ coid'[d] = coid[d] /\ life'[d] = life[d],
         UNCHANGED <<venue, boot>>,
         Phases'
  PROVE  ResultsAreReal' /\ AnswerIsOwnOrder'
<1>1. ResultsAreReal'
  <2> SUFFICES ASSUME NEW x \in DOMAIN order_results'
               PROVE  LET d == order_results'[x].owner
                      IN /\ role'[d] = "owner" /\ coid'[d] = x
                         /\ life'[d] = boot'
                         /\ \/ order_results'[x].simulated
                            \/ \E o \in venue' : o.call = d /\ o.coid = x
    BY DEF ResultsAreReal
  <2>1. CASE x = k
    BY <2>1 DEF Put
  <2>2. CASE x # k
    <3>1. x \in DOMAIN order_results /\ order_results'[x] = order_results[x]
      BY <2>2 DEF Put
    <3>2. order_results[x].owner \in Calls
      BY <3>1 DEF IInv, TypeOK, Record
    <3> QED BY <3>1, <3>2 DEF IInv, ResultsAreReal
  <2> QED BY <2>1, <2>2
<1>2. AnswerIsOwnOrder'
  <2> SUFFICES ASSUME NEW d \in Calls, pc'[d] = "returned"
               PROVE  /\ answer'[d] # None
                      /\ coid'[answer'[d].owner] = coid'[d]
                      /\ req'[answer'[d].owner].session = req'[d].session
                      /\ req'[answer'[d].owner].leg = req'[d].leg
                      /\ life'[answer'[d].owner] = life'[d]
                      /\ role'[answer'[d].owner] = "owner"
    BY DEF AnswerIsOwnOrder
  <2>1. CASE d = c
    <3>1. answer'[c] = rec /\ rec # None
      BY DEF IInv, TypeOK
    <3> QED BY <2>1, <3>1, Zenon
  <2>2. CASE d # c
    <3>1. /\ answer'[d] = answer[d] /\ answer[d] # None
          /\ answer[d].owner \in Calls
      BY <2>2 DEF IInv, TypeOK, AnswerIsOwnOrder, Record
    <3>2. /\ coid'[answer[d].owner] = coid'[d]
          /\ life'[answer[d].owner] = life'[d]
          /\ role'[answer[d].owner] = "owner"
      BY <2>2, <3>1 DEF IInv, AnswerIsOwnOrder
    <3>3. /\ req'[answer[d].owner].session = req'[d].session
          /\ req'[answer[d].owner].leg = req'[d].leg
      BY <3>1, <3>2 DEF Phases
    <3> QED BY <3>1, <3>2, <3>3
  <2> QED BY <2>1, <2>2
<1> QED BY <1>1, <1>2

(* A call without an id runs the step in its current life of the process.   *)
LEMMA DecideStep ==
  ASSUME IInv, NEW c \in Calls, NEW r \in Requests,
         pc[c] \in {"idle", "adapter"},
         Decide(c, r),
         req' = [req EXCEPT ![c] = r],
         life' = [life EXCEPT ![c] = boot],
         UNCHANGED <<safety, boot>>
  PROVE  IInv'
<1>1. CASE Deny(c)
  <2> USE <1>1 DEF Deny, registry, network, safety
  <2>1. TypeOK'
    BY DEF IInv, TypeOK, Done
  <2>2. Phases'
    BY DEF IInv, TypeOK, Phases, Waiting
  <2>3. SingleClaim' /\ ClaimsAreSeen' /\ SentByOwners'
    BY DEF IInv, TypeOK, Phases, SingleClaim, ClaimsAreSeen, SentByOwners
  <2>4. ResultsAreReal'
    BY DEF IInv, TypeOK, Phases, ResultsAreReal, Record
  <2>5. AnswerIsOwnOrder'
    BY DEF IInv, TypeOK, Phases, AnswerIsOwnOrder, Record
  <2>6. AutoIdsBelowCounter' /\ AutoIdsDistinct'
    BY DEF IInv, TypeOK, Phases, AutoIdsBelowCounter, AutoIdsDistinct
  <2> QED BY <2>1, <2>2, <2>3, <2>4, <2>5, <2>6 DEF IInv
<1>2. CASE Admit(c, r)
  <2> PICK q, k :
        /\ q = IF r.seq = None THEN order_seq[r.session] ELSE r.seq
        /\ k = ClientOrderId(r, q)
        /\ order_seq' = IF r.seq = None
                          THEN [order_seq EXCEPT ![r.session] = q + 1]
                          ELSE order_seq
        /\ coid' = [coid EXCEPT ![c] = k]
        /\ Duplicate(c, k) \/ Claim(c, r, k)
    BY <1>2 DEF Admit
  <2>1. /\ r.session \in Sessions
        /\ q \in Nat
        /\ k \in Coid /\ k # None
        /\ k[1] = r.session /\ k[2] = r.leg /\ k[3] = q
    BY CoidType DEF IInv
  <2>2. order_seq' \in [Sessions -> Nat]
    BY <2>1 DEF IInv, TypeOK
  <2>3. CASE Duplicate(c, k)
    <3> USE <2>1, <2>2, <2>3 DEF Duplicate, safety, network
    <3>1. TypeOK'
      BY DEF IInv, TypeOK, Done, Waiting, Record, Attempt
    <3>2. Phases'
      BY DEF IInv, TypeOK, Phases, Waiting
    <3>3. SingleClaim' /\ ClaimsAreSeen'
      BY DEF IInv, TypeOK, Phases, SingleClaim, ClaimsAreSeen
    <3>4. SentByOwners'
      BY DEF IInv, TypeOK, Phases, SentByOwners, Attempt, VenueOrder
    <3>5. ResultsAreReal'
      BY DEF IInv, TypeOK, Phases, ResultsAreReal, Record
    <3>6. AnswerIsOwnOrder'
      BY DEF IInv, TypeOK, Phases, AnswerIsOwnOrder, ResultsAreReal, Record
    <3>7. AutoIdsBelowCounter'
      BY DEF IInv, TypeOK, Phases, AutoIdsBelowCounter, Coid
    <3>8. AutoIdsDistinct'
      BY DEF IInv, TypeOK, Phases, AutoIdsBelowCounter, AutoIdsDistinct
    <3> QED BY <3>1, <3>2, <3>3, <3>4, <3>5, <3>6, <3>7, <3>8 DEF IInv
  <2>4. CASE Claim(c, r, k) /\ Invalid(c)
    <3> USE <2>1, <2>2, <2>4 DEF Claim, Invalid, safety, network
    <3>1. TypeOK'
      BY DEF IInv, TypeOK, Done, Waiting, Record, Attempt
    <3>2. Phases'
      BY DEF IInv, TypeOK, Phases, Waiting
    <3>3. SingleClaim' /\ ClaimsAreSeen'
      BY DEF IInv, TypeOK, Phases, SingleClaim, ClaimsAreSeen
    <3>4. SentByOwners'
      BY DEF IInv, TypeOK, Phases, SentByOwners, Attempt, VenueOrder
    <3>5. ResultsAreReal'
      BY DEF IInv, TypeOK, Phases, ResultsAreReal, Record
    <3>6. AnswerIsOwnOrder'
      BY DEF IInv, TypeOK, Phases, AnswerIsOwnOrder, ResultsAreReal, Record
    <3>7. AutoIdsBelowCounter'
      BY DEF IInv, TypeOK, Phases, AutoIdsBelowCounter, Coid
    <3>8. AutoIdsDistinct'
      BY DEF IInv, TypeOK, Phases, AutoIdsBelowCounter, AutoIdsDistinct
    <3> QED BY <3>1, <3>2, <3>3, <3>4, <3>5, <3>6, <3>7, <3>8 DEF IInv
  <2>5. CASE Claim(c, r, k) /\ Simulate(c, k)
    <3> USE <2>1, <2>2, <2>5 DEF Claim, Simulate, Put, safety, network
    <3>1. TypeOK'
      BY DEF IInv, TypeOK, Done, Waiting, Record, Attempt
    <3>2. Phases'
      BY DEF IInv, TypeOK, Phases, Waiting
    <3>3. SingleClaim' /\ ClaimsAreSeen'
      BY DEF IInv, TypeOK, Phases, SingleClaim, ClaimsAreSeen
    <3>4. SentByOwners'
      BY DEF IInv, TypeOK, Phases, SentByOwners, Attempt, VenueOrder
    <3>5. [owner |-> c, simulated |-> TRUE] \in Record
      BY DEF Record
    <3>6. /\ coid'[c] = k /\ role'[c] = "owner" /\ life'[c] = boot
          /\ \A d \in Calls \ {c} : /\ coid'[d] = coid[d] /\ life'[d] = life[d]
                                   /\ pc'[d] = pc[d]
      BY DEF IInv, TypeOK
    <3>7. \A d \in Calls : role[d] = "owner" =>
                /\ role'[d] = "owner" /\ coid'[d] = coid[d] /\ life'[d] = life[d]
      BY DEF IInv, TypeOK, Phases
    <3>8. ResultsAreReal' /\ AnswerIsOwnOrder'
      <4>1. PICK rec \in Record :
               /\ rec.owner = c /\ rec.simulated = TRUE
               /\ order_results' = Put(order_results, k, rec)
               /\ answer' = [answer EXCEPT ![c] = rec]
        BY <3>5
      <4>2. UNCHANGED <<venue, boot>>
        OBVIOUS
      <4>3. k \in Coid
        OBVIOUS
      <4> HIDE <2>5 DEF Put, Simulate, Claim
      <4> QED BY <3>2, <3>6, <3>7, <4>1, <4>2, <4>3, RecordStep
    <3>9. AutoIdsBelowCounter'
      BY DEF IInv, TypeOK, Phases, AutoIdsBelowCounter, Coid
    <3>10. AutoIdsDistinct'
      BY DEF IInv, TypeOK, Phases, AutoIdsBelowCounter, AutoIdsDistinct
    <3> QED BY <3>1, <3>2, <3>3, <3>4, <3>8, <3>9, <3>10 DEF IInv
  <2>6. CASE Claim(c, r, k) /\ Route(c)
    <3> USE <2>1, <2>2, <2>6 DEF Claim, Route, safety
    <3>1. TypeOK'
      BY DEF IInv, TypeOK, Done, Waiting, Record, Attempt
    <3>2. Phases'
      BY DEF IInv, TypeOK, Phases, Waiting
    <3>3. SingleClaim' /\ ClaimsAreSeen'
      BY DEF IInv, TypeOK, Phases, SingleClaim, ClaimsAreSeen
    <3>4. SentByOwners'
      BY DEF IInv, TypeOK, Phases, SentByOwners, Attempt, VenueOrder
    <3>5. ResultsAreReal'
      BY DEF IInv, TypeOK, Phases, ResultsAreReal, Record
    <3>6. AnswerIsOwnOrder'
      BY DEF IInv, TypeOK, Phases, AnswerIsOwnOrder, ResultsAreReal, Record
    <3>7. AutoIdsBelowCounter'
      BY DEF IInv, TypeOK, Phases, AutoIdsBelowCounter, Coid
    <3>8. AutoIdsDistinct'
      BY DEF IInv, TypeOK, Phases, AutoIdsBelowCounter, AutoIdsDistinct
    <3> QED BY <3>1, <3>2, <3>3, <3>4, <3>5, <3>6, <3>7, <3>8 DEF IInv
  <2> QED BY <2>3, <2>4, <2>5, <2>6 DEF Claim
<1> QED BY <1>1, <1>2 DEF Decide

-----------------------------------------------------------------------------
(* Every step.                                                             *)

(* Every step keeps the invariant.                                         *)
LEMMA NextIInv == IInv /\ [Next]_vars => IInv'
<1> SUFFICES ASSUME IInv, [Next]_vars PROVE IInv'
  OBVIOUS
<1>1. ASSUME NEW c \in Calls, NEW r \in Requests, PlacePaperOrder(c, r)
      PROVE  IInv'
  BY <1>1, DecideStep DEF PlacePaperOrder, Begin
<1>2. ASSUME NEW c \in Calls, NEW r \in Requests, PlaceTestnetOrder(c, r)
      PROVE  IInv'
  <2> USE <1>2 DEF PlaceTestnetOrder, Begin, registry, safety, network
  <2>1. TypeOK'
    BY DEF IInv, TypeOK, Phases, Done, Waiting, Attempt, Record, VenueOrder
  <2>2. Phases'
    BY DEF IInv, TypeOK, Phases, Waiting, Attempt, Done
  <2>3. SingleClaim' /\ ClaimsAreSeen'
    BY DEF IInv, TypeOK, Phases, SingleClaim, ClaimsAreSeen
  <2>4. SentByOwners'
    BY DEF IInv, TypeOK, Phases, SentByOwners, Attempt, VenueOrder
  <2>5. ResultsAreReal'
    BY DEF IInv, TypeOK, Phases, ResultsAreReal, Record
  <2>6. AnswerIsOwnOrder'
    BY DEF IInv, TypeOK, Phases, AnswerIsOwnOrder, Record, Waiting
  <2>7. AutoIdsBelowCounter' /\ AutoIdsDistinct'
    BY DEF IInv, TypeOK, Phases, AutoIdsBelowCounter, AutoIdsDistinct
  <2> QED BY <2>1, <2>2, <2>3, <2>4, <2>5, <2>6, <2>7 DEF IInv
<1>3. ASSUME NEW c \in Calls, AdapterReady(c)
      PROVE  IInv'
  <2>1. req[c] \in Requests /\ life[c] = boot
    BY <1>3 DEF AdapterReady, IInv, TypeOK, Phases, Waiting
  <2>2. req' = [req EXCEPT ![c] = req[c]] /\ life' = [life EXCEPT ![c] = boot]
    BY <1>3, <2>1 DEF AdapterReady, IInv, TypeOK
  <2> QED BY <1>3, <2>1, <2>2, DecideStep DEF AdapterReady
<1>4. ASSUME NEW c \in Calls, AdapterUnavailable(c)
      PROVE  IInv'
  <2> USE <1>4 DEF AdapterUnavailable, registry, safety, network
  <2>1. TypeOK'
    BY DEF IInv, TypeOK, Phases, Done, Waiting, Attempt, Record, VenueOrder
  <2>2. Phases'
    BY DEF IInv, TypeOK, Phases, Waiting, Attempt, Done
  <2>3. SingleClaim' /\ ClaimsAreSeen'
    BY DEF IInv, TypeOK, Phases, SingleClaim, ClaimsAreSeen
  <2>4. SentByOwners'
    BY DEF IInv, TypeOK, Phases, SentByOwners, Attempt, VenueOrder
  <2>5. ResultsAreReal'
    BY DEF IInv, TypeOK, Phases, ResultsAreReal, Record
  <2>6. AnswerIsOwnOrder'
    BY DEF IInv, TypeOK, Phases, AnswerIsOwnOrder, Record, Waiting
  <2>7. AutoIdsBelowCounter' /\ AutoIdsDistinct'
    BY DEF IInv, TypeOK, Phases, AutoIdsBelowCounter, AutoIdsDistinct
  <2> QED BY <2>1, <2>2, <2>3, <2>4, <2>5, <2>6, <2>7 DEF IInv
<1>5. ASSUME NEW c \in Calls, CreateOrderOk(c)
      PROVE  IInv'
  <2> USE <1>5 DEF CreateOrderOk, Put, safety, network
  <2>1. TypeOK'
    BY DEF IInv, TypeOK, Phases, Done, Waiting, Attempt, Record, VenueOrder
  <2>2. Phases'
    BY DEF IInv, TypeOK, Phases, Waiting, Attempt, Done
  <2>3. SingleClaim' /\ ClaimsAreSeen'
    BY DEF IInv, TypeOK, Phases, SingleClaim, ClaimsAreSeen
  <2>4. SentByOwners'
    BY DEF IInv, TypeOK, Phases, SentByOwners, Attempt, VenueOrder
  <2>5. /\ coid[c] \in Coid /\ role[c] = "owner" /\ life[c] = boot
        /\ \E o \in venue : o.call = c /\ o.coid = coid[c]
        /\ [owner |-> c, simulated |-> FALSE] \in Record
    BY DEF IInv, TypeOK, Phases, Waiting, SentByOwners, Record
  <2>6. ResultsAreReal' /\ AnswerIsOwnOrder'
    BY <2>2, <2>5, RecordStep DEF IInv, TypeOK
  <2>7. AutoIdsBelowCounter' /\ AutoIdsDistinct'
    BY DEF IInv, TypeOK, Phases, AutoIdsBelowCounter, AutoIdsDistinct
  <2> QED BY <2>1, <2>2, <2>3, <2>4, <2>6, <2>7 DEF IInv
<1>6. ASSUME NEW c \in Calls, CreateOrderRejected(c)
      PROVE  IInv'
  <2> USE <1>6 DEF CreateOrderRejected, registry, safety, network
  <2>1. TypeOK'
    BY DEF IInv, TypeOK, Phases, Done, Waiting, Attempt, Record, VenueOrder
  <2>2. Phases'
    BY DEF IInv, TypeOK, Phases, Waiting, Attempt, Done
  <2>3. SingleClaim' /\ ClaimsAreSeen'
    BY DEF IInv, TypeOK, Phases, SingleClaim, ClaimsAreSeen
  <2>4. SentByOwners'
    BY DEF IInv, TypeOK, Phases, SentByOwners, Attempt, VenueOrder
  <2>5. ResultsAreReal'
    BY DEF IInv, TypeOK, Phases, ResultsAreReal, Record
  <2>6. AnswerIsOwnOrder'
    BY DEF IInv, TypeOK, Phases, AnswerIsOwnOrder, Record, Waiting
  <2>7. AutoIdsBelowCounter' /\ AutoIdsDistinct'
    BY DEF IInv, TypeOK, Phases, AutoIdsBelowCounter, AutoIdsDistinct
  <2> QED BY <2>1, <2>2, <2>3, <2>4, <2>5, <2>6, <2>7 DEF IInv
<1>7. ASSUME NEW c \in Calls, TransientError(c)
      PROVE  IInv'
  <2> USE <1>7 DEF TransientError, registry, safety, network
  <2>1. TypeOK'
    BY DEF IInv, TypeOK, Phases, Done, Waiting, Attempt, Record, VenueOrder
  <2>2. Phases'
    BY DEF IInv, TypeOK, Phases, Waiting, Attempt, Done
  <2>3. SingleClaim' /\ ClaimsAreSeen'
    BY DEF IInv, TypeOK, Phases, SingleClaim, ClaimsAreSeen
  <2>4. SentByOwners'
    BY DEF IInv, TypeOK, Phases, SentByOwners, Attempt, VenueOrder
  <2>5. ResultsAreReal'
    BY DEF IInv, TypeOK, Phases, ResultsAreReal, Record
  <2>6. AnswerIsOwnOrder'
    BY DEF IInv, TypeOK, Phases, AnswerIsOwnOrder, Record, Waiting
  <2>7. AutoIdsBelowCounter' /\ AutoIdsDistinct'
    BY DEF IInv, TypeOK, Phases, AutoIdsBelowCounter, AutoIdsDistinct
  <2> QED BY <2>1, <2>2, <2>3, <2>4, <2>5, <2>6, <2>7 DEF IInv
<1>8. ASSUME NEW c \in Calls, Retry(c)
      PROVE  IInv'
  <2> USE <1>8 DEF Retry, registry, safety
  <2>1. TypeOK'
    BY DEF IInv, TypeOK, Phases, Done, Waiting, Attempt, Record, VenueOrder
  <2>2. Phases'
    BY DEF IInv, TypeOK, Phases, Waiting, Attempt, Done
  <2>3. SingleClaim' /\ ClaimsAreSeen'
    BY DEF IInv, TypeOK, Phases, SingleClaim, ClaimsAreSeen
  <2>4. SentByOwners'
    BY DEF IInv, TypeOK, Phases, SentByOwners, Attempt, VenueOrder
  <2>5. ResultsAreReal'
    BY DEF IInv, TypeOK, Phases, ResultsAreReal, Record
  <2>6. AnswerIsOwnOrder'
    BY DEF IInv, TypeOK, Phases, AnswerIsOwnOrder, Record, Waiting
  <2>7. AutoIdsBelowCounter' /\ AutoIdsDistinct'
    BY DEF IInv, TypeOK, Phases, AutoIdsBelowCounter, AutoIdsDistinct
  <2> QED BY <2>1, <2>2, <2>3, <2>4, <2>5, <2>6, <2>7 DEF IInv
<1>9. ASSUME NEW c \in Calls, NEW a \in 1 .. MaxAttempts, VenueBooks(c, a)
      PROVE  IInv'
  <2> USE <1>9 DEF VenueBooks, Deliver, registry, safety, call
  <2>0. /\ role[c] = "owner" /\ coid[c] \in Coid
        /\ [coid |-> coid[c], call |-> c, attempt |-> a] \in VenueOrder
    BY DEF IInv, TypeOK, Phases, SentByOwners, VenueOrder
  <2>1. TypeOK'
    BY <2>0 DEF IInv, TypeOK
  <2>2. Phases'
    BY DEF IInv, TypeOK, Phases, Waiting, Attempt, Done
  <2>3. SingleClaim' /\ ClaimsAreSeen'
    BY DEF IInv, TypeOK, Phases, SingleClaim, ClaimsAreSeen
  <2>4. SentByOwners'
    <3>1. \A x \in wire' : role'[x[1]] = "owner"
      BY DEF IInv, SentByOwners
    <3>2. \A o \in venue' : role'[o.call] = "owner" /\ coid'[o.call] = o.coid
      BY <2>0 DEF IInv, SentByOwners
    <3>3. \A d \in Calls : reply'[d] = "ok" => \E o \in venue' : o.call = d
      BY <2>0 DEF IInv, TypeOK, SentByOwners
    <3> QED BY <3>1, <3>2, <3>3 DEF SentByOwners
  <2>5. ResultsAreReal'
    BY DEF IInv, TypeOK, Phases, ResultsAreReal, Record
  <2>6. AnswerIsOwnOrder'
    BY DEF IInv, TypeOK, Phases, AnswerIsOwnOrder, Record, Waiting
  <2>7. AutoIdsBelowCounter' /\ AutoIdsDistinct'
    BY DEF IInv, TypeOK, Phases, AutoIdsBelowCounter, AutoIdsDistinct
  <2> QED BY <2>1, <2>2, <2>3, <2>4, <2>5, <2>6, <2>7 DEF IInv
<1>10. ASSUME NEW c \in Calls, NEW a \in 1 .. MaxAttempts,
             NEW what \in {"rejected", "unavailable"},
             VenueRefuses(c, a, what)
      PROVE  IInv'
  <2> USE <1>10 DEF VenueRefuses, Deliver, registry, safety, call
  <2>1. TypeOK'
    BY DEF IInv, TypeOK, Phases, Done, Waiting, Attempt, Record, VenueOrder
  <2>2. Phases'
    BY DEF IInv, TypeOK, Phases, Waiting, Attempt, Done
  <2>3. SingleClaim' /\ ClaimsAreSeen'
    BY DEF IInv, TypeOK, Phases, SingleClaim, ClaimsAreSeen
  <2>4. SentByOwners'
    BY DEF IInv, TypeOK, Phases, SentByOwners, Attempt, VenueOrder
  <2>5. ResultsAreReal'
    BY DEF IInv, TypeOK, Phases, ResultsAreReal, Record
  <2>6. AnswerIsOwnOrder'
    BY DEF IInv, TypeOK, Phases, AnswerIsOwnOrder, Record, Waiting
  <2>7. AutoIdsBelowCounter' /\ AutoIdsDistinct'
    BY DEF IInv, TypeOK, Phases, AutoIdsBelowCounter, AutoIdsDistinct
  <2> QED BY <2>1, <2>2, <2>3, <2>4, <2>5, <2>6, <2>7 DEF IInv
<1>11. ASSUME NEW c \in Calls, NEW a \in 1 .. MaxAttempts, RequestLost(c, a)
      PROVE  IInv'
  <2> USE <1>11 DEF RequestLost, registry, safety, call
  <2>1. TypeOK'
    BY DEF IInv, TypeOK, Phases, Done, Waiting, Attempt, Record, VenueOrder
  <2>2. Phases'
    BY DEF IInv, TypeOK, Phases, Waiting, Attempt, Done
  <2>3. SingleClaim' /\ ClaimsAreSeen'
    BY DEF IInv, TypeOK, Phases, SingleClaim, ClaimsAreSeen
  <2>4. SentByOwners'
    BY DEF IInv, TypeOK, Phases, SentByOwners, Attempt, VenueOrder
  <2>5. ResultsAreReal'
    BY DEF IInv, TypeOK, Phases, ResultsAreReal, Record
  <2>6. AnswerIsOwnOrder'
    BY DEF IInv, TypeOK, Phases, AnswerIsOwnOrder, Record, Waiting
  <2>7. AutoIdsBelowCounter' /\ AutoIdsDistinct'
    BY DEF IInv, TypeOK, Phases, AutoIdsBelowCounter, AutoIdsDistinct
  <2> QED BY <2>1, <2>2, <2>3, <2>4, <2>5, <2>6, <2>7 DEF IInv
<1>12. ASSUME NEW scope \in Scopes \cup {None},
             EngageKillSwitch(scope) \/ ResetKillSwitch(scope)
      PROVE  IInv'
  <2> USE <1>12 DEF EngageKillSwitch, ResetKillSwitch, registry, call, network
  <2>1. TypeOK'
    <3>1. global_engaged' \in BOOLEAN
      BY DEF IInv, TypeOK
    <3>2. exchange_halts' \subseteq {Norm[s] : s \in Scopes}
      BY DEF IInv, TypeOK
    <3> QED BY <3>1, <3>2 DEF IInv, TypeOK
  <2>2. Phases'
    BY DEF IInv, TypeOK, Phases, Waiting, Attempt, Done
  <2>3. SingleClaim' /\ ClaimsAreSeen'
    BY DEF IInv, TypeOK, Phases, SingleClaim, ClaimsAreSeen
  <2>4. SentByOwners'
    BY DEF IInv, TypeOK, Phases, SentByOwners, Attempt, VenueOrder
  <2>5. ResultsAreReal'
    BY DEF IInv, TypeOK, Phases, ResultsAreReal, Record
  <2>6. AnswerIsOwnOrder'
    BY DEF IInv, TypeOK, Phases, AnswerIsOwnOrder, Record, Waiting
  <2>7. AutoIdsBelowCounter' /\ AutoIdsDistinct'
    BY DEF IInv, TypeOK, Phases, AutoIdsBelowCounter, AutoIdsDistinct
  <2> QED BY <2>1, <2>2, <2>3, <2>4, <2>5, <2>6, <2>7 DEF IInv
<1>13. ASSUME NEW cap \in Caps \cup {None}, SetRiskLimits(cap)
      PROVE  IInv'
  <2> USE <1>13 DEF SetRiskLimits, registry, call, network
  <2>1. TypeOK'
    BY DEF IInv, TypeOK, Phases, Done, Waiting, Attempt, Record, VenueOrder
  <2>2. Phases'
    BY DEF IInv, TypeOK, Phases, Waiting, Attempt, Done
  <2>3. SingleClaim' /\ ClaimsAreSeen'
    BY DEF IInv, TypeOK, Phases, SingleClaim, ClaimsAreSeen
  <2>4. SentByOwners'
    BY DEF IInv, TypeOK, Phases, SentByOwners, Attempt, VenueOrder
  <2>5. ResultsAreReal'
    BY DEF IInv, TypeOK, Phases, ResultsAreReal, Record
  <2>6. AnswerIsOwnOrder'
    BY DEF IInv, TypeOK, Phases, AnswerIsOwnOrder, Record, Waiting
  <2>7. AutoIdsBelowCounter' /\ AutoIdsDistinct'
    BY DEF IInv, TypeOK, Phases, AutoIdsBelowCounter, AutoIdsDistinct
  <2> QED BY <2>1, <2>2, <2>3, <2>4, <2>5, <2>6, <2>7 DEF IInv
<1>14. ASSUME Restart
      PROVE  IInv'
  <2> USE <1>14 DEF Restart, network
  <2>1. TypeOK'
    <3>1. /\ DOMAIN order_results' \subseteq Coid
          /\ \A k \in DOMAIN order_results' : order_results'[k] \in Record
      OBVIOUS
    <3>2. boot' \in 0 .. MaxRestarts /\ order_seq' \in [Sessions -> Nat]
      BY DEF IInv, TypeOK
    <3>3. /\ pc' \in [Calls -> Done \cup Waiting \cup {"idle"}]
          /\ \A c \in Calls : pc'[c] = "idle" \/ req'[c] \in Requests
      <4>1. ASSUME NEW c \in Calls
            PROVE  /\ pc'[c] \in Done \cup Waiting \cup {"idle"}
                   /\ pc'[c] = "idle" \/ req'[c] \in Requests
        BY DEF IInv, TypeOK, Done, Waiting
      <4> QED BY <4>1
    <3> QED BY <3>1, <3>2, <3>3 DEF IInv, TypeOK
  <2>2. Phases'
    BY DEF IInv, TypeOK, Phases, Waiting, Attempt, Done
  <2>3. SingleClaim' /\ ClaimsAreSeen'
    BY DEF IInv, TypeOK, Phases, SingleClaim, ClaimsAreSeen
  <2>4. SentByOwners'
    BY DEF IInv, TypeOK, Phases, SentByOwners, Attempt, VenueOrder
  <2>5. ResultsAreReal'
    BY DEF IInv, TypeOK, Phases, ResultsAreReal, Record
  <2>6. AnswerIsOwnOrder'
    BY DEF IInv, TypeOK, Phases, AnswerIsOwnOrder, Record, Waiting
  <2>7. AutoIdsBelowCounter' /\ AutoIdsDistinct'
    BY DEF IInv, TypeOK, Phases, AutoIdsBelowCounter, AutoIdsDistinct
  <2> QED BY <2>1, <2>2, <2>3, <2>4, <2>5, <2>6, <2>7 DEF IInv
<1>15. ASSUME UNCHANGED vars
      PROVE  IInv'
  <2> USE <1>15 DEF vars, registry, safety, call, network
  <2>1. TypeOK'
    BY DEF IInv, TypeOK, Phases, Done, Waiting, Attempt, Record, VenueOrder
  <2>2. Phases'
    BY DEF IInv, TypeOK, Phases, Waiting, Attempt, Done
  <2>3. SingleClaim' /\ ClaimsAreSeen'
    BY DEF IInv, TypeOK, Phases, SingleClaim, ClaimsAreSeen
  <2>4. SentByOwners'
    BY DEF IInv, TypeOK, Phases, SentByOwners, Attempt, VenueOrder
  <2>5. ResultsAreReal'
    BY DEF IInv, TypeOK, Phases, ResultsAreReal, Record
  <2>6. AnswerIsOwnOrder'
    BY DEF IInv, TypeOK, Phases, AnswerIsOwnOrder, Record, Waiting
  <2>7. AutoIdsBelowCounter' /\ AutoIdsDistinct'
    BY DEF IInv, TypeOK, Phases, AutoIdsBelowCounter, AutoIdsDistinct
  <2> QED BY <2>1, <2>2, <2>3, <2>4, <2>5, <2>6, <2>7 DEF IInv
<1> QED BY <1>1, <1>2, <1>3, <1>4, <1>5, <1>6, <1>7, <1>8, <1>9, <1>10,
           <1>11, <1>12, <1>13, <1>14, <1>15 DEF Next, CallStep, Venue

(* The inductive invariant holds throughout.                               *)
LEMMA Invariance == Spec => []IInv
BY InitIInv, NextIInv, PTL DEF Spec

-----------------------------------------------------------------------------
(* The theorems.                                                           *)

(* Every variable of the order path keeps its type.                         *)
THEOREM TypeCorrect == Spec => []TypeOK
<1>1. IInv => TypeOK
  BY DEF IInv
<1> QED BY <1>1, Invariance, PTL

(* However place_order calls interleave, an id is claimed at most once in   *)
(* one life of the process.                                                 *)
THEOREM ClaimedOnce == Spec => []SingleClaim
<1>1. IInv => SingleClaim
  BY DEF IInv
<1> QED BY <1>1, Invariance, PTL

(* The venue never holds one id from two calls of one life of the process:  *)
(* a client's resubmission is never sent.                                   *)
THEOREM SentOnce == Spec => []OneSenderPerId
<1>1. IInv => OneSenderPerId
  <2> SUFFICES ASSUME IInv, NEW o \in venue, NEW p \in venue,
                      o.coid = p.coid, life[o.call] = life[p.call]
               PROVE  o.call = p.call
    BY DEF OneSenderPerId
  <2>1. o.call \in Calls /\ p.call \in Calls
    BY DEF IInv, TypeOK, VenueOrder
  <2> QED BY <2>1 DEF IInv, SentByOwners, SingleClaim
<1> QED BY <1>1, Invariance, PTL

(* A record kept under an id describes an order of this life that was       *)
(* simulated or that the venue has booked.                                  *)
THEOREM RecordsAreReal == Spec => []ResultsAreReal
<1>1. IInv => ResultsAreReal
  BY DEF IInv
<1> QED BY <1>1, Invariance, PTL

(* place_order never answers with the record of somebody else's order.      *)
THEOREM AnswersOwnOrder == Spec => []AnswerIsOwnOrder
<1>1. IInv => AnswerIsOwnOrder
  BY DEF IInv
<1> QED BY <1>1, Invariance, PTL

(* Two orders without a seq get two ids.                                    *)
THEOREM AutoIdsAreDistinct == Spec => []AutoIdsDistinct
<1>1. IInv => AutoIdsDistinct
  BY DEF IInv
<1> QED BY <1>1, Invariance, PTL

(* No call claims an id against a halt or a cap in force at that moment.    *)
THEOREM SafetyIsCheckedFresh == Spec => FreshSafetyCheck
<1> DEFINE Fresh(c) ==
      role[c] = "none" /\ role'[c] = "owner" =>
        /\ ~IsHalted(ExchangeOf[req'[c].session])
        /\ \/ max_order_notional = None
           \/ req'[c].notional = None
           \/ req'[c].notional <= max_order_notional
<1>1. ASSUME IInv, NEW c \in Calls, NEW d \in Calls, NEW r \in Requests,
             Decide(d, r), req'[d] = r
      PROVE  Fresh(c)
  <2> SUFFICES ASSUME role[c] = "none", role'[c] = "owner"
               PROVE  /\ ~IsHalted(ExchangeOf[req'[c].session])
                      /\ \/ max_order_notional = None
                         \/ req'[c].notional = None
                         \/ req'[c].notional <= max_order_notional
    OBVIOUS
  <2>1. PICK risk \in RiskNotionals(r) :
          \/ Refused(r, risk) /\ Deny(d)
          \/ ~Refused(r, risk) /\ Admit(d, r)
    BY <1>1 DEF Decide
  <2>2. ~Deny(d)
    BY DEF Deny
  <2>3. ~Refused(r, risk) /\ Admit(d, r)
    BY <2>1, <2>2
  <2>4. c = d
    BY <1>1, <2>3 DEF Admit, Duplicate, Claim, IInv, TypeOK
  <2>5. ~IsHalted(ExchangeOf[r.session]) /\ ~BreachesCap(risk)
    BY <2>3 DEF Refused
  <2>6. \/ max_order_notional = None
        \/ r.notional = None
        \/ r.notional <= max_order_notional
    <3> SUFFICES ASSUME max_order_notional # None, r.notional # None
                 PROVE  r.notional <= max_order_notional
      OBVIOUS
    <3>1. risk = r.notional /\ risk # None
      BY DEF RiskNotionals
    <3>2. r.notional \in Nat /\ max_order_notional \in Nat
      BY <1>1 DEF IInv, TypeOK, Request
    <3> QED BY <2>5, <3>1, <3>2 DEF BreachesCap
  <2> QED BY <1>1, <2>4, <2>5, <2>6
<1>2. IInv /\ [Next]_vars => [\A c \in Calls : Fresh(c)]_vars
  <2> SUFFICES ASSUME IInv, Next, NEW c \in Calls PROVE Fresh(c)
    BY DEF vars, registry, safety, call, network
  <2>1. ASSUME NEW d \in Calls, NEW r \in Requests, PlacePaperOrder(d, r)
        PROVE  Fresh(c)
    <3>1. req'[d] = r
      BY <2>1 DEF PlacePaperOrder, Begin, IInv, TypeOK
    <3> QED BY <1>1, <2>1, <3>1 DEF PlacePaperOrder
  <2>2. ASSUME NEW d \in Calls, AdapterReady(d)
        PROVE  Fresh(c)
    <3>1. req[d] \in Requests /\ req'[d] = req[d]
      BY <2>2 DEF AdapterReady, IInv, TypeOK
    <3> QED BY <1>1, <2>2, <3>1 DEF AdapterReady
  <2>3. \/ \E d \in Calls, r \in Requests : PlacePaperOrder(d, r)
        \/ \E d \in Calls : AdapterReady(d)
        \/ UNCHANGED role
    BY DEF Next, CallStep, Venue, PlaceTestnetOrder, AdapterUnavailable,
           CreateOrderOk, CreateOrderRejected, TransientError, Retry,
           VenueBooks, VenueRefuses, RequestLost, EngageKillSwitch,
           ResetKillSwitch, SetRiskLimits, Restart, call
  <2> QED BY <2>1, <2>2, <2>3
<1> QED BY <1>2, Invariance, PTL DEF Spec, FreshSafetyCheck

-----------------------------------------------------------------------------
(* What CallsFinish rests on: the steps that a waiting call may still take  *)
(* of its own are numbered, and each of them, however the venue answers and *)
(* whatever else happens meanwhile, brings it nearer to its end; the        *)
(* attempts are used up by the retry loop and never given back.             *)
StepsLeft(where, tries) ==
  CASE where = "adapter"  -> 2 * MaxAttempts
    [] where = "awaiting" -> 2 * (MaxAttempts - tries) + 1
    [] where = "backoff"  -> 2 * (MaxAttempts - tries)
    [] OTHER              -> 0
CallsUseUpSteps ==
  [][\A c \in Calls :
       pc[c] \in Waiting =>
         /\ StepsLeft(pc[c], attempt[c]) \in 1 .. 2 * MaxAttempts
         /\ \/ pc'[c] = pc[c] /\ attempt'[c] = attempt[c]
            \/ StepsLeft(pc'[c], attempt'[c]) < StepsLeft(pc[c], attempt[c])]_vars

(* Every step of its own brings a waiting call nearer to its end, whatever  *)
(* the venue answers (ExchangeAdapter._call counts its attempts): what      *)
(* CallsFinish has beyond this is only that the step is taken.              *)
THEOREM CallsWearOut == Spec => CallsUseUpSteps
<1> DEFINE Left(c) == StepsLeft(pc[c], attempt[c])
           Stays(c) == pc'[c] = pc[c] /\ attempt'[c] = attempt[c]
           Wears(c) == pc[c] \in Waiting =>
                         /\ Left(c) \in 1 .. 2 * MaxAttempts
                         /\ \/ Stays(c)
                            \/ StepsLeft(pc'[c], attempt'[c]) < Left(c)
<1>1. ASSUME IInv, NEW c \in Calls, pc[c] \in Waiting
      PROVE  Left(c) \in 1 .. 2 * MaxAttempts
  <2>1. attempt[c] \in 0 .. MaxAttempts /\ MaxAttempts \in Nat \ {0}
    BY <1>1 DEF IInv, TypeOK
  <2>2. /\ pc[c] \in {"awaiting", "backoff"} => attempt[c] > 0
        /\ pc[c] = "backoff" => attempt[c] < MaxAttempts
    BY <1>1 DEF IInv, Phases
  <2> QED
    BY <1>1, <2>1, <2>2 DEF StepsLeft, Waiting
<1>2. ASSUME IInv, NEW c \in Calls, pc[c] \in Waiting, NEW d \in Calls,
             CallStep(d)
      PROVE  Stays(c) \/ StepsLeft(pc'[c], attempt'[c]) < Left(c)
  <2>1. /\ attempt[c] \in 0 .. MaxAttempts /\ MaxAttempts \in Nat \ {0}
        /\ DOMAIN pc = Calls /\ DOMAIN attempt = Calls
    BY <1>2 DEF IInv, TypeOK
  <2>2. Left(c) \in 1 .. 2 * MaxAttempts
    BY <1>1, <1>2
  <2>3. CASE c # d
    BY <1>2, <2>1, <2>3 DEF CallStep, AdapterReady, Decide, Deny, Admit, Duplicate, Claim,
       Invalid, Simulate, Route, AdapterUnavailable, CreateOrderOk, CreateOrderRejected,
       TransientError, Retry
  <2>4. CASE c = d /\ pc'[c] \in Done
    BY <2>2, <2>4 DEF StepsLeft, Done
  <2>5. CASE c = d /\ pc[c] = "adapter" /\ pc'[c] = "awaiting" /\ attempt'[c] = 1
    BY <2>1, <2>5 DEF StepsLeft
  <2>6. CASE c = d /\ pc[c] = "awaiting" /\ pc'[c] = "backoff" /\ attempt'[c] = attempt[c]
    BY <2>1, <2>6 DEF StepsLeft
  <2>7. CASE c = d /\ pc[c] = "backoff" /\ pc'[c] = "awaiting" /\ attempt'[c] = attempt[c] + 1
    BY <2>1, <2>7 DEF StepsLeft
  <2>8. CASE c = d /\ AdapterReady(c)
    <3>1. Decide(c, req[c]) /\ pc[c] = "adapter"
      BY <2>8 DEF AdapterReady
    <3>2. \/ pc'[c] \in Done
          \/ pc'[c] = "awaiting" /\ attempt'[c] = 1
      BY <2>1, <3>1 DEF Decide, Deny, Admit, Duplicate, Claim, Invalid, Simulate, Route, Done
    <3> QED
      BY <2>4, <2>5, <2>8, <3>1, <3>2
  <2>9. CASE c = d /\ ~AdapterReady(c)
    <3>1. \/ pc'[c] \in Done
          \/ pc[c] = "awaiting" /\ pc'[c] = "backoff" /\ attempt'[c] = attempt[c]
          \/ pc[c] = "backoff" /\ pc'[c] = "awaiting" /\ attempt'[c] = attempt[c] + 1
      BY <1>2, <2>1, <2>9 DEF CallStep, AdapterUnavailable, CreateOrderOk,
         CreateOrderRejected, TransientError, Retry, Done
    <3> QED
      BY <2>4, <2>6, <2>7, <2>9, <3>1
  <2> QED
    BY <2>3, <2>8, <2>9
<1>3. IInv /\ [Next]_vars => [\A c \in Calls : Wears(c)]_vars
  <2> SUFFICES ASSUME IInv, Next, NEW c \in Calls, pc[c] \in Waiting
               PROVE  /\ Left(c) \in 1 .. 2 * MaxAttempts
                      /\ \/ Stays(c)
                         \/ StepsLeft(pc'[c], attempt'[c]) < Left(c)
    OBVIOUS
  <2>1. Left(c) \in 1 .. 2 * MaxAttempts
    BY <1>1
  <2>2. ASSUME NEW d \in Calls, NEW r \in Requests,
               PlacePaperOrder(d, r) \/ PlaceTestnetOrder(d, r)
        PROVE  Stays(c)
    <3>1. pc[d] = "idle" /\ c # d
      BY <2>2 DEF PlacePaperOrder, PlaceTestnetOrder, Begin, Waiting
    <3> QED
      BY <2>2, <3>1 DEF PlacePaperOrder, PlaceTestnetOrder, Decide, Deny, Admit, Duplicate,
         Claim, Invalid, Simulate, Route, IInv, TypeOK
  <2>3. ASSUME Restart PROVE StepsLeft(pc'[c], attempt'[c]) < Left(c)
    <3>1. pc'[c] = "dead"
      BY <2>3 DEF Restart, IInv, TypeOK
    <3>2. StepsLeft("dead", attempt'[c]) = 0
      BY DEF StepsLeft
    <3> QED
      BY <2>1, <3>1, <3>2
  <2>4. \/ \E d \in Calls, r \in Requests : PlacePaperOrder(d, r) \/ PlaceTestnetOrder(d, r)
        \/ \E d \in Calls : CallStep(d)
        \/ Restart
        \/ UNCHANGED <<pc, attempt>>
    BY DEF Next, Venue, VenueBooks, VenueRefuses, RequestLost, EngageKillSwitch,
       ResetKillSwitch, SetRiskLimits, call
  <2> QED
    BY <1>2, <2>1, <2>2, <2>3, <2>4
<1> QED
  BY <1>3, Invariance, PTL DEF Spec, CallsUseUpSteps
=============================================================================
