------------------------ MODULE ExchangeGatewayProofs ------------------------
(* Proofs about ExchangeGateway, for any exchanges, callers and bounds.     *)
(*                                                                         *)
(* SentAsAsked is made inductive by what ties an adapter to its key: it is  *)
(* in sandbox mode exactly if its key says so, because create refuses the   *)
(* testnet of an exchange without a sandbox (Registry); and a call that is  *)
(* under way has a request of its own among those sent, so that a retry     *)
(* sends nothing that was not sent before (Requests).  CachedOrTaken is     *)
(* inductive with the types of adapters, cache and gathers, because the     *)
(* adapters that aclose_all takes are in the cache and leave it in the same *)
(* step.                                                                   *)
EXTENDS ExchangeGateway, SequenceTheorems, TLAPS

AdaptersOfKeys ==
  \A i \in DOMAIN adapters :
    /\ adapters[i].sandbox = adapters[i].key[2]
    /\ adapters[i].trade = (adapters[i].key[1] \in TradeKeys)

Registry ==
  /\ adapters \in Seq(Adapter)
  /\ cached \in [Keys -> 0 .. Len(adapters)]
  /\ gathers \subseteq SUBSET (1 .. Len(adapters))
  /\ AdaptersOfKeys /\ CachedOrTaken

RequestOf(c) == [asked |-> call[c].key, op |-> call[c].op, adapter |-> call[c].adapter]

(* What was sent went through the adapter of the key, past the gate, and    *)
(* for trading to the testnet; a call under way has sent its request.       *)
Requests ==
  /\ \A r \in sent :
       /\ adapters[r.adapter].key = r.asked
       /\ r.op = "trade" => r.asked[2] = TRUE /\ r.asked[1] \in TradeKeys
  /\ \A c \in Callers : call[c].pc \in {"request", "sleep"} => RequestOf(c) \in sent

IInv == TypeOK /\ Registry /\ Requests

-----------------------------------------------------------------------------
(* The adapters and the cache.                                             *)

(* At first nothing is cached, asked for or watched.                       *)
LEMMA InitInv == Init => IInv
<1> SUFFICES ASSUME Init PROVE IInv
  OBVIOUS
<1>1. adapters = << >> /\ Len(adapters) = 0 /\ adapters \in Seq(Adapter)
  BY DEF Init
<1>2. cached \in [Keys -> 0 .. Len(adapters)] /\ \A k \in Keys : cached[k] = 0
  BY <1>1 DEF Init
<1>3. NoCall \in CallState /\ NoWatch \in WatchState
  BY <1>1, GatewayAssumption DEF NoCall, NoWatch, CallState, WatchState
<1>4. call \in [Callers -> CallState] /\ watch \in WatchState
  BY <1>3 DEF Init
<1>5. TypeOK
  <2>0. gathers = {}
    BY DEF Init
  <2>1. 1 \in 1 .. MaxCandles /\ 0 \in 0 .. MaxCandles /\ 0 \in 0 .. MaxCalls
    BY GatewayAssumption
  <2>2. sent = {} /\ calls = 0 /\ head = 1 /\ hollow = FALSE /\ fed = 0
    BY DEF Init
  <2>3. \A c \in Callers : call[c].pc = "idle"
    BY DEF Init, NoCall
  <2>4. watch.rows = << >> /\ watch.pc = "off"
    BY DEF Init, NoWatch
  <2> QED
    BY <1>1, <1>2, <1>4, <2>0, <2>1, <2>2, <2>3, <2>4 DEF TypeOK
<1>6. Registry
  BY <1>1, <1>2 DEF Init, Registry, AdaptersOfKeys, CachedOrTaken
<1>7. Requests
  BY DEF Init, Requests, NoCall
<1> QED
  BY <1>5, <1>6, <1>7 DEF IInv

(* A cached adapter is open, has the key it is cached under, and no         *)
(* aclose_all has taken it.                                                *)
LEMMA CachedAreOpen ==
  ASSUME Registry, NEW k \in Keys, cached[k] # 0
  PROVE  /\ cached[k] \in DOMAIN adapters
         /\ adapters[cached[k]].key = k
         /\ adapters[cached[k]].state = "open" /\ ~BeingClosed(cached[k])
<1>1. cached[k] \in DOMAIN adapters
  BY DEF Registry
<1>2. adapters[cached[k]].key = k
  BY <1>1 DEF Registry, CachedOrTaken
<1> QED
  BY <1>1, <1>2 DEF Registry, CachedOrTaken

(* manager.get gives an open adapter of the key that was asked for.         *)
LEMMA GetStep ==
  ASSUME Registry, NEW k \in Keys, Creatable(k), Get(k), gathers' = gathers
  PROVE  /\ Registry'
         /\ Len(adapters) <= Len(adapters')
         /\ \A i \in DOMAIN adapters : adapters'[i] = adapters[i]
         /\ Resolved(k) \in 1 .. Len(adapters')
         /\ adapters'[Resolved(k)].key = k
<1>1. CASE cached[k] # 0
  <2>1. Registry' /\ UNCHANGED adapters /\ Resolved(k) = cached[k]
    BY <1>1 DEF Get, Resolved, Registry, AdaptersOfKeys, CachedOrTaken, BeingClosed
  <2> QED
    BY <1>1, <2>1, CachedAreOpen DEF Registry
<1>2. CASE cached[k] = 0
  <2> DEFINE n == Len(adapters) + 1
  <2>1. /\ adapters' = Append(adapters, Created(k))
        /\ cached' = [cached EXCEPT ![k] = n]
        /\ Resolved(k) = n
    BY <1>2 DEF Get, Resolved
  <2>2. /\ Created(k) \in Adapter
        /\ Created(k).key = k /\ Created(k).sandbox = k[2]
        /\ Created(k).trade = (k[1] \in TradeKeys)
        /\ Created(k).state = "open"
    BY DEF Created, Adapter, Creatable, Keys
  <2>3. adapters \in Seq(Adapter) /\ Len(adapters) \in Nat
    BY DEF Registry
  <2> HIDE DEF Created
  <2>4. /\ adapters' \in Seq(Adapter) /\ Len(adapters') = n
        /\ \A i \in DOMAIN adapters : adapters'[i] = adapters[i]
        /\ adapters'[n] = Created(k)
        /\ DOMAIN adapters' = DOMAIN adapters \cup {n}
        /\ n \notin DOMAIN adapters
    BY <2>1, <2>2, <2>3
  <2> HIDE DEF n
  <2>5. n \in Nat \ {0} /\ Len(adapters) <= n
    BY <2>3 DEF n
  <2>6. /\ cached' \in [Keys -> 0 .. Len(adapters')]
        /\ cached'[k] = n
        /\ \A x \in Keys \ {k} : cached'[x] = cached[x] /\ cached[x] # n
    BY <2>1, <2>3, <2>4, <2>5 DEF Registry, n
  <2>7. /\ gathers' \subseteq SUBSET (1 .. Len(adapters'))
        /\ \A g \in gathers' : n \notin g
        /\ \A i : BeingClosed(i)' = BeingClosed(i)
    BY <2>3, <2>4, <2>5 DEF Registry, BeingClosed, n
  <2>8. AdaptersOfKeys'
    BY <2>2, <2>4 DEF Registry, AdaptersOfKeys
  <2>9. CachedOrTaken'
    <3> SUFFICES ASSUME NEW i \in DOMAIN adapters'
                 PROVE  /\ adapters'[i].state = "open" /\ ~BeingClosed(i)'
                             <=> cached'[adapters'[i].key] = i
                        /\ adapters'[i].state = "closing" => BeingClosed(i)'
                        /\ adapters'[i].state \in {"closed", "left"} => ~BeingClosed(i)'
                        /\ \A x \in Keys \ {adapters'[i].key} : cached'[x] # i
                        /\ \A g, h \in gathers' : i \in g \cap h => g = h
      BY DEF CachedOrTaken
    <3>1. CASE i = n
      <4>1. ~BeingClosed(i)'
        BY <3>1, <2>7 DEF BeingClosed
      <4> QED
        BY <3>1, <4>1, <2>2, <2>4, <2>6, <2>7
    <3>2. CASE i # n
      <4>1. i \in DOMAIN adapters /\ adapters'[i] = adapters[i]
        BY <3>2, <2>4
      <4>2. adapters[i].key \in Keys
        <5>1. adapters[i] \in Adapter
          BY <4>1, <2>3
        <5> QED
          BY <5>1 DEF Adapter
      <4>3. cached'[adapters[i].key] = i <=> cached[adapters[i].key] = i
        BY <4>1, <4>2, <1>2, <2>3, <2>6, <3>2
      <4>4. \A x \in Keys \ {adapters[i].key} : cached'[x] # i
        BY <4>1, <2>6, <3>2 DEF Registry, CachedOrTaken
      <4> QED
        BY <4>1, <4>3, <4>4, <2>7 DEF Registry, CachedOrTaken
    <3> QED
      BY <3>1, <3>2
  <2>10. Registry'
    BY <2>4, <2>6, <2>7, <2>8, <2>9 DEF Registry
  <2> QED
    BY <2>1, <2>2, <2>4, <2>5, <2>10
<1> QED
  BY <1>1, <1>2

(* aclose_all takes what is in the cache, and nothing that was taken before.*)
LEMMA TakingStep ==
  ASSUME Registry, AcloseAll
  PROVE  Registry'
<1> DEFINE taken == {cached[k] : k \in Keys} \ {0}
<1>1. /\ gathers' = gathers \cup {taken} /\ cached' = [k \in Keys |-> 0]
      /\ adapters' = adapters
  BY DEF AcloseAll, Emptied
<1>2. taken \subseteq 1 .. Len(adapters)
  BY DEF Registry
<1>3. \A i \in taken : ~BeingClosed(i)
  BY CachedAreOpen
<1>4. \A i \in DOMAIN adapters : adapters[i].key \in Keys /\ i # 0
  <2>1. \A i \in DOMAIN adapters : adapters[i] \in Adapter /\ i \in Nat \ {0}
    BY DEF Registry
  <2> QED
    BY <2>1 DEF Adapter
<1>5. \A i \in DOMAIN adapters :
        /\ BeingClosed(i)' <=> BeingClosed(i) \/ i \in taken
        /\ i \in taken => adapters[i].state = "open"
        /\ adapters[i].state = "open" /\ ~BeingClosed(i) => i \in taken
  <2>1. \A i \in DOMAIN adapters : BeingClosed(i)' <=> BeingClosed(i) \/ i \in taken
    BY <1>1 DEF BeingClosed
  <2>2. \A i \in DOMAIN adapters : i \in taken => adapters[i].state = "open"
    BY CachedAreOpen
  <2>3. \A i \in DOMAIN adapters :
          adapters[i].state = "open" /\ ~BeingClosed(i) => i \in taken
    BY <1>4 DEF Registry, CachedOrTaken
  <2> QED
    BY <2>1, <2>2, <2>3
<1> HIDE DEF taken
<1>6. CachedOrTaken'
  <2> SUFFICES ASSUME NEW i \in DOMAIN adapters
               PROVE  /\ adapters[i].state = "open" /\ ~BeingClosed(i)'
                           <=> cached'[adapters[i].key] = i
                      /\ adapters[i].state = "closing" => BeingClosed(i)'
                      /\ adapters[i].state \in {"closed", "left"} => ~BeingClosed(i)'
                      /\ \A x \in Keys \ {adapters[i].key} : cached'[x] # i
                      /\ \A g, h \in gathers' : i \in g \cap h => g = h
    BY <1>1 DEF CachedOrTaken
  <2>1. \A g, h \in gathers' : i \in g \cap h => g = h
    <3>1. i \in taken => \A g \in gathers : i \notin g
      BY <1>3 DEF BeingClosed
    <3>2. \A g, h \in gathers : i \in g \cap h => g = h
      BY DEF Registry, CachedOrTaken
    <3> QED
      BY <1>1, <3>1, <3>2
  <2>2. /\ adapters[i].state = "closing" => BeingClosed(i)
        /\ adapters[i].state \in {"closed", "left"} => ~BeingClosed(i)
    BY DEF Registry, CachedOrTaken
  <2> QED
    BY <1>1, <1>4, <1>5, <2>1, <2>2
<1> QED
  BY <1>1, <1>2, <1>6 DEF Registry, AdaptersOfKeys

(* Adapters change their state, and nothing else.                          *)
LEMMA StatesMove ==
  ASSUME Registry, NEW those, NEW x \in {"closing", "closed", "left"},
         adapters' = InState(those, x)
  PROVE  /\ adapters' \in Seq(Adapter)
         /\ Len(adapters') = Len(adapters) /\ DOMAIN adapters' = DOMAIN adapters
         /\ \A i \in DOMAIN adapters :
              /\ adapters'[i].key = adapters[i].key /\ adapters[i].key \in Keys
              /\ adapters'[i].sandbox = adapters[i].sandbox
              /\ adapters'[i].trade = adapters[i].trade
              /\ adapters'[i].state = IF i \in those THEN x ELSE adapters[i].state
<1>1. \A a \in Adapter : LET b == [a EXCEPT !.state = x]
                         IN /\ b \in Adapter /\ b.state = x
                            /\ b.key = a.key /\ b.sandbox = a.sandbox /\ b.trade = a.trade
  BY DEF Adapter
<1>2. \A i \in DOMAIN adapters : adapters[i] \in Adapter
  BY DEF Registry
<1>3. DOMAIN adapters = 1 .. Len(adapters) /\ Len(adapters) \in Nat
  BY DEF Registry
<1>4. \A i \in DOMAIN adapters :
        adapters'[i] = IF i \in those THEN [adapters[i] EXCEPT !.state = x] ELSE adapters[i]
  BY DEF InState
<1>5. adapters' \in [1 .. Len(adapters) -> Adapter]
  BY <1>1, <1>2, <1>3, <1>4 DEF InState
<1>6. adapters' \in Seq(Adapter) /\ Len(adapters') = Len(adapters)
  BY <1>3, <1>5
<1>7. \A i \in DOMAIN adapters : adapters[i].key \in Keys
  BY <1>2 DEF Adapter
<1>8. ASSUME NEW i \in DOMAIN adapters
      PROVE  /\ adapters'[i].key = adapters[i].key
             /\ adapters'[i].sandbox = adapters[i].sandbox
             /\ adapters'[i].trade = adapters[i].trade
             /\ adapters'[i].state = IF i \in those THEN x ELSE adapters[i].state
  <2>1. CASE i \in those
    BY <1>1, <1>2, <1>4, <2>1
  <2>2. CASE i \notin those
    BY <1>4, <2>2
  <2> QED
    BY <2>1, <2>2
<1> QED
  BY <1>3, <1>6, <1>7, <1>8

(* What is closing, or left, is not in the cache, and only what an          *)
(* aclose_all has taken becomes so.                                        *)
LEMMA ClosingStep ==
  ASSUME Registry,
         \/ \E g \in gathers : ClosingsBegin(g) \/ AcloseAllCancelled(g)
         \/ \E i \in DOMAIN adapters : ClosingEnds(i)
  PROVE  /\ Registry'
         /\ Len(adapters') = Len(adapters)
         /\ \A i \in DOMAIN adapters : adapters'[i].key = adapters[i].key
<1> DEFINE Goal == /\ Registry'
                   /\ Len(adapters') = Len(adapters)
                   /\ \A i \in DOMAIN adapters : adapters'[i].key = adapters[i].key
<1>1. ASSUME NEW those \in SUBSET (1 .. Len(adapters)),
             NEW x \in {"closing", "closed", "left"},
             adapters' = InState(those, x), cached' = cached,
             gathers' \subseteq SUBSET (1 .. Len(adapters)),
             \A i \in those : BeingClosed(i) /\ (BeingClosed(i)' <=> x = "closing"),
             \A i \in DOMAIN adapters \ those : BeingClosed(i)' <=> BeingClosed(i),
             \A g, h \in gathers' : \A i \in g \cap h : g = h
      PROVE  Goal
  <2>1. CachedOrTaken'
    <3> SUFFICES ASSUME NEW i \in DOMAIN adapters
                 PROVE  /\ adapters'[i].state = "open" /\ ~BeingClosed(i)'
                             <=> cached[adapters[i].key] = i
                        /\ adapters'[i].state = "closing" => BeingClosed(i)'
                        /\ adapters'[i].state \in {"closed", "left"} => ~BeingClosed(i)'
                        /\ \A y \in Keys \ {adapters[i].key} : cached[y] # i
                        /\ \A g, h \in gathers' : i \in g \cap h => g = h
      BY <1>1, StatesMove DEF CachedOrTaken
    <3>1. /\ adapters[i].state = "open" /\ ~BeingClosed(i) <=> cached[adapters[i].key] = i
          /\ adapters[i].state = "closing" => BeingClosed(i)
          /\ adapters[i].state \in {"closed", "left"} => ~BeingClosed(i)
          /\ \A y \in Keys \ {adapters[i].key} : cached[y] # i
      BY DEF Registry, CachedOrTaken
    <3>2. adapters'[i].state = IF i \in those THEN x ELSE adapters[i].state
      BY <1>1, StatesMove
    <3> QED
      BY <1>1, <3>1, <3>2
  <2>2. AdaptersOfKeys'
    BY <1>1, StatesMove DEF Registry, AdaptersOfKeys
  <2> QED
    BY <1>1, <2>1, <2>2, StatesMove DEF Registry
<1>2. \A g, h \in gathers : \A i \in g \cap h : g = h
  BY DEF Registry, CachedOrTaken
<1>3. \A g \in gathers : g \in SUBSET (1 .. Len(adapters)) /\ \A i \in g : BeingClosed(i)
  BY DEF Registry, BeingClosed
<1>4. ASSUME NEW g \in gathers, ClosingsBegin(g)
      PROVE  Goal
  <2>1. adapters' = InState(g, "closing") /\ cached' = cached /\ gathers' = gathers
    BY <1>4 DEF ClosingsBegin
  <2>2. \A i : BeingClosed(i)' <=> BeingClosed(i)
    BY <2>1 DEF BeingClosed
  <2> QED
    BY <1>1, <1>2, <1>3, <2>1, <2>2 DEF Registry
<1>5. ASSUME NEW g \in gathers, AcloseAllCancelled(g)
      PROVE  Goal
  <2>1. adapters' = InState(g, "left") /\ cached' = cached /\ gathers' = gathers \ {g}
    BY <1>5 DEF AcloseAllCancelled
  <2>2. \A i \in g : ~BeingClosed(i)'
    BY <1>2, <2>1 DEF BeingClosed
  <2>3. \A i \in DOMAIN adapters \ g : BeingClosed(i)' <=> BeingClosed(i)
    BY <2>1 DEF BeingClosed
  <2> QED
    BY <1>1, <1>2, <1>3, <2>1, <2>2, <2>3 DEF Registry
<1>6. ASSUME NEW j \in DOMAIN adapters, ClosingEnds(j)
      PROVE  Goal
  <2>1. /\ adapters' = InState({j}, "closed") /\ cached' = cached
        /\ gathers' = {g \ {j} : g \in gathers} \ {{}}
        /\ adapters[j].state = "closing"
    BY <1>6 DEF ClosingEnds
  <2>2. BeingClosed(j) /\ ~BeingClosed(j)'
    BY <2>1 DEF BeingClosed, Registry, CachedOrTaken
  <2>3. /\ \A g \in gathers : \A i \in g \ {j} : g \ {j} \in gathers'
        /\ \A h \in gathers' : \E g \in gathers : h = g \ {j}
    <3>1. ASSUME NEW g \in gathers, NEW i \in g \ {j}
          PROVE  g \ {j} \in gathers'
      <4>1. g \ {j} # {}
        OBVIOUS
      <4> QED
        BY <2>1, <4>1
    <3>2. \A h \in gathers' : \E g \in gathers : h = g \ {j}
      BY <2>1
    <3> QED
      BY <3>1, <3>2
  <2>4. \A i \in DOMAIN adapters \ {j} : BeingClosed(i)' <=> BeingClosed(i)
    <3> SUFFICES ASSUME NEW i \in DOMAIN adapters \ {j}
                 PROVE  (\E h \in gathers' : i \in h) <=> (\E g \in gathers : i \in g)
      BY DEF BeingClosed
    <3>1. ASSUME NEW g \in gathers, i \in g
          PROVE  \E h \in gathers' : i \in h
      <4>1. g \ {j} \in gathers' /\ i \in g \ {j}
        BY <2>3, <3>1
      <4> QED
        BY <4>1
    <3>2. ASSUME NEW h \in gathers', i \in h
          PROVE  \E g \in gathers : i \in g
      <4>1. PICK g \in gathers : h = g \ {j}
        BY <2>3
      <4> QED
        BY <3>2, <4>1
    <3> QED
      BY <3>1, <3>2
  <2>5. gathers' \subseteq SUBSET (1 .. Len(adapters))
    BY <1>3, <2>3
  <2>6. \A g, h \in gathers' : \A i \in g \cap h : g = h
    <3> SUFFICES ASSUME NEW g \in gathers', NEW h \in gathers', NEW i \in g \cap h
                 PROVE  g = h
      OBVIOUS
    <3>1. PICK a \in gathers : g = a \ {j}
      BY <2>3
    <3>2. PICK b \in gathers : h = b \ {j}
      BY <2>3
    <3>3. i \in a \cap b
      BY <3>1, <3>2
    <3>4. a = b
      BY <1>2, <3>3
    <3> QED
      BY <3>1, <3>2, <3>4
  <2>7. {j} \in SUBSET (1 .. Len(adapters))
    BY DEF Registry
  <2> QED
    <3>1. \A i \in {j} : BeingClosed(i) /\ (BeingClosed(i)' <=> "closed" = "closing")
      BY <2>2
    <3> QED
      BY <1>1, <2>1, <2>4, <2>5, <2>6, <2>7, <3>1
<1> QED
  BY <1>4, <1>5, <1>6

(* No step takes an adapter away, or changes its key.                       *)
LEMMA RegistryStep ==
  ASSUME Registry, [Next]_vars
  PROVE  /\ Registry'
         /\ Len(adapters) <= Len(adapters')
         /\ \A i \in DOMAIN adapters : adapters'[i].key = adapters[i].key
<1> DEFINE Goal == /\ Registry'
                   /\ Len(adapters) <= Len(adapters')
                   /\ \A i \in DOMAIN adapters : adapters'[i].key = adapters[i].key
<1>1. ASSUME UNCHANGED <<adapters, cached, gathers>>
      PROVE  Goal
  BY <1>1 DEF Registry, AdaptersOfKeys, CachedOrTaken, BeingClosed
<1>2. ASSUME NEW k \in Keys, Creatable(k), Get(k), gathers' = gathers
      PROVE  Goal
  BY <1>2, GetStep
<1>3. ASSUME NEW c \in Callers, NEW k \in Keys, NEW op, Call(c, k, op)
      PROVE  Goal
  BY <1>1, <1>2, <1>3 DEF Call
<1>4. ASSUME NEW x \in Exchanges, StartWatch(x)
      PROVE  Goal
  <2>1. <<x, TRUE>> \in Keys
    BY DEF Keys
  <2> QED
    BY <2>1, <1>2, <1>4 DEF StartWatch
<1>5. ASSUME NEW c \in Callers, NEW x \in Exchanges,
             GetMarketData(c, x) \/ TradeOnTestnet(c, x)
      PROVE  Goal
  <2>1. <<x, TRUE>> \in Keys /\ <<x, FALSE>> \in Keys
    BY DEF Keys
  <2> QED
    BY <2>1, <1>3, <1>5 DEF GetMarketData, TradeOnTestnet, PublicRead, PrivateOperation
<1>6. ASSUME NEW c \in Callers, NEW k \in Keys, ValidateCredentials(c, k)
      PROVE  Goal
  BY <1>3, <1>6 DEF ValidateCredentials
<1>7. ASSUME \/ AcloseAll
             \/ \E g \in gathers : ClosingsBegin(g) \/ AcloseAllCancelled(g)
             \/ \E i \in DOMAIN adapters : ClosingEnds(i)
      PROVE  Goal
  <2>1. Len(adapters) \in Nat
    BY DEF Registry
  <2>2. AcloseAll => adapters' = adapters
    BY DEF AcloseAll
  <2> QED
    BY <2>1, <2>2, <1>7, TakingStep, ClosingStep
<1>8. ASSUME NEW c \in Callers,
             Succeeds(c) \/ FailsForGood(c) \/ FailsForNow(c) \/ Retries(c)
      PROVE  Goal
  BY <1>1, <1>8 DEF Succeeds, FailsForGood, FailsForNow, Retries, Answered
<1>9. ASSUME Update \/ TakeRow \/ WatchFailsForNow \/ Reconnects \/ WatchEnds \/ Candle
      PROVE  Goal
  BY <1>1, <1>9 DEF Update, TakeRow, WatchFailsForNow, Reconnects, WatchEnds, Candle
<1>10. ASSUME UNCHANGED vars
       PROVE  Goal
  BY <1>1, <1>10 DEF vars
<1> QED
  BY <1>4, <1>5, <1>6, <1>7, <1>8, <1>9, <1>10 DEF Next

-----------------------------------------------------------------------------
(* The calls.                                                              *)

CallsTyped ==
  /\ sent \subseteq [asked : Keys, op : Ops, adapter : 1 .. Len(adapters)]
  /\ call \in [Callers -> CallState]
  /\ \A c \in Callers :
       /\ call[c].pc \in {"request", "sleep"} => call[c].adapter # 0
       /\ call[c].pc = "sleep" => call[c].attempts < MaxRetries
  /\ calls \in 0 .. MaxCalls

(* What a call holds stays good when adapters are added.                    *)
LEMMA TypesGrow ==
  ASSUME Registry, Len(adapters) <= Len(adapters'), Len(adapters') \in Nat
  PROVE  /\ \A x \in CallState : x \in CallState'
         /\ \A x \in WatchState : x \in WatchState'
         /\ \A r \in [asked : Keys, op : Ops, adapter : 1 .. Len(adapters)] :
              r \in [asked : Keys, op : Ops, adapter : 1 .. Len(adapters')]
<1>1. Len(adapters) \in Nat
  BY DEF Registry
<1> QED
  BY <1>1 DEF CallState, WatchState

(* An adapter keeps its place: what refers to one goes on referring to it. *)
LEMMA AddressesStay ==
  ASSUME Registry, CallsTyped, [Next]_vars
  PROVE  /\ \A x \in CallState : x \in CallState'
         /\ \A r \in sent :
              /\ r \in [asked : Keys, op : Ops, adapter : 1 .. Len(adapters')]
              /\ adapters'[r.adapter].key = adapters[r.adapter].key
<1>1. /\ Len(adapters) <= Len(adapters') /\ Len(adapters') \in Nat
      /\ \A i \in DOMAIN adapters : adapters'[i].key = adapters[i].key
  BY RegistryStep DEF Registry
<1>2. \A r \in sent : r.adapter \in DOMAIN adapters
  BY DEF CallsTyped, Registry
<1>3. \A r \in sent : r \in [asked : Keys, op : Ops, adapter : 1 .. Len(adapters')]
  BY <1>1, TypesGrow DEF CallsTyped
<1> QED
  BY <1>1, <1>2, <1>3, TypesGrow

(* A step that gives one call another state, and sends nothing.             *)
LEMMA CallChanged ==
  ASSUME Registry, CallsTyped, Requests, [Next]_vars,
         NEW c \in Callers, NEW x \in CallState',
         call' = [call EXCEPT ![c] = x], sent' = sent, calls' \in 0 .. MaxCalls,
         x.pc \in {"request", "sleep"} =>
           /\ call[c].pc \in {"request", "sleep"}
           /\ x.key = call[c].key /\ x.op = call[c].op /\ x.adapter = call[c].adapter,
         x.pc = "sleep" => x.attempts < MaxRetries
  PROVE  CallsTyped' /\ Requests'
<1>1. call' \in [Callers -> CallState'] /\ call'[c] = x
      /\ \A d \in Callers \ {c} : call'[d] = call[d]
  BY AddressesStay DEF CallsTyped
<1>2. \A d \in Callers : call'[d].pc \in {"request", "sleep"} =>
                            call'[d].adapter # 0 /\ RequestOf(d)' \in sent'
  BY <1>1 DEF CallsTyped, Requests, RequestOf
<1>3. \A d \in Callers : call'[d].pc = "sleep" => call'[d].attempts < MaxRetries
  BY <1>1 DEF CallsTyped
<1>4. CallsTyped'
  BY <1>1, <1>2, <1>3, AddressesStay DEF CallsTyped
<1>5. Requests'
  BY <1>2, AddressesStay DEF Requests
<1> QED
  BY <1>4, <1>5

(* A tool call; a trade is asked of the testnet.                            *)
LEMMA CallMade ==
  ASSUME Registry, CallsTyped, Requests, [Next]_vars,
         NEW c \in Callers, NEW k \in Keys, NEW op \in Ops,
         op = "trade" => k[2] = TRUE, Call(c, k, op)
  PROVE  CallsTyped' /\ Requests'
<1>1. calls' \in 0 .. MaxCalls
  BY GatewayAssumption DEF Call, CallsTyped
<1>2. CASE Refused(k, op) # None
  <2> DEFINE x == [NoCall EXCEPT !.pc = "done", !.answer = Refused(k, op)]
  <2>1. Refused(k, op) \in {"not_supported", "scope", "unconfigured"}
    BY <1>2 DEF Refused
  <2>2. Len(adapters') \in Nat
    BY RegistryStep DEF Registry
  <2>3. x \in CallState' /\ x.pc = "done"
    <3>1. NoCall \in CallState'
      BY <2>2, GatewayAssumption DEF NoCall, CallState
    <3> QED
      BY <2>1, <3>1 DEF CallState
  <2>4. call' = [call EXCEPT ![c] = x] /\ sent' = sent
    BY <1>2 DEF Call
  <2> HIDE DEF x
  <2> QED
    BY <1>1, <2>3, <2>4, CallChanged
<1>3. CASE Refused(k, op) = None
  <2> DEFINE x == [pc |-> "request", key |-> k, op |-> op, adapter |-> Resolved(k),
                   attempts |-> 1, answer |-> None]
             r == [asked |-> k, op |-> op, adapter |-> Resolved(k)]
  <2>1. Creatable(k) /\ InScope(k, op)
    <3>1. None \notin {"not_supported", "scope", "unconfigured"}
      BY GatewayAssumption
    <3> QED
      BY <1>3, <3>1 DEF Refused
  <2>2. /\ call' = [call EXCEPT ![c] = x] /\ sent' = sent \cup {r}
        /\ Get(k) /\ gathers' = gathers
    BY <1>3, <2>1 DEF Call
  <2>3. Resolved(k) \in 1 .. Len(adapters') /\ adapters'[Resolved(k)].key = k
    BY <2>1, <2>2, GetStep
  <2>4. x \in CallState' /\ x.pc = "request" /\ x.adapter # 0
    <3>1. 1 \in 0 .. MaxRetries
      BY GatewayAssumption
    <3>2. Len(adapters') \in Nat
      BY RegistryStep DEF Registry
    <3> QED
      BY <2>3, <3>1, <3>2 DEF CallState
  <2>5. r \in [asked : Keys, op : Ops, adapter : 1 .. Len(adapters')]
    BY <2>3
  <2>6. /\ adapters'[r.adapter].key = r.asked
        /\ r.op = "trade" => r.asked[2] = TRUE /\ r.asked[1] \in TradeKeys
    BY <2>1, <2>3 DEF InScope
  <2>7. r = [asked |-> x.key, op |-> x.op, adapter |-> x.adapter]
    OBVIOUS
  <2> HIDE DEF x, r
  <2>8. /\ call' \in [Callers -> CallState'] /\ call'[c] = x
        /\ \A d \in Callers \ {c} : call'[d] = call[d]
    BY <2>2, <2>4, AddressesStay DEF CallsTyped
  <2>9. CallsTyped'
    BY <1>1, <2>2, <2>4, <2>5, <2>8, AddressesStay DEF CallsTyped
  <2>10. \A d \in Callers : call'[d].pc \in {"request", "sleep"} => RequestOf(d)' \in sent'
    BY <2>2, <2>7, <2>8 DEF RequestOf, Requests
  <2>11. \A y \in sent' :
           /\ adapters'[y.adapter].key = y.asked
           /\ y.op = "trade" => y.asked[2] = TRUE /\ y.asked[1] \in TradeKeys
    BY <2>2, <2>6, AddressesStay DEF Requests
  <2> QED
    BY <2>9, <2>10, <2>11 DEF Requests
<1> QED
  BY <1>2, <1>3

(* The calls and the requests they sent, over one step.                    *)
LEMMA CallsStep ==
  ASSUME Registry, CallsTyped, Requests, [Next]_vars
  PROVE  CallsTyped' /\ Requests'
<1>0. Len(adapters') \in Nat
  BY RegistryStep DEF Registry
<1>1. ASSUME UNCHANGED <<call, sent, calls>>
      PROVE  CallsTyped' /\ Requests'
  <2>1. call \in [Callers -> CallState']
    BY AddressesStay DEF CallsTyped
  <2>2. CallsTyped'
    BY <1>1, <2>1, AddressesStay DEF CallsTyped
  <2>3. Requests'
    BY <1>1, AddressesStay DEF Requests, RequestOf
  <2> QED
    BY <2>2, <2>3
<1>2. ASSUME NEW c \in Callers, NEW answer \in {"ok", "exchange", "network"},
             Answered(c, answer)
      PROVE  CallsTyped' /\ Requests'
  <2> DEFINE x == [NoCall EXCEPT !.pc = "done", !.answer = answer]
  <2>1. NoCall \in CallState'
    BY <1>0, GatewayAssumption DEF NoCall, CallState
  <2>2. x \in CallState' /\ x.pc = "done"
    BY <2>1 DEF CallState
  <2>3.. /\ call' = [call EXCEPT ![c] = x] /\ sent' = sent
        /\ calls' \in 0 .. MaxCalls
    BY <1>2 DEF Answered, CallsTyped
  <2> HIDE DEF x
  <2> QED
    BY <2>2, <2>3, CallChanged
<1>3. ASSUME NEW c \in Callers, NEW x \in Exchanges,
             GetMarketData(c, x) \/ TradeOnTestnet(c, x)
      PROVE  CallsTyped' /\ Requests'
  <2>1. <<x, TRUE>> \in Keys /\ <<x, FALSE>> \in Keys /\ <<x, TRUE>>[2] = TRUE
    BY DEF Keys
  <2>2. "public" \in Ops /\ "trade" \in Ops
    BY DEF Ops
  <2> QED
    BY <2>1, <2>2, <1>3, CallMade
       DEF GetMarketData, TradeOnTestnet, PublicRead, PrivateOperation
<1>4. ASSUME NEW c \in Callers, NEW k \in Keys, ValidateCredentials(c, k)
      PROVE  CallsTyped' /\ Requests'
  <2>1. "credentials" \in Ops
    BY DEF Ops
  <2> QED
    BY <2>1, <1>4, CallMade DEF ValidateCredentials
<1>5. ASSUME NEW c \in Callers, Succeeds(c) \/ FailsForGood(c)
      PROVE  CallsTyped' /\ Requests'
  BY <1>2, <1>5 DEF Succeeds, FailsForGood
<1>6. ASSUME NEW c \in Callers, FailsForNow(c)
      PROVE  CallsTyped' /\ Requests'
  <2>1. CASE LastTry(call[c].attempts)
    BY <1>2, <1>6, <2>1 DEF FailsForNow
  <2>2. CASE ~LastTry(call[c].attempts)
    <3> DEFINE x == [call[c] EXCEPT !.pc = "sleep"]
    <3>1. call[c] \in CallState' /\ call[c].pc = "request"
      BY <1>6, AddressesStay DEF CallsTyped, FailsForNow
    <3>2. /\ x \in CallState' /\ x.pc = "sleep" /\ x.attempts = call[c].attempts
          /\ x.key = call[c].key /\ x.op = call[c].op /\ x.adapter = call[c].adapter
      BY <3>1 DEF CallState
    <3>3. x.attempts < MaxRetries
      BY <3>1, <3>2, <2>2, GatewayAssumption DEF LastTry, CallState
    <3>4. /\ call' = [call EXCEPT ![c] = x] /\ sent' = sent
          /\ calls' \in 0 .. MaxCalls
      BY <1>6, <2>2 DEF FailsForNow, CallsTyped
    <3> HIDE DEF x
    <3> QED
      BY <3>1, <3>2, <3>3, <3>4, CallChanged
  <2> QED
    BY <2>1, <2>2
<1>7. ASSUME NEW c \in Callers, Retries(c)
      PROVE  CallsTyped' /\ Requests'
  <2> DEFINE x == [call[c] EXCEPT !.pc = "request", !.attempts = @ + 1]
  <2>1. call[c] \in CallState' /\ call[c].pc = "sleep" /\ call[c].attempts < MaxRetries
    BY <1>7, AddressesStay DEF CallsTyped, Retries
  <2>2. call[c].attempts + 1 \in 0 .. MaxRetries
    BY <2>1, GatewayAssumption DEF CallState
  <2>3. /\ x \in CallState' /\ x.pc = "request"
        /\ x.key = call[c].key /\ x.op = call[c].op /\ x.adapter = call[c].adapter
    BY <2>1, <2>2 DEF CallState
  <2>4. RequestOf(c) \in sent
    BY <2>1 DEF Requests
  <2>5. /\ call' = [call EXCEPT ![c] = x] /\ sent' = sent
        /\ calls' \in 0 .. MaxCalls
    <3>1. call' = [call EXCEPT ![c] = x]
      BY <1>7 DEF Retries
    <3>2. sent' = sent \cup {RequestOf(c)} /\ calls' = calls
      BY <1>7 DEF Retries, RequestOf
    <3> QED
      BY <2>4, <3>1, <3>2 DEF CallsTyped
  <2> HIDE DEF x
  <2> QED
    BY <2>1, <2>3, <2>5, CallChanged
<1>8. ASSUME \/ \E x \in Exchanges : StartWatch(x)
             \/ AcloseAll
             \/ \E g \in gathers : ClosingsBegin(g) \/ AcloseAllCancelled(g)
             \/ \E i \in DOMAIN adapters : ClosingEnds(i)
             \/ Update \/ TakeRow \/ WatchFailsForNow \/ Reconnects
             \/ WatchEnds \/ Candle
      PROVE  CallsTyped' /\ Requests'
  BY <1>1, <1>8 DEF StartWatch, AcloseAll, ClosingsBegin, AcloseAllCancelled, ClosingEnds,
                    Update, TakeRow, WatchFailsForNow, Reconnects,
                    WatchEnds, Candle
<1>9. ASSUME UNCHANGED vars
      PROVE  CallsTyped' /\ Requests'
  BY <1>1, <1>9 DEF vars
<1> QED
  BY <1>3, <1>4, <1>5, <1>6, <1>7, <1>8, <1>9 DEF Next

-----------------------------------------------------------------------------
(* The watcher.                                                            *)

Watching ==
  /\ head \in 1 .. MaxCandles /\ hollow \in BOOLEAN /\ fed \in 0 .. MaxCandles
  /\ watch \in WatchState
  /\ (watch.rows # << >>) = (watch.pc = "rows")

(* The larger and the smaller of two.                                       *)
LEMMA MaxOfTwo ==
  ASSUME NEW a \in Int, NEW b \in Int
  PROVE  Max({a, b}) \in {a, b} /\ Max({a, b}) >= a /\ Max({a, b}) >= b
<1>1. \E x \in {a, b} : \A y \in {a, b} : x >= y
  OBVIOUS
<1> QED
  BY <1>1 DEF Max

(* The lesser of two numbers.                                              *)
LEMMA MinOfTwo ==
  ASSUME NEW a \in Int, NEW b \in Int
  PROVE  Min({a, b}) \in {a, b} /\ Min({a, b}) <= a /\ Min({a, b}) <= b
<1>1. \E x \in {a, b} : \A y \in {a, b} : x <= y
  OBVIOUS
<1> QED
  BY <1>1 DEF Min

(* The rows a watcher can use are rows.                                    *)
LEMMA RowsType ==
  ASSUME Watching
  PROVE  UsableRows \in Seq(1 .. MaxCandles)
<1> DEFINE first == Max({1, head - Window + 1})
           last  == IF hollow THEN head - 1 ELSE head
           n     == last - first + 1
<1>1. head \in 1 .. MaxCandles /\ Window \in Nat /\ MaxCandles \in Nat
  BY GatewayAssumption DEF Watching
<1>2. first \in Int /\ first >= 1
  <2>1. 1 \in Int /\ head - Window + 1 \in Int
    BY <1>1
  <2> QED
    BY <2>1, MaxOfTwo
<1>3. last \in Int /\ last <= MaxCandles
  BY <1>1
<1>4. UsableRows = [i \in 1 .. n |-> first + i - 1]
  BY DEF UsableRows
<1> HIDE DEF first, last
<1>5. \A i \in 1 .. n : first + i - 1 \in 1 .. MaxCandles
  BY <1>1, <1>2, <1>3
<1>6. CASE n \in Nat
  <2>1. UsableRows \in [1 .. n -> 1 .. MaxCandles]
    BY <1>4, <1>5
  <2> QED
    BY <2>1, <1>6, SeqDef
<1>7. CASE n < 0
  <2>1. 1 .. n = 1 .. 0
    BY <1>2, <1>3, <1>7
  <2>2. UsableRows \in [1 .. 0 -> 1 .. MaxCandles]
    BY <1>4, <1>5, <2>1
  <2> QED
    BY <2>2
<1> QED
  BY <1>2, <1>3, <1>6, <1>7

(* The watcher, over one step.                                             *)
LEMMA WatchStep ==
  ASSUME Registry, Watching, [Next]_vars
  PROVE  Watching'
<1>0. /\ Len(adapters') \in Nat /\ watch \in WatchState'
      /\ MaxBackoff \in Nat \ {0} /\ MaxCandles \in Nat \ {0}
  BY RegistryStep, TypesGrow, GatewayAssumption DEF Registry, Watching
<1>1. ASSUME UNCHANGED <<head, hollow, watch, fed>>
      PROVE  Watching'
  BY <1>0, <1>1 DEF Watching
<1>2. ASSUME NEW x \in Exchanges, StartWatch(x)
      PROVE  Watching'
  <2> DEFINE k == <<x, TRUE>>
             y == [NoWatch EXCEPT !.pc = "await", !.adapter = Resolved(k)]
  <2>1. k \in Keys
    BY DEF Keys
  <2>2. Resolved(k) \in 1 .. Len(adapters')
    BY <1>2, <2>1, GetStep DEF StartWatch
  <2> HIDE DEF k
  <2>3. NoWatch \in WatchState' /\ NoWatch.rows = << >>
    BY <1>0 DEF NoWatch, WatchState
  <2>4. y \in WatchState' /\ y.pc = "await" /\ y.rows = << >>
    <3>1. \A v \in WatchState' : \A i \in 0 .. Len(adapters') :
            LET w == [v EXCEPT !.pc = "await", !.adapter = i]
            IN w \in WatchState' /\ w.pc = "await" /\ w.rows = v.rows
      BY DEF WatchState
    <3>2. Resolved(k) \in 0 .. Len(adapters')
      BY <1>0, <2>2
    <3> QED
      BY <2>3, <3>1, <3>2
  <2>5. watch' = y /\ UNCHANGED <<head, hollow, fed>>
    BY <1>2 DEF StartWatch, k
  <2> HIDE DEF y
  <2> QED
    BY <2>4, <2>5 DEF Watching
<1>3. ASSUME Update
      PROVE  Watching'
  <2> DEFINE y == [watch EXCEPT !.pc = IF UsableRows = << >> THEN "await" ELSE "rows",
                                !.delay = 0, !.rows = UsableRows]
  <2>1. UsableRows \in Seq(1 .. MaxCandles)
    BY RowsType
  <2>2. y \in WatchState' /\ y.rows = UsableRows /\ (UsableRows # << >>) = (y.pc = "rows")
    <3> DEFINE t == IF UsableRows = << >> THEN "await" ELSE "rows"
    <3>1. t \in {"off", "await", "rows", "sleep"} /\ (UsableRows # << >>) = (t = "rows")
      OBVIOUS
    <3>2. 0 \in 0 .. MaxBackoff
      BY <1>0
    <3> HIDE DEF t
    <3>3. /\ [watch EXCEPT !.pc = t, !.delay = 0, !.rows = UsableRows] \in WatchState'
          /\ [watch EXCEPT !.pc = t, !.delay = 0, !.rows = UsableRows].rows = UsableRows
          /\ [watch EXCEPT !.pc = t, !.delay = 0, !.rows = UsableRows].pc = t
      BY <1>0, <2>1, <3>1, <3>2 DEF WatchState
    <3> QED
      BY <3>1, <3>3 DEF t
  <2>3. watch' = y /\ UNCHANGED <<head, hollow, fed>>
    BY <1>3 DEF Update
  <2> HIDE DEF y
  <2> QED
    BY <2>2, <2>3 DEF Watching
<1>4. ASSUME TakeRow
      PROVE  Watching'
  <2> DEFINE rest == Tail(watch.rows)
             y == [watch EXCEPT !.rows = rest,
                                !.pc = IF Len(watch.rows) > 1 THEN "rows" ELSE "await"]
  <2>1. watch.rows \in Seq(1 .. MaxCandles) /\ watch.rows # << >>
    BY <1>4 DEF TakeRow, Watching, WatchState
  <2>2. /\ Head(watch.rows) \in 1 .. MaxCandles
        /\ rest \in Seq(1 .. MaxCandles) /\ Len(rest) = Len(watch.rows) - 1
    BY <2>1, HeadTailProperties
  <2>3. (rest # << >>) = (Len(watch.rows) > 1)
    <3>1. (rest = << >>) = (Len(rest) = 0)
      BY <2>2, EmptySeq
    <3>2. Len(watch.rows) \in Nat /\ Len(rest) \in Nat
      BY <2>1, <2>2
    <3> HIDE DEF rest
    <3> QED
      BY <2>2, <3>1, <3>2
  <2> HIDE DEF rest
  <2>4. y \in WatchState' /\ y.rows = rest /\ (rest # << >>) = (y.pc = "rows")
    BY <1>0, <2>2, <2>3 DEF WatchState
  <2>5. watch' = y /\ fed' = Head(watch.rows) /\ UNCHANGED <<head, hollow>>
    BY <1>4 DEF TakeRow, rest
  <2>6. fed' \in 0 .. MaxCandles
    BY <1>0, <2>2, <2>5
  <2> HIDE DEF y
  <2> QED
    BY <2>4, <2>5, <2>6 DEF Watching
<1>5. ASSUME WatchFailsForNow
      PROVE  Watching'
  <2> DEFINE y == [watch EXCEPT !.pc = "sleep", !.delay = LongerDelay(@)]
  <2>1. watch.delay \in 0 .. MaxBackoff /\ watch.pc = "await"
    BY <1>5 DEF WatchFailsForNow, Watching, WatchState
  <2>2. LongerDelay(watch.delay) \in 0 .. MaxBackoff
    <3>1. 2 * watch.delay \in Nat
      BY <1>0, <2>1
    <3>2. /\ Min({2 * watch.delay, MaxBackoff}) \in {2 * watch.delay, MaxBackoff}
          /\ Min({2 * watch.delay, MaxBackoff}) <= MaxBackoff
      <4>1. 2 * watch.delay \in Int /\ MaxBackoff \in Int
        BY <1>0, <3>1
      <4> QED
        BY <4>1, MinOfTwo
    <3> QED
      BY <1>0, <3>1, <3>2 DEF LongerDelay
  <2>3. y \in WatchState' /\ y.pc = "sleep" /\ y.rows = watch.rows
    BY <1>0, <2>2 DEF WatchState
  <2>4. watch' = y /\ UNCHANGED <<head, hollow, fed>>
    BY <1>5 DEF WatchFailsForNow
  <2> HIDE DEF y
  <2> QED
    BY <2>1, <2>3, <2>4 DEF Watching
<1>6. ASSUME Reconnects
      PROVE  Watching'
  <2> DEFINE y == [watch EXCEPT !.pc = "await"]
  <2>1. y \in WatchState' /\ y.pc = "await" /\ y.rows = watch.rows
    BY <1>0 DEF WatchState
  <2>2. watch.pc = "sleep" /\ watch' = y /\ UNCHANGED <<head, hollow, fed>>
    BY <1>6 DEF Reconnects
  <2> HIDE DEF y
  <2> QED
    BY <2>1, <2>2 DEF Watching
<1>7. ASSUME WatchEnds
      PROVE  Watching'
  <2>1. NoWatch \in WatchState' /\ NoWatch.rows = << >> /\ NoWatch.pc = "off"
    BY <1>0 DEF NoWatch, WatchState
  <2> QED
    BY <1>0, <1>7, <2>1 DEF WatchEnds, Watching
<1>8. ASSUME Candle
      PROVE  Watching'
  <2>1. UNCHANGED <<watch, fed>>
    BY <1>8 DEF Candle
  <2>2. head' \in 1 .. MaxCandles
    BY <1>0, <1>8 DEF Candle, Watching
  <2>3. hollow' \in BOOLEAN
    BY <1>8 DEF Candle
  <2> QED
    BY <1>0, <2>1, <2>2, <2>3 DEF Watching
<1>9. ASSUME NEW c \in Callers,
             \/ \E x \in Exchanges : GetMarketData(c, x) \/ TradeOnTestnet(c, x)
             \/ \E k \in Keys : ValidateCredentials(c, k)
             \/ Succeeds(c) \/ FailsForGood(c) \/ FailsForNow(c) \/ Retries(c)
      PROVE  Watching'
  <2>1. ASSUME NEW k, NEW op, Call(c, k, op)
        PROVE  UNCHANGED <<head, hollow, watch, fed>>
    BY <2>1 DEF Call, market
  <2>2. ASSUME \/ \E x \in Exchanges : GetMarketData(c, x) \/ TradeOnTestnet(c, x)
               \/ \E k \in Keys : ValidateCredentials(c, k)
        PROVE  UNCHANGED <<head, hollow, watch, fed>>
    BY <2>1, <2>2 DEF GetMarketData, TradeOnTestnet, PublicRead, PrivateOperation,
                      ValidateCredentials
  <2>3. ASSUME Succeeds(c) \/ FailsForGood(c) \/ FailsForNow(c) \/ Retries(c)
        PROVE  UNCHANGED <<head, hollow, watch, fed>>
    BY <2>3 DEF Succeeds, FailsForGood, FailsForNow, Retries, Answered, market
  <2> QED
    BY <1>1, <1>9, <2>2, <2>3
<1>10. ASSUME \/ AcloseAll
              \/ \E g \in gathers : ClosingsBegin(g) \/ AcloseAllCancelled(g)
              \/ \E i \in DOMAIN adapters : ClosingEnds(i)
              \/ UNCHANGED vars
       PROVE  Watching'
  BY <1>1, <1>10 DEF AcloseAll, ClosingsBegin, AcloseAllCancelled, ClosingEnds, market, vars
<1> QED
  BY <1>2, <1>3, <1>4, <1>5, <1>6, <1>7, <1>8, <1>9, <1>10 DEF Next

-----------------------------------------------------------------------------
(* The inductive invariant holds throughout.                               *)
LEMMA Invariance == Spec => []IInv
<1>1. Init => IInv
  BY InitInv
<1>2. IInv /\ [Next]_vars => IInv'
  <2> SUFFICES ASSUME IInv, [Next]_vars PROVE IInv'
    OBVIOUS
  <2>1. Registry /\ CallsTyped /\ Watching /\ Requests
    BY DEF IInv, TypeOK, CallsTyped, Watching
  <2>2. Registry'
    BY <2>1, RegistryStep
  <2>3. CallsTyped' /\ Requests'
    BY <2>1, CallsStep
  <2>4. Watching'
    BY <2>1, WatchStep
  <2> QED
    BY <2>2, <2>3, <2>4 DEF IInv, TypeOK, CallsTyped, Watching, Registry
<1> QED
  BY <1>1, <1>2, PTL DEF Spec

(* Every state is one the code's types allow: in particular no call makes   *)
(* more than MaxRetries attempts (_call's loop), and the pause before a     *)
(* stream is taken up again never exceeds its bound (watch_ohlcv).          *)
THEOREM TypeCorrect == Spec => []TypeOK
<1>1. IInv => TypeOK
  BY DEF IInv
<1> QED
  BY <1>1, Invariance, PTL

(* No request leaves for another exchange or environment than it was asked  *)
(* for, and no trade operation leaves for production or without a key that  *)
(* may trade, whatever is retried, cached or closed meanwhile               *)
(* (ExchangeManager.get, _enable_sandbox, _require_trade_scope).            *)
THEOREM RequestsAreSentAsAsked == Spec => []SentAsAsked
<1>1. IInv => SentAsAsked
  <2> SUFFICES ASSUME IInv, NEW r \in sent
               PROVE  LET a == adapters[r.adapter]
                      IN /\ a.key = r.asked
                         /\ a.sandbox = r.asked[2]
                         /\ r.op = "trade" => a.trade /\ a.sandbox
    BY DEF SentAsAsked
  <2>1. r.adapter \in DOMAIN adapters
    BY DEF IInv, TypeOK
  <2>2. /\ adapters[r.adapter].key = r.asked
        /\ r.op = "trade" => r.asked[2] = TRUE /\ r.asked[1] \in TradeKeys
    BY DEF IInv, Requests
  <2>3. /\ adapters[r.adapter].sandbox = adapters[r.adapter].key[2]
        /\ adapters[r.adapter].trade = (adapters[r.adapter].key[1] \in TradeKeys)
    BY <2>1 DEF IInv, Registry, AdaptersOfKeys
  <2> QED
    BY <2>2, <2>3
<1> QED
  BY <1>1, Invariance, PTL

(* An adapter that is open is in the cache or has been taken by an          *)
(* aclose_all; what was taken is never handed out again nor taken twice,    *)
(* and only a cancelled aclose_all leaves any behind, however gets and      *)
(* closings interleave (ExchangeManager.get and aclose_all, aclose).        *)
THEOREM OpenAdaptersAreAccountedFor == Spec => []CachedOrTaken
<1>1. IInv => CachedOrTaken
  BY DEF IInv, Registry
<1> QED
  BY <1>1, Invariance, PTL
=============================================================================
