-------------------------- MODULE HistorySyncProofs --------------------------
(* Proofs about HistorySync, for any requests, venue and number of calls.   *)
(*                                                                         *)
(* That the cache only grows by published candles (HistoryCache) rests on   *)
(* what the calls hold while they wait: a buffer whose rows were published  *)
(* when they were fetched, and still are (Buffers).  A stretch of a call    *)
(* between two fetches is summed up by what each of its outcomes is worth   *)
(* (Sound).                                                                 *)
(*                                                                         *)
(* That a repair fills the gaps it found (GapsFilled) speaks of calls that  *)
(* are done; inductive is what a call in the middle of its repair has       *)
(* filled so far (Repairing), with where the calls stand in their windows   *)
(* (Walks), from which TypeOK follows as well.  From the same invariant, no *)
(* answer leaves a call where it was (AnswersAdvance): the end of every     *)
(* sync rests on it.                                                        *)
EXTENDS HistorySync, FiniteSetTheorems, WellFoundedInduction, TLAPS

Fields == {"pc", "req", "cursor", "buffer", "gaps", "left", "filled", "repaired", "status"}
IsCall(c) == c = [f \in Fields |-> c[f]]

(* Rows that the venue may have published by now.                           *)
AreSeen(rows) ==
  \A t \in DOMAIN rows : t \in Cache!Published(now) /\ rows[t] \in Cache!Seen(t, now)

Holds(c) == IsCall(c) /\ AreSeen(c.buffer)

(* A stamped dataset stays stamped, and a call that is done without being   *)
(* partial has stamped it.                                                  *)
StampedBy(c, manifest) == c.pc = "done" /\ c.status # "partial" => manifest = "synced"

Buffers == \A s \in Syncs : Holds(call[s])
AllStamped == \A s \in Syncs : StampedBy(call[s], meta)

IInv == /\ now \in Nat /\ DOMAIN call = Syncs
        /\ Buffers /\ AllStamped

(* What a rewriting of the file may do to the cache.                        *)
Stored(store) ==
  /\ DOMAIN cache \subseteq DOMAIN store
  /\ \A t \in DOMAIN store :
       \/ t \in DOMAIN cache /\ store[t] = cache[t]
       \/ t \in Cache!Published(now) /\ store[t] \in Cache!Seen(t, now)

Keeps(manifest) == meta = "synced" => manifest = "synced"

Sound(o) ==
  /\ Stored(o.cache) /\ Keeps(o.meta)
  /\ Holds(o.call) /\ StampedBy(o.call, o.meta)

-----------------------------------------------------------------------------
(* The store.                                                              *)

(* A merge has the rows of both, the new one where both have one.          *)
LEMMA MergedRows ==
  ASSUME NEW new, NEW old
  PROVE  /\ DOMAIN Merged(new, old) = DOMAIN new \cup DOMAIN old
         /\ \A t \in DOMAIN new : Merged(new, old)[t] = new[t]
         /\ \A t \in DOMAIN old \ DOMAIN new : Merged(new, old)[t] = old[t]
BY DEF Merged

(* A page of seen rows may be stored over what may be stored.              *)
LEMMA UpsertStores ==
  ASSUME NEW store, NEW new, Stored(store), AreSeen(new)
  PROVE  Stored(Upsert(store, new))
<1> DEFINE m == Merged(new, store)
<1>1. /\ DOMAIN m = DOMAIN new \cup DOMAIN store
      /\ \A t \in DOMAIN new : m[t] = new[t]
      /\ \A t \in DOMAIN store \ DOMAIN new : m[t] = store[t]
  BY MergedRows
<1> HIDE DEF m
<1>2. Stored(m)
  BY <1>1 DEF Stored, AreSeen
<1> QED
  BY <1>2 DEF Upsert, m

(* Leaving the file alone is a rewriting of it.                            *)
LEMMA CacheIsStored == Stored(cache)
BY DEF Stored

(* A page of available bars is seen.                                       *)
LEMMA SnapshotIsSeen ==
  ASSUME NEW S \in SUBSET Available
  PROVE  AreSeen(Snapshot(S))
BY DEF AreSeen, Snapshot, Available, Cache!Published, Cache!Seen

(* Merging seen rows shows nothing else.                                   *)
LEMMA MergedIsSeen ==
  ASSUME NEW new, NEW old, AreSeen(new), AreSeen(old)
  PROVE  AreSeen(Merged(new, old))
<1> DEFINE m == Merged(new, old)
<1>1. /\ DOMAIN m = DOMAIN new \cup DOMAIN old
      /\ \A t \in DOMAIN new : m[t] = new[t]
      /\ \A t \in DOMAIN old \ DOMAIN new : m[t] = old[t]
  BY MergedRows
<1> HIDE DEF m
<1>2. AreSeen(m)
  BY <1>1 DEF AreSeen
<1> QED
  BY <1>2 DEF m

(* An upsert does not take the stamp away.                                 *)
LEMMA ManifestKeeps ==
  ASSUME NEW new
  PROVE  Keeps(Manifest(meta, new)) /\ Keeps(meta)
BY DEF Keeps, Manifest

(* A page has only available bars.                                         *)
LEMMA AnswerIsAvailable ==
  ASSUME NEW cursor, NEW limit
  PROVE  Answer(cursor, limit) \in SUBSET Available
BY DEF Answer

-----------------------------------------------------------------------------
(* The stretches.                                                          *)

(* The end of a call stamps the dataset or is partial.                     *)
LEMMA ReturnedIsSound ==
  ASSUME NEW c, Holds(c), NEW store, Stored(store), NEW manifest, Keeps(manifest),
         NEW status, NEW repaired
  PROVE  Sound(Returned(c, store, manifest, status, repaired))
<1> DEFINE final == IF DOMAIN store = {} /\ status # "partial" THEN "empty" ELSE status
           d == [c EXCEPT !.pc = "done", !.repaired = repaired, !.left = {}, !.cursor = 0,
                          !.status = final]
           m == IF status = "partial" THEN manifest ELSE "synced"
<1>1. IsCall(d) /\ d.buffer = c.buffer /\ d.status = final
  BY DEF IsCall, Fields, Holds
<1>2. Keeps(m)
  BY DEF Keeps
<1>3. final # "partial" => m = "synced"
  OBVIOUS
<1>4. Returned(c, store, manifest, status, repaired) = Outcome(store, m, d)
  BY DEF Returned
<1> HIDE DEF d, m, final
<1>5. Holds(d) /\ StampedBy(d, m)
  BY <1>1, <1>3 DEF Holds, StampedBy
<1> QED
  BY <1>2, <1>4, <1>5 DEF Sound, Outcome

(* The end of the gap pass ends the call.                                  *)
LEMMA RepairDoneIsSound ==
  ASSUME NEW c, Holds(c), NEW store, Stored(store), NEW manifest, Keeps(manifest), NEW status,
         NEW o \in RepairDone(c, store, manifest, status)
  PROVE  Sound(o)
BY ReturnedIsSound DEF RepairDone

(* A call that goes on waiting.                                             *)
LEMMA WaitingIsSound ==
  ASSUME NEW c, Holds(c), c.pc \in {"page", "gap"}, NEW store, Stored(store),
         NEW manifest, Keeps(manifest)
  PROVE  Sound(Outcome(store, manifest, c))
BY DEF Sound, Outcome, StampedBy

(* The end of the page loop flushes the buffer, then waits or returns.     *)
LEMMA PagesDoneIsSound ==
  ASSUME NEW c, Holds(c), NEW status, NEW o \in PagesDone(c, status)
  PROVE  Sound(o)
<1> DEFINE d == Flushed(c)
           store == Upsert(cache, c.buffer)
           m == Manifest(meta, c.buffer)
           gaps == GapsOf(c.req, store)
<1>1. o = GapsFound(d, store, m, gaps, status)
  BY DEF PagesDone
<1>2. Stored(store) /\ Keeps(m)
  BY UpsertStores, CacheIsStored, ManifestKeeps DEF Holds
<1>3. Holds(d)
  BY DEF Holds, IsCall, Fields, Flushed, AreSeen
<1> HIDE DEF d, store, m, gaps
<1> DEFINE waiting == [d EXCEPT !.pc = "gap", !.gaps = gaps, !.left = Capped(gaps),
                                !.cursor = FirstGap(gaps)[1]]
           ending == [d EXCEPT !.gaps = gaps]
<1>4. /\ IsCall(waiting) /\ waiting.pc = "gap" /\ waiting.buffer = d.buffer
      /\ IsCall(ending) /\ ending.buffer = d.buffer
  BY <1>3 DEF Holds, IsCall, Fields
<1>5. Holds(waiting) /\ Holds(ending)
  BY <1>3, <1>4 DEF Holds
<1>6. o \in {Outcome(store, m, waiting), Returned(ending, store, m, status, 0)}
  BY <1>1 DEF GapsFound
<1> HIDE DEF waiting, ending
<1> QED
  BY <1>2, <1>4, <1>5, <1>6, WaitingIsSound, ReturnedIsSound

(* A new call starts with an empty buffer.                                 *)
LEMMA StartedIsSound ==
  ASSUME NEW r, NEW o \in Started(r)
  PROVE  Sound(o)
<1> DEFINE cursor == IF LastTimestamp = None THEN r.since ELSE Max({r.since, LastTimestamp + 1})
           c == [NoCall EXCEPT !.pc = "page", !.req = r, !.cursor = cursor]
<1>1. IsCall(c) /\ c.pc = "page" /\ c.buffer = << >>
  BY DEF IsCall, Fields, NoCall
<1>2. o \in {Outcome(cache, meta, c)} \cup PagesDone(c, "ok")
  BY DEF Started
<1> HIDE DEF c
<1>3. Holds(c)
  BY <1>1 DEF Holds, AreSeen
<1> QED
  BY <1>1, <1>2, <1>3, CacheIsStored, ManifestKeeps, WaitingIsSound, PagesDoneIsSound

(* A page adds seen rows to the buffer, and may flush it.                  *)
LEMMA AfterPageIsSound ==
  ASSUME NEW c, Holds(c), c.pc = "page", NEW o \in AfterPage(c)
  PROVE  Sound(o)
<1> DEFINE page == Answer(c.cursor, c.req.limit)
           rows == Snapshot({t \in page : t <= c.req.until})
           d == [c EXCEPT !.buffer = Merged(rows, @)]
           next == NextCursor(c.cursor, page)
<1>1. o \in Buffered(d, next)
  BY DEF AfterPage
<1>2. AreSeen(rows)
  BY AnswerIsAvailable, SnapshotIsSeen
<1> HIDE DEF next, rows
<1>3. IsCall(d) /\ d.pc = "page" /\ d.buffer = Merged(rows, c.buffer)
  BY DEF Holds, IsCall, Fields
<1> HIDE DEF d
<1>4. Holds(d)
  BY <1>2, <1>3, MergedIsSeen DEF Holds
<1> DEFINE on == [d EXCEPT !.cursor = next]
           flushed == [Flushed(d) EXCEPT !.cursor = next]
<1>5. /\ IsCall(on) /\ on.pc = "page" /\ on.buffer = d.buffer
      /\ IsCall(flushed) /\ flushed.pc = "page" /\ flushed.buffer = << >>
  BY <1>3 DEF IsCall, Fields, Flushed
<1>6. Holds(on) /\ Holds(flushed)
  BY <1>4, <1>5 DEF Holds, AreSeen
<1>7. o \in PagesDone(d, "ok") \cup
            {Outcome(cache, meta, on),
             Outcome(Upsert(cache, d.buffer), Manifest(meta, d.buffer), flushed)}
  BY <1>1 DEF Buffered
<1> HIDE DEF on, flushed
<1>8. /\ Stored(cache) /\ Keeps(meta)
      /\ Stored(Upsert(cache, d.buffer)) /\ Keeps(Manifest(meta, d.buffer))
  BY <1>4, CacheIsStored, UpsertStores, ManifestKeeps DEF Holds
<1> QED
  BY <1>4, <1>5, <1>6, <1>7, <1>8, WaitingIsSound, PagesDoneIsSound

(* Moving on in a gap does not touch the buffer.                           *)
LEMMA AdvancedHolds ==
  ASSUME NEW c, Holds(c), NEW page
  PROVE  Holds(GapAdvanced(c, page)) /\ GapAdvanced(c, page).pc = c.pc
<1> DEFINE next == NextCursor(c.cursor, page)
           left == c.left \ {FirstGap(c.left)}
           first == IF left = {} THEN c.cursor ELSE FirstGap(left)[1]
<1>1. GapAdvanced(c, page) \in {[c EXCEPT !.cursor = next],
                               [c EXCEPT !.left = left, !.cursor = first]}
  BY DEF GapAdvanced
<1> HIDE DEF next, left, first
<1>2. /\ GapAdvanced(c, page).buffer = c.buffer
      /\ GapAdvanced(c, page).pc = c.pc
      /\ IsCall(GapAdvanced(c, page))
  <2>1. CASE GapAdvanced(c, page) = [c EXCEPT !.cursor = next]
    BY <2>1 DEF Holds, IsCall, Fields
  <2>2. CASE GapAdvanced(c, page) = [c EXCEPT !.left = left, !.cursor = first]
    BY <2>2 DEF Holds, IsCall, Fields
  <2> QED
    BY <1>1, <2>1, <2>2
<1> QED
  BY <1>2 DEF Holds

(* A page of a gap stores seen rows.                                       *)
LEMMA AfterGapPageIsSound ==
  ASSUME NEW c, Holds(c), c.pc = "gap", NEW o \in AfterGapPage(c)
  PROVE  Sound(o)
<1> DEFINE page == Answer(c.cursor, c.req.limit)
           gap == FirstGap(c.left)
           fill == Snapshot(page \cap (gap[1] .. gap[2]))
           e == [c EXCEPT !.filled = @ \/ Added(cache, fill) > 0]
           d == GapAdvanced(e, page)
           store == Upsert(cache, fill)
           m == Manifest(meta, fill)
<1>1. o \in GapStored(c, page, fill)
  BY DEF AfterGapPage
<1>2. AreSeen(fill)
  BY AnswerIsAvailable, SnapshotIsSeen
<1>3. IsCall(e) /\ e.pc = "gap" /\ e.buffer = c.buffer
  BY DEF Holds, IsCall, Fields
<1>4. o \in RepairDone(d, store, m, "ok") \cup {Outcome(store, m, d)}
  BY <1>1 DEF GapStored
<1> HIDE DEF page, gap, fill, e
<1>5. Holds(e)
  BY <1>3 DEF Holds
<1>6. Holds(d) /\ d.pc = "gap"
  BY <1>3, <1>5, AdvancedHolds
<1>7. Stored(store) /\ Keeps(m)
  BY <1>2, CacheIsStored, UpsertStores, ManifestKeeps
<1> HIDE DEF d, store, m
<1> QED
  BY <1>4, <1>6, <1>7, RepairDoneIsSound, WaitingIsSound

-----------------------------------------------------------------------------
(* The steps.                                                              *)

(* Whatever a call does with an answer is sound.                           *)
LEMMA AnsweredIsSound ==
  ASSUME IInv, NEW s \in Syncs, NEW o \in Answered(s)
  PROVE  Sound(o)
<1>1. Holds(call[s])
  BY DEF IInv, Buffers
<1> QED
  BY <1>1, AfterPageIsSound, AfterGapPageIsSound DEF Answered

(* So is what a failed fetch ends in.                                      *)
LEMMA BrokenIsSound ==
  ASSUME IInv, NEW s \in Syncs, NEW o \in Broken(s)
  PROVE  Sound(o)
BY PagesDoneIsSound DEF IInv, Buffers, Broken

(* A crash in the middle of the writes ends the calls, and leaves a file    *)
(* that one of the outcomes would have left.                               *)
LEMMA CrashStores ==
  ASSUME IInv, NEW s \in Syncs, CrashInWrite(s) \/ CrashInStamp(s)
  PROVE  Died /\ Stored(cache')
<1>1. CASE CrashInWrite(s)
  BY <1>1, AnsweredIsSound, BrokenIsSound DEF CrashInWrite, Sound
<1>2. CASE CrashInStamp(s)
  BY <1>2, AnsweredIsSound, StartedIsSound DEF CrashInStamp, Sound
<1> QED
  BY <1>1, <1>2

(* A slot without a call holds nothing.                                    *)
LEMMA NoCallIsIdle == IsCall(NoCall) /\ NoCall.pc = "idle" /\ DOMAIN NoCall.buffer = {}
<1>1. IsCall(NoCall)
  BY DEF IsCall, Fields, NoCall
<1>2. NoCall.pc = "idle" /\ NoCall.buffer = << >>
  BY DEF NoCall
<1> QED
  BY <1>1, <1>2

(* At first no call holds anything and the cache is empty.                 *)
LEMMA InitInv == Init => IInv /\ Cache!Init
<1> SUFFICES ASSUME Init PROVE IInv /\ Cache!Init
  OBVIOUS
<1>1. \A s \in Syncs : call[s] = NoCall
  BY DEF Init
<1>2. Holds(NoCall) /\ StampedBy(NoCall, meta)
  BY NoCallIsIdle DEF Holds, AreSeen, StampedBy
<1>3. now \in Nat /\ DOMAIN call = Syncs
  BY SyncAssumption DEF Init
<1> QED
  BY <1>1, <1>2, <1>3 DEF IInv, Buffers, AllStamped, Init, Cache!Init

(* The stretch of one call: the others wait on.                             *)
LEMMA ProceedStep ==
  ASSUME IInv, NEW s \in Syncs, NEW O, \A o \in O : Sound(o), Proceed(s, O)
  PROVE  IInv' /\ Cache!Store /\ Keeps(meta')
<1>1. PICK o \in O : /\ cache' = o.cache /\ meta' = o.meta
                     /\ call' = [call EXCEPT ![s] = o.call]
                     /\ now' = now
  BY DEF Proceed
<1>2. Sound(o)
  BY <1>1
<1> DEFINE c == o.call
<1> HIDE DEF c
<1>3. /\ DOMAIN call' = Syncs /\ call'[s] = c
      /\ \A x \in Syncs \ {s} : call'[x] = call[x]
  BY <1>1 DEF IInv, c
<1>4. Holds(c) /\ StampedBy(c, meta') /\ Keeps(meta')
  BY <1>1, <1>2 DEF Sound, c
<1>5. \A x \in Syncs : Holds(call'[x]) /\ StampedBy(call'[x], meta')
  BY <1>3, <1>4 DEF IInv, Buffers, AllStamped, StampedBy, Keeps
<1>6. Buffers'
  BY <1>1, <1>5 DEF Buffers, Holds, AreSeen
<1>7. AllStamped'
  BY <1>5 DEF AllStamped, StampedBy
<1>8. Cache!Store
  BY <1>1, <1>2 DEF Sound, Stored, Cache!Store
<1> QED
  BY <1>1, <1>3, <1>4, <1>6, <1>7, <1>8 DEF IInv

(* The process dies; what had been written is what one of the outcomes      *)
(* would have left of the file.                                             *)
LEMMA DiedStep ==
  ASSUME IInv, Died, Stored(cache')
  PROVE  IInv' /\ Cache!Store
<1>1. /\ DOMAIN call' = Syncs /\ \A s \in Syncs : call'[s] = NoCall
      /\ now' = now
  BY DEF Died
<1>2. Holds(NoCall)' /\ StampedBy(NoCall, meta')
  BY NoCallIsIdle DEF Holds, AreSeen, StampedBy
<1>3. Buffers' /\ AllStamped'
  BY <1>1, <1>2 DEF Buffers, AllStamped
<1>4. Cache!Store
  BY <1>1 DEF Stored, Cache!Store
<1> QED
  BY <1>1, <1>3, <1>4 DEF IInv

(* A cancelled call loses its buffer and writes nothing.                   *)
LEMMA CancelStep ==
  ASSUME IInv, NEW s \in Syncs, Cancel(s)
  PROVE  IInv' /\ UNCHANGED <<now, cache>>
<1>1. /\ DOMAIN call' = Syncs /\ call'[s] = NoCall
      /\ \A x \in Syncs \ {s} : call'[x] = call[x]
      /\ UNCHANGED <<now, cache, meta>>
  BY DEF Cancel, IInv
<1>2. Holds(NoCall)' /\ StampedBy(NoCall, meta')
  BY NoCallIsIdle DEF Holds, AreSeen, StampedBy
<1>3. Buffers' /\ AllStamped'
  BY <1>1, <1>2 DEF IInv, Buffers, AllStamped, StampedBy, Holds, AreSeen
<1> QED
  BY <1>1, <1>3 DEF IInv

(* What was published stays so, and a forming bar may be seen to be final.  *)
LEMMA TickStep ==
  ASSUME IInv, Tick
  PROVE  IInv' /\ Cache!Tick
<1>1. now' = now + 1 /\ now < LastNow /\ now \in Nat /\ UNCHANGED <<cache, meta, call>>
  BY DEF Tick, IInv
<1>2. \A t \in Cache!Published(now) :
        t \in Cache!Published(now') /\ Cache!Seen(t, now) \subseteq Cache!Seen(t, now')
  BY <1>1, SyncAssumption DEF Cache!Published, Cache!Seen
<1>3. Buffers'
  BY <1>1, <1>2 DEF IInv, Buffers, Holds, AreSeen
<1>4. AllStamped'
  BY <1>1 DEF IInv, AllStamped, StampedBy
<1> QED
  BY <1>1, <1>3, <1>4 DEF IInv, Cache!Tick

(* Every step keeps the invariant and is a step of the growing cache.      *)
LEMMA NextStep ==
  ASSUME IInv, [Next]_vars
  PROVE  IInv' /\ [Cache!Next]_<<now, cache>>
<1> DEFINE Goal == IInv' /\ [Cache!Next]_<<now, cache>>
<1>1. ASSUME NEW s \in Syncs, Proceed(s, Answered(s)) PROVE Goal
  BY <1>1, AnsweredIsSound, ProceedStep DEF Cache!Next
<1>2. ASSUME NEW s \in Syncs, Arrives(s) PROVE Goal
  BY <1>1, <1>2 DEF Arrives, PageArrives, GapPageArrives
<1>3. ASSUME NEW s \in Syncs, PageFails(s) PROVE Goal
  BY <1>3, BrokenIsSound, ProceedStep DEF PageFails, Cache!Next
<1>4. ASSUME NEW s \in Syncs, GapPageFails(s) PROVE Goal
  <2>1. \A o \in RepairDone(call[s], cache, meta, "partial") : Sound(o)
    BY RepairDoneIsSound, CacheIsStored, ManifestKeeps DEF IInv, Buffers
  <2> QED
    BY <1>4, <2>1, ProceedStep DEF GapPageFails, Cache!Next
<1>5. ASSUME NEW s \in Syncs, Cancel(s) PROVE Goal
  BY <1>5, CancelStep
<1>6. ASSUME NEW s \in Syncs, CrashInWrite(s) \/ CrashInStamp(s) PROVE Goal
  BY <1>6, CrashStores, DiedStep DEF Cache!Next
<1>7. ASSUME NEW s \in Syncs, NEW r \in Requests, Begin(s, r) PROVE Goal
  BY <1>7, StartedIsSound, ProceedStep DEF Begin, Cache!Next
<1>8. ASSUME Crash PROVE Goal
  <2>1. Died /\ Stored(cache')
    BY <1>8 DEF Crash, Stored
  <2> QED
    BY <2>1, DiedStep DEF Cache!Next
<1>9. ASSUME Tick PROVE Goal
  BY <1>9, TickStep DEF Cache!Next
<1>10. ASSUME UNCHANGED vars PROVE Goal
  <2>1. UNCHANGED <<now, cache, meta, call>>
    BY <1>10 DEF vars
  <2>2. IInv'
    BY <2>1 DEF IInv, Buffers, AllStamped, StampedBy, Holds, AreSeen
  <2> QED
    BY <2>1, <2>2
<1> QED
  BY <1>2, <1>3, <1>4, <1>5, <1>6, <1>7, <1>8, <1>9, <1>10 DEF Next

-----------------------------------------------------------------------------
(* sync_history implements the growing cache: whatever the calls, failures, *)
(* cancellations and crashes, a step of the syncs is a step of HistoryCache *)
(* or leaves the cache alone (upsert keeps what is stored, and a row comes  *)
(* from a page the venue has answered).                                     *)
THEOREM ImplementsCache == Spec => OnlyGrows
<1>1. Init => IInv /\ Cache!Init
  BY InitInv
<1>2. IInv /\ [Next]_vars => IInv' /\ [Cache!Next]_<<now, cache>>
  BY NextStep
<1> QED
  BY <1>1, <1>2, PTL DEF Spec, OnlyGrows, Cache!Spec

(* A stamp is lost by a crash in the middle of a stamp only.                *)
LEMMA StampStep ==
  ASSUME IInv, [Next]_vars, meta = "synced"
  PROVE  meta' = "synced" \/ \E s \in Syncs : CrashInStamp(s)
<1>1. ASSUME NEW s \in Syncs, Proceed(s, Answered(s)) \/ Proceed(s, Broken(s))
      PROVE  meta' = "synced"
  BY <1>1, AnsweredIsSound, BrokenIsSound, ProceedStep DEF Keeps
<1>2. ASSUME NEW s \in Syncs, GapPageFails(s) PROVE meta' = "synced"
  <2>1. \A o \in RepairDone(call[s], cache, meta, "partial") : Sound(o)
    BY RepairDoneIsSound, CacheIsStored, ManifestKeeps DEF IInv, Buffers
  <2> QED
    BY <1>2, <2>1, ProceedStep DEF GapPageFails, Keeps
<1>3. ASSUME NEW s \in Syncs, NEW r \in Requests, Begin(s, r) PROVE meta' = "synced"
  BY <1>3, StartedIsSound, ProceedStep DEF Begin, Keeps
<1>4. ASSUME NEW s \in Syncs, Arrives(s) \/ PageFails(s) PROVE meta' = "synced"
  BY <1>1, <1>4 DEF Arrives, PageArrives, GapPageArrives, PageFails
<1>5. ASSUME NEW s \in Syncs, Cancel(s) \/ CrashInWrite(s) PROVE meta' = "synced"
  BY <1>5 DEF Cancel, CrashInWrite
<1>6. ASSUME Crash \/ Tick \/ UNCHANGED vars PROVE meta' = "synced"
  BY <1>6 DEF Crash, Tick, vars
<1> QED
  BY <1>2, <1>3, <1>4, <1>5, <1>6 DEF Next

(* A complete sync leaves the dataset stamped, and nothing that other calls,*)
(* failures, cancellations, crashes between two writes and crashes in the   *)
(* writing of bars do takes the stamp away: what does is a crash in the     *)
(* middle of a later stamp (_write_bars keeps the stamp, sync_history sets  *)
(* it, _write_meta writes it in place).                                    *)
THEOREM StampStays == Spec => StampSticks
<1>1. Init => IInv
  BY InitInv
<1>2. IInv /\ [Next]_vars => IInv'
  BY NextStep
<1>3. IInv /\ IInv' /\ [Next]_vars =>
        [ /\ \A s \in Syncs : Complete(call'[s]) => Stamped'
          /\ Stamped => Stamped' \/ \E s \in Syncs : CrashInStamp(s) ]_vars
  <2> SUFFICES ASSUME IInv, IInv', [Next]_vars
               PROVE  /\ \A s \in Syncs : Complete(call'[s]) => Stamped'
                      /\ Stamped => Stamped' \/ \E s \in Syncs : CrashInStamp(s)
    OBVIOUS
  <2>1. (Stamped <=> meta = "synced") /\ (Stamped' <=> meta' = "synced")
    BY SyncAssumption DEF Stamped, DatasetInfo, LastSynced
  <2>2. \A s \in Syncs : Complete(call'[s]) => meta' = "synced"
    BY DEF IInv, AllStamped, StampedBy, Complete
  <2> QED
    BY <2>1, <2>2, StampStep
<1> QED
  BY <1>1, <1>2, <1>3, PTL DEF Spec, StampSticks

-----------------------------------------------------------------------------
(* Least and greatest numbers, and what the page loops make of them.       *)

(* A nonempty set of naturals has a least member.                          *)
LEMMA LeastNumber ==
  ASSUME NEW S \in SUBSET Nat, S # {}
  PROVE  \E m \in S : \A k \in S : m <= k
<1>1. PICK m \in S : \A k \in S : ~(<<k, m>> \in OpToRel(<, Nat))
  BY NatLessThanWellFounded, WFMin, Zenon
<1>2. \A k \in S : ~(k < m)
  BY <1>1 DEF OpToRel
<1> QED
  BY <1>2

(* A nonempty set of naturals with a bound has a greatest, which is Max.   *)
LEMMA GreatestNumber ==
  ASSUME NEW S \in SUBSET Nat, S # {}, NEW n \in Nat, \A k \in S : k <= n
  PROVE  Max(S) \in S /\ \A k \in S : k <= Max(S)
<1> DEFINE below == {n - k : k \in S}
<1>1. below \in SUBSET Nat /\ below # {}
  <2>1. \A k \in S : n - k \in Nat
    OBVIOUS
  <2>2. \A x \in below : x \in Nat
    BY <2>1
  <2>3. PICK k \in S : TRUE
    OBVIOUS
  <2>4. n - k \in below
    BY <2>3
  <2> QED
    BY <2>2, <2>4
<1>2. PICK m \in below : \A k \in below : m <= k
  BY <1>1, LeastNumber
<1>3. PICK x \in S : m = n - x
  BY <1>2
<1>4. ASSUME NEW k \in S PROVE x >= k
  <2>1. n - k \in below
    OBVIOUS
  <2>2. m <= n - k
    BY <1>2, <2>1
  <2> QED
    BY <1>3, <2>2
<1>5. /\ Max(S) \in S
      /\ \A k \in S : Max(S) >= k
  BY <1>4 DEF Max
<1> QED
  BY <1>5

(* FirstGap is a gap, and none starts before it.                           *)
LEMMA FirstGapIsFirst ==
  ASSUME NEW G, G # {}, \A g \in G : g[1] \in Nat
  PROVE  FirstGap(G) \in G /\ \A h \in G : FirstGap(G)[1] <= h[1]
<1> DEFINE starts == {g[1] : g \in G}
<1>1. PICK m \in starts : \A k \in starts : m <= k
  <2>1. starts \in SUBSET Nat /\ starts # {}
    OBVIOUS
  <2> QED
    BY <2>1, LeastNumber
<1>2. PICK g \in G : m = g[1]
  BY <1>1
<1>3. \A h \in G : g[1] <= h[1]
  BY <1>1, <1>2
<1> QED
  BY <1>3 DEF FirstGap

(* At least one gap is repaired.                                            *)
LEMMA CappedGaps ==
  ASSUME NEW G, IsFiniteSet(G), \A g \in G : g[1] \in Nat
  PROVE  /\ Capped(G) \subseteq G
         /\ G # {} => Capped(G) # {} /\ FirstGap(Capped(G))[1] = FirstGap(G)[1]
<1>1. Capped(G) \subseteq G
  BY DEF Capped
<1>2. ASSUME G # {} PROVE FirstGap(G) \in Capped(G)
  <2> DEFINE f == FirstGap(G)
  <2>1. f \in G /\ \A h \in G : f[1] <= h[1]
    BY <1>2, FirstGapIsFirst
  <2> HIDE DEF f
  <2>2. {h \in G : h[1] < f[1]} = {}
    BY <2>1
  <2>3. Cardinality({h \in G : h[1] < f[1]}) < MaxGapRepairs
    BY <2>2, FS_EmptySet, SyncAssumption
  <2> QED
    BY <2>1, <2>3 DEF Capped, f
<1>3. ASSUME G # {} PROVE FirstGap(Capped(G))[1] = FirstGap(G)[1]
  <2> DEFINE C == Capped(G)
             f == FirstGap(G)
             g == FirstGap(C)
  <2>1. f \in C /\ f \in G /\ \A h \in G : f[1] <= h[1]
    BY <1>2, <1>3, FirstGapIsFirst
  <2>2. C # {} /\ \A h \in C : h[1] \in Nat /\ h \in G
    BY <1>1, <2>1
  <2> HIDE DEF C, f
  <2>3. g \in C /\ \A h \in C : g[1] <= h[1]
    BY <2>2, FirstGapIsFirst
  <2> HIDE DEF g
  <2>4. g[1] <= f[1] /\ f[1] <= g[1] /\ f[1] \in Nat /\ g[1] \in Nat
    BY <2>1, <2>2, <2>3
  <2>5. f[1] = g[1]
    BY <2>4
  <2> QED
    BY <2>5 DEF C, f, g
<1> QED
  BY <1>1, <1>2, <1>3

(* A gap lies between two bars of the series.                               *)
LEMMA GapsLieBetween ==
  ASSUME NEW S \in SUBSET Nat, NEW n \in Nat, \A t \in S : t <= n
  PROVE  /\ IsFiniteSet(DetectGaps(S))
         /\ \A g \in DetectGaps(S) : /\ g \in Nat \X Nat /\ g[1] <= g[2]
                                     /\ g[2] + 1 \in S
<1>1. ASSUME NEW g \in DetectGaps(S)
      PROVE  g \in Nat \X Nat /\ g[1] <= g[2] /\ g[2] + 1 \in S
  <2>1. PICK a \in S, b \in S \ {0} : g = <<a + 1, b - 1>>
    BY DEF DetectGaps
  <2>2. g[1] <= g[2]
    BY DEF DetectGaps
  <2>3. a + 1 \in Nat /\ b - 1 \in Nat /\ (b - 1) + 1 = b
    OBVIOUS
  <2> QED
    BY <2>1, <2>2, <2>3
<1>2. DetectGaps(S) \subseteq (0 .. n) \X (0 .. n)
  <2>1. ASSUME NEW g \in DetectGaps(S) PROVE g \in (0 .. n) \X (0 .. n)
    <3>1. g = <<g[1], g[2]>> /\ g[1] \in Nat /\ g[2] \in Nat /\ g[1] <= g[2] /\ g[2] + 1 <= n
      BY <1>1
    <3>2. g[1] \in 0 .. n /\ g[2] \in 0 .. n
      BY <3>1
    <3> QED
      BY <3>1, <3>2
  <2> QED
    BY <2>1
<1>3. IsFiniteSet(0 .. n)
  BY FS_Interval
<1>4. IsFiniteSet((0 .. n) \X (0 .. n))
  BY <1>3, FS_Product
<1> QED
  BY <1>1, <1>2, <1>4, FS_Subset

(* An answer leaves out no bar on its way, and is empty only when the venue *)
(* has no bar left.                                                         *)
LEMMA AnswerLeavesNothingOut ==
  ASSUME now \in Nat, NEW cursor \in Nat, NEW limit \in Nat \ {0},
         NEW page, page = Answer(cursor, limit), NEW next, next = NextCursor(cursor, page)
  PROVE  \/ next = None /\ \A t \in Available : t < cursor
         \/ /\ next \in Nat /\ next # None /\ cursor < next
            /\ \A t \in Available : cursor <= t /\ t < next => t \in page
<1> DEFINE Before(t) == {u \in Available : cursor <= u /\ u < t}
<1>1. Available \in SUBSET Nat /\ \A t \in Available : t <= now
  BY SyncAssumption DEF Available
<1>2. page = {t \in Available : t >= cursor /\ Cardinality(Before(t)) < limit}
  BY DEF Answer
<1>3. IsFiniteSet(Available)
  BY <1>1, FS_BoundedSetOfNaturals
<1>4. CASE page = {}
  <2> DEFINE rest == {t \in Available : cursor <= t}
  <2>1. SUFFICES ASSUME rest # {} PROVE FALSE
    <3>1. next = None
      BY <1>4 DEF NextCursor
    <3> QED
      BY <1>1, <2>1, <3>1
  <2>2. PICK m \in rest : \A k \in rest : m <= k
    BY <1>1, <2>1, LeastNumber
  <2>3. Before(m) = {}
    <3>1. m \in Nat
      BY <1>1, <2>2
    <3>2. ASSUME NEW u \in Available, cursor <= u, u < m PROVE FALSE
      <4>1. u \in rest /\ u \in Nat
        BY <1>1, <3>2
      <4>2. m <= u
        BY <2>2, <4>1
      <4> QED
        BY <3>1, <3>2, <4>1, <4>2
    <3> QED
      BY <3>2
  <2>4. Cardinality(Before(m)) < limit
    BY <2>3, FS_EmptySet
  <2>5. m \in Available /\ m >= cursor
    BY <1>1, <2>2
  <2> QED
    BY <1>2, <1>4, <2>4, <2>5
<1>5. CASE page # {}
  <2>1. page \in SUBSET Nat /\ \A k \in page : k <= now /\ cursor <= k
    BY <1>1, <1>2
  <2> DEFINE m == Max(page)
  <2>2. m \in page /\ \A k \in page : k <= m
    BY <1>5, <2>1, GreatestNumber
  <2>3. next = IF m + 1 <= cursor THEN None ELSE m + 1
    BY <1>5 DEF NextCursor
  <2> HIDE DEF m
  <2>4. m \in Nat /\ cursor <= m /\ m \in Available /\ Cardinality(Before(m)) < limit
    BY <1>2, <2>1, <2>2
  <2>5. next = m + 1
    BY <2>3, <2>4
  <2>6. ASSUME NEW t \in Available, cursor <= t, t < next PROVE t \in page
    <3>1. t \in Nat /\ t <= m
      BY <1>1, <2>4, <2>5, <2>6
    <3>2. Before(t) \in SUBSET Before(m) /\ Before(m) \in SUBSET Available
      <4>1. ASSUME NEW u \in Available, u < t PROVE u < m
        <5>1. u \in Nat
          BY <1>1
        <5> QED
          BY <2>4, <3>1, <4>1, <5>1
      <4>2. \A u \in Before(t) : u \in Before(m)
        BY <4>1
      <4> QED
        BY <4>2
    <3>3. IsFiniteSet(Before(m)) /\ IsFiniteSet(Before(t))
      BY <1>3, <3>2, FS_Subset
    <3>4. /\ Cardinality(Before(t)) <= Cardinality(Before(m))
          /\ Cardinality(Before(t)) \in Nat /\ Cardinality(Before(m)) \in Nat
      BY <3>2, <3>3, FS_Subset, FS_CardinalityType
    <3> HIDE DEF Before
    <3>5. Cardinality(Before(t)) < limit
      BY <2>4, <3>4
    <3>6. t >= cursor
      BY <2>6, <3>1
    <3> QED
      BY <1>2, <3>5, <3>6
  <2>7. next \in Nat /\ cursor < next /\ next # None
    BY <2>4, <2>5, SyncAssumption
  <2> QED
    BY <2>6, <2>7
<1> QED
  BY <1>4, <1>5

-----------------------------------------------------------------------------
(* The repair: what a call has filled of the gaps it found, while it waits  *)
(* and at its end.                                                          *)

Filled(first, last, stored) == VenueBars \cap (first .. last) \subseteq stored
AllFilled(gaps, stored) == \A g \in Capped(gaps) : Filled(g[1], g[2], stored)

(* Gaps as data/quality.py finds them in the window of request r at time n. *)
AreGaps(gaps, r, n) ==
  /\ IsFiniteSet(gaps)
  /\ \A g \in gaps : g \in Nat \X Nat /\ g[1] <= g[2] /\ g[2] < n /\ g[2] <= r.until

(* A call in the gap pass has filled the gaps it has left behind, and the   *)
(* first of the others up to its cursor.                                    *)
Repairing(c, stored, n) ==
  /\ AreGaps(c.gaps, c.req, n)
  /\ c.left # {} /\ c.left \subseteq Capped(c.gaps)
  /\ FirstGap(c.left)[1] <= c.cursor /\ c.cursor <= FirstGap(c.left)[2]
  /\ Filled(FirstGap(c.left)[1], c.cursor - 1, stored)
  /\ \A g \in Capped(c.gaps) \ c.left : Filled(g[1], g[2], stored)

Walks(c, stored, n) ==
  /\ c.pc \in {"idle", "page", "gap", "done"}
  /\ c.cursor \in Nat /\ c.repaired \in Int
  /\ c.pc \in {"page", "gap"} => c.req \in Requests /\ c.cursor <= c.req.until
  /\ c.pc = "gap" => Repairing(c, stored, n)
  /\ c.pc # "gap" => c.left = {}
  /\ c.pc = "done" /\ c.status = "ok" /\ c.req.repair => AllFilled(c.gaps, stored)

Manifests == {"absent", "torn", "unsynced", "synced"}

Files == now \in Nat /\ AreSeen(cache) /\ meta \in Manifests

WalkInv == /\ IInv /\ Files
           /\ now \in FirstNow .. LastNow
           /\ calls \in 0 .. MaxCalls /\ crashes \in 0 .. MaxCrashes
           /\ \A s \in Syncs : Walks(call[s], Bars, now)

Goes(o) == o.meta \in Manifests /\ Walks(o.call, DOMAIN o.cache, now)

(* The available bars are those of the venue up to now.                    *)
LEMMA AvailableBars == \A t : t \in Available <=> t \in VenueBars /\ t \in Nat /\ t <= now
BY SyncAssumption DEF Available

(* Time and other calls only add bars.                                      *)
LEMMA WalksOn ==
  ASSUME NEW c, NEW stored, NEW more, stored \subseteq more,
         NEW n \in Nat, NEW m \in Nat, n <= m, Walks(c, stored, n)
  PROVE  Walks(c, more, m)
<1>1. \A first, last : Filled(first, last, stored) => Filled(first, last, more)
  BY DEF Filled
<1>2. AreGaps(c.gaps, c.req, n) => AreGaps(c.gaps, c.req, m)
  BY DEF AreGaps
<1>3. Repairing(c, stored, n) => Repairing(c, more, m)
  BY <1>1, <1>2, Zenon DEF Repairing
<1>4. AllFilled(c.gaps, stored) => AllFilled(c.gaps, more)
  BY <1>1, Zenon DEF AllFilled
<1> QED
  BY <1>3, <1>4, Zenon DEF Walks

(* A file rewritten from seen rows has seen rows.                          *)
LEMMA StoredIsSeen ==
  ASSUME AreSeen(cache), NEW store, Stored(store)
  PROVE  AreSeen(store)
BY DEF AreSeen, Stored

(* Seen rows are of available bars.                                        *)
LEMMA SeenIsAvailable ==
  ASSUME NEW rows, AreSeen(rows)
  PROVE  DOMAIN rows \subseteq Available
BY DEF AreSeen, Cache!Published, Available

(* The gaps of a window are before now and within the request.             *)
LEMMA WindowGaps ==
  ASSUME now \in Nat, NEW store, AreSeen(store), NEW r \in Requests
  PROVE  AreGaps(GapsOf(r, store), r, now) /\ Cardinality(GapsOf(r, store)) \in Nat
<1> DEFINE W == Window(DOMAIN store, r.since, r.until)
           G == DetectGaps(W)
<1>1. W \in SUBSET Nat /\ \A t \in W : t <= now /\ t <= r.until
  BY SeenIsAvailable, AvailableBars DEF Window
<1> HIDE DEF W
<1>2. /\ IsFiniteSet(G)
      /\ \A g \in G : g \in Nat \X Nat /\ g[1] <= g[2] /\ g[2] + 1 \in W
  BY <1>1, GapsLieBetween
<1> HIDE DEF G
<1>3. ASSUME NEW g \in G PROVE g[2] < now /\ g[2] <= r.until
  <2>1. g[2] \in Nat /\ g[2] + 1 <= now /\ g[2] + 1 <= r.until /\ r.until \in Nat
    BY <1>1, <1>2, SyncAssumption
  <2> QED
    BY <2>1
<1>4. Cardinality(G) \in Nat
  BY <1>2, FS_CardinalityType
<1>5. GapsOf(r, store) = G
  BY DEF GapsOf, G, W
<1> QED
  BY <1>2, <1>3, <1>4, <1>5 DEF AreGaps

(* CappedGaps, for gaps of a window.                                       *)
LEMMA CappedOf ==
  ASSUME NEW gaps, NEW r, NEW n, AreGaps(gaps, r, n)
  PROVE  /\ Capped(gaps) \subseteq gaps
         /\ gaps # {} => Capped(gaps) # {} /\ FirstGap(Capped(gaps))[1] = FirstGap(gaps)[1]
<1>1. IsFiniteSet(gaps) /\ \A g \in gaps : g[1] \in Nat
  BY DEF AreGaps
<1> QED
  BY <1>1, CappedGaps

(* The first of the gaps that are left is one of them.                      *)
LEMMA FirstLeft ==
  ASSUME NEW gaps, NEW r, NEW n, AreGaps(gaps, r, n),
         NEW left, left # {}, left \subseteq Capped(gaps), NEW g, g = FirstGap(left)
  PROVE  /\ g \in left /\ g \in gaps /\ g[1] \in Nat /\ g[2] \in Nat
         /\ g[1] <= g[2] /\ g[2] < n /\ g[2] <= r.until
<1>1. left \subseteq gaps
  BY CappedOf
<1>2. \A h \in gaps : /\ h[1] \in Nat /\ h[2] \in Nat
                      /\ h[1] <= h[2] /\ h[2] < n /\ h[2] <= r.until
  BY DEF AreGaps
<1>3. g \in left
  BY <1>1, <1>2, FirstGapIsFirst
<1> QED
  BY <1>1, <1>2, <1>3

(* A call that returns ok has filled its gaps.                             *)
LEMMA ReturnedGoes ==
  ASSUME NEW c, IsCall(c), NEW store, NEW manifest \in Manifests, NEW status,
         NEW repaired \in Int,
         status = "ok" /\ c.req.repair => AllFilled(c.gaps, DOMAIN store)
  PROVE  Goes(Returned(c, store, manifest, status, repaired))
<1> DEFINE final == IF DOMAIN store = {} /\ status # "partial" THEN "empty" ELSE status
           d == [c EXCEPT !.pc = "done", !.repaired = repaired, !.left = {}, !.cursor = 0,
                          !.status = final]
           m == IF status = "partial" THEN manifest ELSE "synced"
<1>1. /\ d.pc = "done" /\ d.repaired = repaired /\ d.left = {} /\ d.cursor = 0
      /\ d.status = final /\ d.req = c.req /\ d.gaps = c.gaps
  BY DEF IsCall, Fields
<1>2. final = "ok" => status = "ok"
  OBVIOUS
<1>3. Returned(c, store, manifest, status, repaired) = Outcome(store, m, d)
  BY DEF Returned
<1>4. m \in Manifests
  BY DEF Manifests
<1> HIDE DEF d, m, final
<1>5. Walks(d, DOMAIN store, now)
  BY <1>1, <1>2 DEF Walks
<1> QED
  BY <1>3, <1>4, <1>5 DEF Goes, Outcome

(* An upsert leaves a manifest of a known kind.                            *)
LEMMA ManifestIsOne ==
  ASSUME meta \in Manifests, NEW new
  PROVE  Manifest(meta, new) \in Manifests
BY DEF Manifest, Manifests

(* The end of the gap pass, with the gaps it counts.                       *)
LEMMA RepairDoneGoes ==
  ASSUME now \in Nat, NEW c, IsCall(c), c.req \in Requests, AreGaps(c.gaps, c.req, now),
         NEW store, AreSeen(store), NEW manifest \in Manifests, NEW status,
         status = "ok" => AllFilled(c.gaps, DOMAIN store),
         NEW o \in RepairDone(c, store, manifest, status)
  PROVE  Goes(o)
<1> DEFINE again == GapsOf(c.req, store)
           repaired == IF c.filled THEN Cardinality(c.gaps) - Cardinality(again) ELSE 0
<1>1. o = Returned(c, store, manifest, status, repaired)
  BY DEF RepairDone
<1>2. Cardinality(again) \in Nat
  BY WindowGaps
<1>3. Cardinality(c.gaps) \in Nat
  BY FS_CardinalityType DEF AreGaps
<1> HIDE DEF again
<1>4. repaired \in Int
  BY <1>2, <1>3
<1> HIDE DEF repaired
<1> QED
  BY <1>1, <1>4, ReturnedGoes

(* The end of the page loop: the repair begins at the first gap, or the call returns. *)
LEMMA PagesDoneGoes ==
  ASSUME Files, NEW c, Holds(c), c.req \in Requests, c.repaired \in Int,
         NEW status \in {"ok", "partial"}, NEW o \in PagesDone(c, status)
  PROVE  Goes(o)
<1> DEFINE d == Flushed(c)
           store == Upsert(cache, c.buffer)
           m == Manifest(meta, c.buffer)
           gaps == GapsOf(c.req, store)
<1>1. o = GapsFound(d, store, m, gaps, status)
  BY DEF PagesDone
<1>2. AreSeen(store) /\ m \in Manifests
  BY UpsertStores, CacheIsStored, StoredIsSeen, ManifestIsOne DEF Holds, Files
<1>3. IsCall(d) /\ d.req = c.req /\ d.repaired = c.repaired
  BY DEF Holds, IsCall, Fields, Flushed
<1>4. AreGaps(gaps, c.req, now) /\ now \in Nat
  BY <1>2, WindowGaps DEF Files
<1> HIDE DEF d, store, m, gaps
<1>5. CASE d.req.repair /\ gaps # {} /\ status # "partial"
  <2> DEFINE first == FirstGap(gaps)[1]
             left == Capped(gaps)
             w == [d EXCEPT !.pc = "gap", !.gaps = gaps, !.left = left, !.cursor = first]
             g == FirstGap(left)
  <2>1. o = Outcome(store, m, w)
    BY <1>1, <1>5 DEF GapsFound
  <2>2. /\ w.pc = "gap" /\ w.gaps = gaps /\ w.left = left /\ w.cursor = first
        /\ w.req = c.req /\ w.repaired = c.repaired
    BY <1>3 DEF IsCall, Fields
  <2>3. left # {} /\ g[1] = first
    BY <1>4, <1>5, CappedOf
  <2>4. g[1] \in Nat /\ g[2] \in Nat /\ g[1] <= g[2] /\ g[2] <= c.req.until
    BY <1>4, <2>3, FirstLeft
  <2>5. c.req.until \in Nat
    BY SyncAssumption
  <2> HIDE DEF w, first, left, g
  <2>6. Filled(g[1], first - 1, DOMAIN store)
    <3>1. g[1] .. first - 1 = {}
      BY <2>3, <2>4
    <3> QED
      BY <3>1 DEF Filled
  <2>7. g = FirstGap(w.left) /\ w.left = Capped(w.gaps)
    BY <2>2 DEF g, left
  <2>8. Repairing(w, DOMAIN store, now)
    BY <1>4, <2>2, <2>3, <2>4, <2>6, <2>7 DEF Repairing
  <2>9. Walks(w, DOMAIN store, now)
    BY <2>2, <2>3, <2>4, <2>5, <2>8 DEF Walks
  <2> QED
    BY <1>2, <2>1, <2>9 DEF Goes, Outcome
<1>6. CASE ~(d.req.repair /\ gaps # {} /\ status # "partial")
  <2> DEFINE e == [d EXCEPT !.gaps = gaps]
  <2>1. o = Returned(e, store, m, status, 0)
    BY <1>1, <1>6 DEF GapsFound
  <2>2. IsCall(e) /\ e.gaps = gaps /\ e.req = d.req
    BY <1>3 DEF IsCall, Fields
  <2> HIDE DEF e
  <2>3. status = "ok" /\ e.req.repair => AllFilled(e.gaps, DOMAIN store)
    <3>1. SUFFICES ASSUME gaps = {} PROVE AllFilled(gaps, DOMAIN store)
      BY <1>6, <2>2
    <3> QED
      BY <3>1 DEF AllFilled, Capped
  <2>4. IsCall(e) /\ m \in Manifests /\ 0 \in Int
    BY <1>2, <2>2
  <2>5. Goes(Returned(e, store, m, status, 0))
    BY <2>3, <2>4, ReturnedGoes, Zenon
  <2> QED
    BY <2>1, <2>5
<1> QED
  BY <1>5, <1>6

(* A call that asks for a page.                                             *)
LEMMA PageGoes ==
  ASSUME NEW c, c.pc = "page", c.req \in Requests, c.left = {}, c.repaired \in Int,
         c.cursor \in Nat, c.cursor <= c.req.until,
         NEW store, NEW manifest \in Manifests
  PROVE  Goes(Outcome(store, manifest, c))
BY DEF Goes, Outcome, Walks

(* A new call asks for a page within its window, or has none to ask for.   *)
LEMMA StartedGoes ==
  ASSUME Files, NEW r \in Requests, NEW o \in Started(r)
  PROVE  Goes(o)
<1> DEFINE cursor == IF LastTimestamp = None THEN r.since ELSE Max({r.since, LastTimestamp + 1})
           c == [NoCall EXCEPT !.pc = "page", !.req = r, !.cursor = cursor]
<1>1. IsCall(c)
  BY DEF IsCall, Fields, NoCall
<1>2. /\ c.pc = "page" /\ c.buffer = << >> /\ c.req = r /\ c.cursor = cursor
      /\ c.left = {} /\ c.repaired = 0
  BY DEF NoCall
<1>3. o \in IF cursor <= r.until THEN {Outcome(cache, meta, c)} ELSE PagesDone(c, "ok")
  BY DEF Started
<1>4. r.since \in Nat
  BY SyncAssumption
<1>5. cursor \in Nat
  <2>1. CASE LastTimestamp = None
    BY <1>4, <2>1
  <2>2. CASE LastTimestamp # None
    <3> DEFINE last == Max(Bars)
               two == {r.since, last + 1}
    <3>1. Bars # {} /\ LastTimestamp = last
      BY <2>2 DEF LastTimestamp
    <3>2. Bars \in SUBSET Nat /\ \A k \in Bars : k <= now
      <4>1. Bars \subseteq Available
        BY SeenIsAvailable DEF Files, Bars
      <4> QED
        BY <4>1, AvailableBars
    <3>3. last \in Bars
      BY <3>1, <3>2, GreatestNumber DEF Files
    <3> HIDE DEF last
    <3>4. last \in Nat
      BY <3>2, <3>3
    <3>5. two \in SUBSET Nat /\ two # {} /\ \A k \in two : k <= r.since + last + 1
      BY <1>4, <3>4
    <3>6. r.since + last + 1 \in Nat
      BY <1>4, <3>4
    <3>7. Max(two) \in two
      BY <3>5, <3>6, GreatestNumber
    <3>8. cursor = Max(two)
      BY <2>2, <3>1
    <3> QED
      BY <3>5, <3>7, <3>8
  <2> QED
    BY <2>1, <2>2
<1> HIDE DEF c, cursor
<1>6. Holds(c)
  BY <1>1, <1>2 DEF Holds, AreSeen
<1>7. c.repaired \in Int /\ c.req \in Requests /\ "ok" \in {"ok", "partial"}
  BY <1>2
<1>8. CASE cursor <= r.until
  BY <1>2, <1>3, <1>5, <1>7, <1>8, PageGoes DEF Files
<1>9. CASE ~(cursor <= r.until)
  BY <1>3, <1>6, <1>7, <1>9, PagesDoneGoes
<1> QED
  BY <1>8, <1>9

(* A page advances the cursor within the window, or ends the loop.         *)
LEMMA AfterPageGoes ==
  ASSUME Files, NEW c, Holds(c), c.pc = "page", Walks(c, Bars, now), NEW o \in AfterPage(c)
  PROVE  Goes(o)
<1> DEFINE page == Answer(c.cursor, c.req.limit)
           rows == Snapshot({t \in page : t <= c.req.until})
           d == [c EXCEPT !.buffer = Merged(rows, @)]
           next == NextCursor(c.cursor, page)
<1>1. o \in Buffered(d, next)
  BY DEF AfterPage
<1>2. AreSeen(rows)
  BY AnswerIsAvailable, SnapshotIsSeen
<1>3. c.cursor \in Nat /\ c.req.limit \in Nat \ {0} /\ c.req \in Requests /\ c.left = {}
      /\ c.repaired \in Int
  BY SyncAssumption DEF Walks
<1>4. next # None => next \in Nat
  BY <1>3, AnswerLeavesNothingOut DEF Files
<1> HIDE DEF next, rows, page
<1>5. /\ IsCall(d) /\ d.pc = "page" /\ d.buffer = Merged(rows, c.buffer)
      /\ d.req = c.req /\ d.left = c.left /\ d.repaired = c.repaired
  BY DEF Holds, IsCall, Fields
<1> HIDE DEF d
<1>6. Holds(d)
  BY <1>2, <1>5, MergedIsSeen DEF Holds
<1> DEFINE on == [d EXCEPT !.cursor = next]
           flushed == [Flushed(d) EXCEPT !.cursor = next]
<1>7. /\ on.pc = "page" /\ on.req = c.req /\ on.left = {} /\ on.repaired = c.repaired
      /\ on.cursor = next
  BY <1>3, <1>5 DEF IsCall, Fields
<1>8. /\ flushed.pc = "page" /\ flushed.req = c.req /\ flushed.left = {}
      /\ flushed.repaired = c.repaired /\ flushed.cursor = next
  BY <1>3, <1>5 DEF IsCall, Fields, Flushed
<1>9. meta \in Manifests /\ Manifest(meta, d.buffer) \in Manifests
  BY ManifestIsOne DEF Files
<1>10. CASE next = None \/ next > c.req.until
  BY <1>1, <1>3, <1>5, <1>6, <1>10, PagesDoneGoes DEF Buffered
<1>11. CASE ~(next = None \/ next > c.req.until)
  <2>1. o \in {Outcome(cache, meta, on),
               Outcome(Upsert(cache, d.buffer), Manifest(meta, d.buffer), flushed)}
    BY <1>1, <1>5, <1>11 DEF Buffered
  <2>2. next \in Nat /\ c.req.until \in Nat
    BY <1>3, <1>4, <1>11, SyncAssumption
  <2>3. next <= c.req.until
    BY <1>11, <2>2
  <2> HIDE DEF on, flushed
  <2>4. /\ on.cursor \in Nat /\ on.cursor <= on.req.until
        /\ flushed.cursor \in Nat /\ flushed.cursor <= flushed.req.until
    BY <1>7, <1>8, <2>2, <2>3
  <2>5. /\ on.req \in Requests /\ on.repaired \in Int
        /\ flushed.req \in Requests /\ flushed.repaired \in Int
    BY <1>3, <1>7, <1>8
  <2>6. /\ Goes(Outcome(cache, meta, on))
        /\ Goes(Outcome(Upsert(cache, d.buffer), Manifest(meta, d.buffer), flushed))
    BY <1>7, <1>8, <1>9, <2>4, <2>5, PageGoes
  <2> QED
    BY <2>1, <2>6
<1> QED
  BY <1>10, <1>11

(* What SyncEnds rests on, even without the backstop of 100,000 pages:      *)
(* whatever the venue answers and other calls have stored, the call ends,   *)
(* or its cursor is further in its window or in the same gap, or it has     *)
(* left a gap behind, or the page loop for the gaps, and never comes back.  *)
Advances(c, d) ==
  /\ d.req = c.req
  /\ \/ c.pc = "page" /\ d.pc = "page" /\ c.cursor < d.cursor /\ d.cursor <= c.req.until
     \/ c.pc = "page" /\ d.pc = "gap" /\ IsFiniteSet(d.left)
     \/ /\ c.pc = "gap" /\ d.pc = "gap"
        /\ \/ /\ d.left = c.left
              /\ c.cursor < d.cursor /\ d.cursor <= FirstGap(c.left)[2]
           \/ d.left = c.left \ {FirstGap(c.left)} /\ d.left # c.left
AnswersAdvance ==
  \A s \in Syncs : \A o \in Answered(s) : o.call.pc = "done" \/ Advances(call[s], o.call)

(* One page of a gap: the bars it brings are stored before the next page of *)
(* the gap, or the next gap, is asked for, and one of the two is.           *)
LEMMA GapAdvances ==
  ASSUME now \in Nat, NEW e, IsCall(e), e.pc = "gap", Walks(e, Bars, now),
         NEW page, page = Answer(e.cursor, e.req.limit), NEW gap, gap = FirstGap(e.left),
         NEW stored, Bars \subseteq stored, page \cap (gap[1] .. gap[2]) \subseteq stored,
         NEW d, d = GapAdvanced(e, page)
  PROVE  /\ d.gaps = e.gaps /\ d.req = e.req
         /\ d.left = {} => AllFilled(d.gaps, stored)
         /\ d.left # {} => Walks(d, stored, now)
         /\ Advances(e, d)
<1> DEFINE next == NextCursor(e.cursor, page)
           left == e.left \ {gap}
           first == IF left = {} THEN e.cursor ELSE FirstGap(left)[1]
           capped == Capped(e.gaps)
<1>1. /\ e.cursor \in Nat /\ e.repaired \in Int /\ e.req \in Requests
      /\ AreGaps(e.gaps, e.req, now) /\ e.left # {} /\ e.left \subseteq capped
      /\ gap[1] <= e.cursor /\ e.cursor <= gap[2]
      /\ Filled(gap[1], e.cursor - 1, Bars)
      /\ \A g \in capped \ e.left : Filled(g[1], g[2], Bars)
  BY DEF Walks, Repairing
<1>2. e.req.limit \in Nat \ {0} /\ e.req.until \in Nat
  BY <1>1, SyncAssumption
<1>3. /\ gap \in e.left /\ gap[1] \in Nat /\ gap[2] \in Nat /\ gap[2] < now
      /\ gap[2] <= e.req.until
  BY <1>1, FirstLeft
<1>4. \/ next = None /\ \A t \in Available : t < e.cursor
      \/ /\ next \in Nat /\ next # None /\ e.cursor < next
         /\ \A t \in Available : e.cursor <= t /\ t < next => t \in page
  BY <1>1, <1>2, AnswerLeavesNothingOut
<1>5. d = IF next # None /\ next <= gap[2] THEN [e EXCEPT !.cursor = next]
          ELSE [e EXCEPT !.left = left, !.cursor = first]
  BY DEF GapAdvanced
<1>6. /\ d.gaps = e.gaps /\ d.req = e.req /\ d.pc = "gap" /\ d.repaired = e.repaired
      /\ d.left = IF next # None /\ next <= gap[2] THEN e.left ELSE left
      /\ d.cursor = IF next # None /\ next <= gap[2] THEN next ELSE first
  <2> HIDE DEF next, left, first
  <2>1. CASE next # None /\ next <= gap[2]
    <3>1. d = [e EXCEPT !.cursor = next]
      BY <1>5, <2>1
    <3> QED
      BY <2>1, <3>1 DEF IsCall, Fields
  <2>2. CASE ~(next # None /\ next <= gap[2])
    <3>1. d = [e EXCEPT !.left = left, !.cursor = first]
      BY <1>5, <2>2
    <3> QED
      BY <2>2, <3>1 DEF IsCall, Fields
  <2> QED
    BY <2>1, <2>2
<1> HIDE DEF next
<1>7. ASSUME NEW t \in VenueBars, gap[1] <= t, t <= gap[2],
             t < e.cursor \/ next = None \/ t < next
      PROVE  t \in stored
  <2>1. t \in Nat /\ t \in Available
    BY <1>3, <1>7, AvailableBars, SyncAssumption
  <2>2. CASE t < e.cursor
    <3>1. t \in gap[1] .. e.cursor - 1
      BY <1>1, <1>3, <1>7, <2>1, <2>2
    <3> QED
      BY <1>1, <3>1 DEF Filled
  <2>3. CASE ~(t < e.cursor)
    <3>1. e.cursor <= t /\ next # None /\ t < next
      BY <1>1, <1>4, <1>7, <2>1, <2>3
    <3>2. t \in page
      BY <1>4, <2>1, <3>1
    <3>3. t \in gap[1] .. gap[2]
      BY <1>3, <1>7, <2>1
    <3> QED
      BY <3>2, <3>3
  <2> QED
    BY <2>2, <2>3
<1>8. \A g \in capped \ e.left : Filled(g[1], g[2], stored)
  BY <1>1 DEF Filled
<1>9. CASE next # None /\ next <= gap[2]
  <2>1. d.left = e.left /\ d.cursor = next /\ next \in Nat /\ gap[1] <= next
    BY <1>1, <1>3, <1>4, <1>6, <1>9
  <2>2. Filled(gap[1], next - 1, stored)
    <3>1. ASSUME NEW t \in VenueBars \cap (gap[1] .. next - 1) PROVE t \in stored
      <4>1. gap[1] <= t /\ t <= gap[2] /\ t < next
        BY <1>3, <1>9, <2>1
      <4> QED
        BY <1>7, <4>1
    <3> QED
      BY <3>1 DEF Filled
  <2> HIDE DEF capped
  <2>3. Repairing(d, stored, now)
    BY <1>1, <1>6, <1>8, <1>9, <2>1, <2>2 DEF Repairing, capped
  <2>4. next <= e.req.until
    BY <1>2, <1>3, <1>9, <2>1
  <2>5. Walks(d, stored, now)
    BY <1>1, <1>6, <2>1, <2>3, <2>4 DEF Walks
  <2>6. e.cursor < d.cursor /\ d.cursor <= gap[2]
    BY <1>4, <1>9, <2>1
  <2>7. Advances(e, d)
    BY <1>6, <2>1, <2>6 DEF Advances
  <2> QED
    BY <1>1, <1>6, <2>1, <2>5, <2>7
<1>10. CASE ~(next # None /\ next <= gap[2])
  <2>1. d.left = left /\ d.cursor = first
    BY <1>6, <1>10
  <2>2. Filled(gap[1], gap[2], stored)
    <3>1. ASSUME NEW t \in VenueBars \cap (gap[1] .. gap[2]) PROVE t \in stored
      <4>1. gap[1] <= t /\ t <= gap[2] /\ t \in Int
        BY <1>3
      <4>2. next = None \/ t < next
        BY <1>3, <1>4, <1>10, <4>1
      <4> QED
        BY <1>7, <4>1, <4>2
    <3> QED
      BY <3>1 DEF Filled
  <2>3. \A g \in capped \ left : Filled(g[1], g[2], stored)
    BY <1>8, <2>2
  <2>4. ASSUME left = {} PROVE AllFilled(d.gaps, stored)
    BY <1>6, <2>3, <2>4 DEF AllFilled
  <2>5. ASSUME left # {} PROVE Walks(d, stored, now)
    <3> DEFINE g == FirstGap(left)
    <3>1. left \subseteq capped
      BY <1>1
    <3> HIDE DEF left
    <3>2. /\ g[1] \in Nat /\ g[2] \in Nat /\ g[1] <= g[2] /\ g[2] <= e.req.until
      BY <1>1, <2>5, <3>1, FirstLeft
    <3>3. first = g[1] /\ g = FirstGap(d.left)
      BY <2>1, <2>5
    <3> HIDE DEF g, first
    <3>4. Filled(g[1], first - 1, stored)
      <4>1. g[1] .. first - 1 = {}
        BY <3>2, <3>3
      <4> QED
        BY <4>1 DEF Filled
    <3> HIDE DEF capped
    <3>5. Repairing(d, stored, now)
      BY <1>1, <1>6, <2>1, <2>3, <2>5, <3>1, <3>2, <3>3, <3>4 DEF Repairing, capped
    <3>6. first \in Nat /\ first <= e.req.until
      BY <1>2, <3>2, <3>3
    <3> QED
      BY <1>1, <1>6, <2>1, <2>5, <3>5, <3>6 DEF Walks
  <2>6. Advances(e, d)
    <3>1. d.left = e.left \ {gap} /\ d.left # e.left
      BY <1>3, <2>1
    <3> QED
      BY <1>6, <3>1 DEF Advances
  <2> HIDE DEF left, first, capped
  <2> QED
    BY <1>6, <2>1, <2>4, <2>5, <2>6
<1> QED
  BY <1>9, <1>10

(* A page of a gap is stored, and the repair moves on or ends.             *)
LEMMA AfterGapPageGoes ==
  ASSUME Files, NEW c, Holds(c), c.pc = "gap", Walks(c, Bars, now), NEW o \in AfterGapPage(c)
  PROVE  Goes(o)
<1> DEFINE page == Answer(c.cursor, c.req.limit)
           gap == FirstGap(c.left)
           fill == Snapshot(page \cap (gap[1] .. gap[2]))
           e == [c EXCEPT !.filled = @ \/ Added(cache, fill) > 0]
           d == GapAdvanced(e, page)
           store == Upsert(cache, fill)
           m == Manifest(meta, fill)
           stored == DOMAIN store
<1>1. o \in GapStored(c, page, fill)
  BY DEF AfterGapPage
<1>2. AreSeen(fill) /\ DOMAIN fill = page \cap (gap[1] .. gap[2])
  <2>1. page \cap (gap[1] .. gap[2]) \in SUBSET Available
    BY AnswerIsAvailable
  <2> QED
    BY <2>1, SnapshotIsSeen DEF Snapshot
<1>3. stored = DOMAIN fill \cup Bars
  BY MergedRows DEF Upsert, Bars
<1>4. /\ IsCall(e) /\ e.pc = "gap" /\ e.buffer = c.buffer /\ e.cursor = c.cursor
      /\ e.req = c.req /\ e.gaps = c.gaps /\ e.left = c.left /\ e.repaired = c.repaired
  BY DEF Holds, IsCall, Fields
<1>5. o \in IF d.left = {} THEN RepairDone(d, store, m, "ok") ELSE {Outcome(store, m, d)}
  BY <1>1 DEF GapStored
<1>6. page = Answer(e.cursor, e.req.limit) /\ gap = FirstGap(e.left)
  BY <1>4
<1> HIDE DEF page, gap, fill, e
<1>7. Holds(e) /\ Walks(e, Bars, now)
  <2>1. Repairing(c, Bars, now)
    BY DEF Walks
  <2>2. Repairing(e, Bars, now)
    BY <1>4, <2>1 DEF Repairing
  <2> QED
    BY <1>4, <2>2 DEF Holds, Walks
<1>8. Holds(d) /\ d.pc = "gap"
  BY <1>4, <1>7, AdvancedHolds
<1>9. /\ AreSeen(store) /\ m \in Manifests /\ now \in Nat
  BY <1>2, CacheIsStored, UpsertStores, StoredIsSeen, ManifestIsOne DEF Files
<1> HIDE DEF store, m
<1>10. Bars \subseteq stored /\ page \cap (gap[1] .. gap[2]) \subseteq stored
  BY <1>2, <1>3
<1> HIDE DEF stored
<1>11. /\ d.gaps = e.gaps /\ d.req = e.req
       /\ d.left = {} => AllFilled(d.gaps, stored)
       /\ d.left # {} => Walks(d, stored, now)
  BY <1>4, <1>6, <1>7, <1>9, <1>10, GapAdvances
<1>12. d.req \in Requests /\ AreGaps(d.gaps, d.req, now)
  BY <1>4, <1>7, <1>11 DEF Walks, Repairing
<1> HIDE DEF d
<1>13. CASE d.left = {}
  <2>1. o \in RepairDone(d, store, m, "ok") /\ IsCall(d) /\ AllFilled(d.gaps, DOMAIN store)
    BY <1>5, <1>8, <1>11, <1>13 DEF Holds, stored
  <2> QED
    BY <1>9, <1>12, <2>1, RepairDoneGoes
<1>14. CASE d.left # {}
  <2>1. o = Outcome(store, m, d) /\ Walks(d, DOMAIN store, now)
    BY <1>5, <1>11, <1>14 DEF stored
  <2> QED
    BY <1>9, <2>1 DEF Goes, Outcome
<1> QED
  BY <1>13, <1>14

-----------------------------------------------------------------------------
(* The steps, once more.                                                   *)

(* A slot without a call repairs nothing.                                  *)
LEMMA IdleWalks ==
  ASSUME NEW stored, NEW n
  PROVE  Walks(NoCall, stored, n)
<1>1. /\ NoCall.pc = "idle" /\ NoCall.cursor = 0 /\ NoCall.repaired = 0 /\ NoCall.left = {}
  BY DEF NoCall
<1> QED
  BY <1>1 DEF Walks

(* The invariant holds at first.                                           *)
LEMMA InitWalks == Init => WalkInv
<1> SUFFICES ASSUME Init PROVE WalkInv
  OBVIOUS
<1>1. IInv
  BY InitInv
<1>2. \A s \in Syncs : call[s] = NoCall
  BY DEF Init
<1>3. now \in Nat /\ now \in FirstNow .. LastNow
  BY SyncAssumption DEF Init
<1>4. AreSeen(cache) /\ meta \in Manifests
  BY DEF Init, AreSeen, Manifests
<1>5. calls \in 0 .. MaxCalls /\ crashes \in 0 .. MaxCrashes
  BY SyncAssumption DEF Init
<1> QED
  BY <1>1, <1>2, <1>3, <1>4, <1>5, IdleWalks DEF WalkInv, Files

(* The stretch of one call: what it stores only helps the others.          *)
LEMMA ProceedWalks ==
  ASSUME WalkInv, NEW s \in Syncs, NEW O, \A o \in O : Sound(o) /\ Goes(o),
         Proceed(s, O), calls' \in 0 .. MaxCalls
  PROVE  WalkInv'
<1>1. PICK o \in O : /\ cache' = o.cache /\ meta' = o.meta
                     /\ call' = [call EXCEPT ![s] = o.call]
                     /\ UNCHANGED <<now, crashes>>
  BY DEF Proceed
<1>2. IInv'
  BY ProceedStep DEF WalkInv
<1>3. Stored(cache') /\ meta' \in Manifests /\ Walks(o.call, Bars', now)
  BY <1>1 DEF Sound, Goes, Bars
<1>4. AreSeen(cache') /\ Bars \subseteq Bars' /\ now \in Nat
  BY <1>3, StoredIsSeen DEF WalkInv, Files, Stored, Bars
<1>5. Files'
  BY <1>1, <1>3, <1>4 DEF Files, AreSeen
<1>6. ASSUME NEW x \in Syncs PROVE Walks(call'[x], Bars', now')
  <2>1. CASE x = s
    <3>1. call'[x] = o.call
      BY <1>1, <2>1 DEF WalkInv, IInv
    <3> QED
      BY <1>1, <1>3, <3>1
  <2>2. CASE x # s
    <3>1. call'[x] = call[x] /\ Walks(call[x], Bars, now)
      BY <1>1, <2>2 DEF WalkInv, IInv
    <3>2. Walks(call[x], Bars', now)
      BY <1>4, <3>1, WalksOn
    <3> QED
      BY <1>1, <3>1, <3>2
  <2> QED
    BY <2>1, <2>2
<1> QED
  BY <1>1, <1>2, <1>5, <1>6 DEF WalkInv

(* No call survives a crash.                                               *)
LEMMA DiedWalks ==
  ASSUME WalkInv, Died, Stored(cache'), meta' \in Manifests
  PROVE  WalkInv'
<1>1. /\ \A s \in Syncs : call'[s] = NoCall
      /\ now' = now /\ calls' = calls
  BY DEF Died
<1>2. crashes' \in 0 .. MaxCrashes
  BY SyncAssumption DEF Died, WalkInv
<1>3. IInv'
  BY DiedStep DEF WalkInv
<1>4. AreSeen(cache')
  BY StoredIsSeen DEF WalkInv, Files
<1>5. Files'
  BY <1>1, <1>4 DEF WalkInv, Files, AreSeen
<1>6. \A s \in Syncs : Walks(call'[s], Bars', now')
  BY <1>1, IdleWalks
<1> QED
  BY <1>1, <1>2, <1>3, <1>5, <1>6 DEF WalkInv

(* Whatever a call does with an answer keeps its course.                   *)
LEMMA AnsweredGoes ==
  ASSUME WalkInv, NEW s \in Syncs, NEW o \in Answered(s)
  PROVE  Sound(o) /\ Goes(o)
<1>1. Holds(call[s]) /\ Files /\ Walks(call[s], Bars, now) /\ IInv
  BY DEF WalkInv, IInv, Buffers
<1> QED
  BY <1>1, AnsweredIsSound, AfterPageGoes, AfterGapPageGoes DEF Answered

(* Every step keeps the invariant.                                         *)
LEMMA NextWalks ==
  ASSUME WalkInv, [Next]_vars
  PROVE  WalkInv'
<1>1. ASSUME NEW s \in Syncs, Arrives(s) PROVE WalkInv'
  <2>1. Proceed(s, Answered(s)) /\ calls' \in 0 .. MaxCalls
    BY <1>1 DEF Arrives, PageArrives, GapPageArrives, WalkInv
  <2> QED
    BY <2>1, AnsweredGoes, ProceedWalks
<1>2. ASSUME NEW s \in Syncs, PageFails(s) PROVE WalkInv'
  <2>0. call[s].pc = "page" /\ Proceed(s, PagesDone(call[s], "partial"))
    BY <1>2 DEF PageFails, Proceed, Broken
  <2>1. /\ Holds(call[s]) /\ Files /\ call[s].req \in Requests /\ call[s].repaired \in Int
        /\ Proceed(s, PagesDone(call[s], "partial")) /\ calls' \in 0 .. MaxCalls
    BY <1>2, <2>0 DEF PageFails, WalkInv, IInv, Buffers, Walks
  <2>2. \A o \in PagesDone(call[s], "partial") : Sound(o) /\ Goes(o)
    BY <2>1, PagesDoneIsSound, PagesDoneGoes
  <2> QED
    BY <2>1, <2>2, ProceedWalks
<1>3. ASSUME NEW s \in Syncs, GapPageFails(s) PROVE WalkInv'
  <2>1. /\ Holds(call[s]) /\ Files /\ Walks(call[s], Bars, now) /\ call[s].pc = "gap"
        /\ Proceed(s, RepairDone(call[s], cache, meta, "partial")) /\ calls' \in 0 .. MaxCalls
    BY <1>3 DEF GapPageFails, WalkInv, IInv, Buffers
  <2>2. call[s].req \in Requests /\ AreGaps(call[s].gaps, call[s].req, now) /\ IsCall(call[s])
    BY <2>1 DEF Walks, Repairing, Holds
  <2>3. \A o \in RepairDone(call[s], cache, meta, "partial") : Sound(o)
    BY <2>1, RepairDoneIsSound, CacheIsStored, ManifestKeeps
  <2>4. \A o \in RepairDone(call[s], cache, meta, "partial") : Goes(o)
    BY <2>1, <2>2, RepairDoneGoes DEF Files
  <2> QED
    BY <2>1, <2>3, <2>4, ProceedWalks
<1>4. ASSUME NEW s \in Syncs, Cancel(s) PROVE WalkInv'
  <2>1. IInv'
    BY <1>4, CancelStep DEF WalkInv
  <2>2. /\ call'[s] = NoCall /\ \A x \in Syncs \ {s} : call'[x] = call[x]
        /\ UNCHANGED <<now, cache, meta, calls, crashes>>
    BY <1>4 DEF Cancel, WalkInv, IInv
  <2>3. \A x \in Syncs : Walks(call'[x], Bars, now)
    BY <2>2, IdleWalks DEF WalkInv
  <2>4. Bars' = Bars
    BY <2>2 DEF Bars
  <2> QED
    BY <2>1, <2>2, <2>3, <2>4 DEF WalkInv, Files, AreSeen
<1>5. ASSUME NEW s \in Syncs, CrashInWrite(s) \/ CrashInStamp(s) PROVE WalkInv'
  <2>1. Died /\ Stored(cache')
    BY <1>5, CrashStores DEF WalkInv
  <2>2. meta' \in Manifests
    <3>1. meta \in Manifests
      BY DEF WalkInv, Files
    <3>2. CASE CrashInStamp(s)
      BY <3>2 DEF CrashInStamp, Manifests
    <3>3. CASE CrashInWrite(s)
      <4>1. meta' \in IF meta = "absent" THEN {"absent", "torn", "unsynced"} ELSE {meta}
        BY <3>3 DEF CrashInWrite
      <4> QED
        BY <3>1, <4>1 DEF Manifests
    <3> QED
      BY <1>5, <3>2, <3>3
  <2> QED
    BY <2>1, <2>2, DiedWalks
<1>6. ASSUME NEW s \in Syncs, NEW r \in Requests, Begin(s, r) PROVE WalkInv'
  <2>1. calls' \in 0 .. MaxCalls
    BY <1>6, SyncAssumption DEF Begin, Callable, WalkInv
  <2>2. \A o \in Started(r) : Sound(o) /\ Goes(o)
    BY StartedIsSound, StartedGoes DEF WalkInv
  <2> QED
    BY <1>6, <2>1, <2>2, ProceedWalks DEF Begin
<1>7. ASSUME Crash PROVE WalkInv'
  <2>1. Died /\ Stored(cache') /\ meta' \in Manifests
    BY <1>7 DEF Crash, Stored, WalkInv, Files
  <2> QED
    BY <2>1, DiedWalks
<1>8. ASSUME Tick PROVE WalkInv'
  <2>1. now' = now + 1 /\ now < LastNow /\ now \in Nat
        /\ UNCHANGED <<cache, meta, call, calls, crashes>>
    BY <1>8 DEF Tick, WalkInv, Files
  <2>2. IInv'
    BY <1>8, TickStep DEF WalkInv
  <2>3. now' \in Nat /\ now <= now' /\ now' \in FirstNow .. LastNow
    BY <2>1, SyncAssumption DEF WalkInv
  <2>4. \A t \in Cache!Published(now) :
          t \in Cache!Published(now') /\ Cache!Seen(t, now) \subseteq Cache!Seen(t, now')
    BY <2>1, SyncAssumption DEF Cache!Published, Cache!Seen
  <2>5. Files'
    BY <2>1, <2>3, <2>4 DEF WalkInv, Files, AreSeen
  <2>6. \A s \in Syncs : Walks(call[s], Bars, now')
    BY <2>1, <2>3, WalksOn DEF WalkInv
  <2>7. Bars' = Bars
    BY <2>1 DEF Bars
  <2> QED
    BY <2>1, <2>2, <2>3, <2>5, <2>6, <2>7 DEF WalkInv
<1>9. ASSUME UNCHANGED vars PROVE WalkInv'
  BY <1>9 DEF vars, WalkInv, Files, AreSeen, IInv, Buffers, AllStamped, StampedBy, Holds, Bars
<1> QED
  BY <1>1, <1>2, <1>3, <1>4, <1>5, <1>6, <1>7, <1>8, <1>9 DEF Next

-----------------------------------------------------------------------------
(* The variables keep their types, no call asks for bars beyond its window, *)
(* and a call repairs exactly as long as a gap it found is left             *)
(* (sync_history's two loops).                                              *)
THEOREM SyncIsTyped == Spec => []TypeOK
<1>1. WalkInv => TypeOK
  <2> SUFFICES ASSUME WalkInv PROVE TypeOK
    OBVIOUS
  <2>1. AreSeen(cache) /\ now \in Nat
    BY DEF WalkInv, Files
  <2>2. Bars \subseteq VenueBars /\ \A t \in Bars : cache[t] \in {"forming", "final"}
    BY <2>1 DEF AreSeen, Bars, Cache!Published, Cache!Seen
  <2>3. ASSUME NEW s \in Syncs
        PROVE  /\ call[s].pc \in {"idle", "page", "gap", "done"}
               /\ call[s].cursor \in Nat /\ call[s].repaired \in Int
               /\ DOMAIN call[s].buffer \subseteq Available
               /\ Active(s) => call[s].cursor <= call[s].req.until
               /\ call[s].left \subseteq call[s].gaps
               /\ (call[s].left # {}) = (call[s].pc = "gap")
    <3> DEFINE c == call[s]
    <3>1. Walks(c, Bars, now) /\ AreSeen(c.buffer)
      BY DEF WalkInv, IInv, Buffers, Holds
    <3>2. DOMAIN c.buffer \subseteq Available
      BY <3>1, SeenIsAvailable
    <3> HIDE DEF c
    <3>3. c.left \subseteq c.gaps /\ (c.left # {}) = (c.pc = "gap")
      <4>1. CASE c.pc = "gap"
        BY <3>1, <4>1, CappedOf DEF Walks, Repairing
      <4>2. CASE c.pc # "gap"
        BY <3>1, <4>2 DEF Walks
      <4> QED
        BY <4>1, <4>2
    <3> QED
      BY <3>1, <3>2, <3>3 DEF Walks, Active, c
  <2>4. meta \in {"absent", "torn", "unsynced", "synced"}
    BY DEF WalkInv, Files, Manifests
  <2> QED
    BY <2>2, <2>3, <2>4 DEF WalkInv, TypeOK
<1>2. Init => WalkInv
  BY InitWalks
<1>3. WalkInv /\ [Next]_vars => WalkInv'
  BY NextWalks
<1> QED
  BY <1>1, <1>2, <1>3, PTL DEF Spec

(* A sync that repairs and returns ok has stored every bar the venue has in *)
(* the gaps it found, at most MaxGapRepairs of them: its pages leave out no *)
(* bar on their way (fetch_ohlcv from the cursor on), the cursor leaves a   *)
(* gap only past its end, and nothing another call does takes a bar away.   *)
THEOREM GapsAreFilled == Spec => []GapsFilled
<1>1. WalkInv => GapsFilled
  BY DEF WalkInv, Walks, AllFilled, Filled, GapsFilled
<1>2. Init => WalkInv
  BY InitWalks
<1>3. WalkInv /\ [Next]_vars => WalkInv'
  BY NextWalks
<1> QED
  BY <1>1, <1>2, <1>3, PTL DEF Spec

-----------------------------------------------------------------------------
(* What every answer is good for.                                          *)

Moves(c, o) == o.call.pc = "done" \/ Advances(c, o.call)

(* A call that returns is done.                                            *)
LEMMA ReturnedIsDone ==
  ASSUME NEW c, IsCall(c), NEW store, NEW manifest, NEW status, NEW repaired
  PROVE  Returned(c, store, manifest, status, repaired).call.pc = "done"
BY DEF Returned, Outcome, IsCall, Fields

(* The end of the page loop ends the call, or begins with finitely many     *)
(* gaps.                                                                   *)
LEMMA PagesDoneMoves ==
  ASSUME Files, NEW c, Holds(c), c.req \in Requests, c.pc = "page",
         NEW status, NEW o \in PagesDone(c, status), NEW b, b.pc = "page", b.req = c.req
  PROVE  Moves(b, o)
<1> DEFINE d == Flushed(c)
           store == Upsert(cache, c.buffer)
           m == Manifest(meta, c.buffer)
           gaps == GapsOf(c.req, store)
           left == Capped(gaps)
           first == FirstGap(gaps)[1]
           w == [d EXCEPT !.pc = "gap", !.gaps = gaps, !.left = left, !.cursor = first]
           e == [d EXCEPT !.gaps = gaps]
<1>1. o = GapsFound(d, store, m, gaps, status)
  BY DEF PagesDone
<1>2. AreSeen(store) /\ now \in Nat
  BY UpsertStores, CacheIsStored, StoredIsSeen DEF Holds, Files
<1>3. IsCall(d) /\ d.req = c.req
  BY DEF Holds, IsCall, Fields, Flushed
<1>4. AreGaps(gaps, c.req, now)
  BY <1>2, WindowGaps
<1> HIDE DEF d, store, m, gaps
<1>5. IsFiniteSet(left)
  BY <1>4, CappedOf, FS_Subset DEF AreGaps
<1>6. o = Outcome(store, m, w) \/ o = Returned(e, store, m, status, 0)
  BY <1>1 DEF GapsFound
<1>7. CASE o = Outcome(store, m, w)
  <2> HIDE DEF left, first
  <2>1. w.pc = "gap" /\ w.left = left /\ w.req = c.req
    BY <1>3 DEF IsCall, Fields
  <2>2. o.call = w
    BY <1>7 DEF Outcome
  <2> HIDE DEF w
  <2> QED
    BY <1>5, <2>1, <2>2 DEF Moves, Advances
<1>8. CASE o = Returned(e, store, m, status, 0)
  <2>1. IsCall(e)
    BY <1>3 DEF IsCall, Fields
  <2> QED
    BY <1>8, <2>1, ReturnedIsDone DEF Moves
<1> QED
  BY <1>6, <1>7, <1>8

(* A page moves the cursor on in the window, or ends the loop.             *)
LEMMA AfterPageMoves ==
  ASSUME Files, NEW c, Holds(c), c.pc = "page", Walks(c, Bars, now), NEW o \in AfterPage(c)
  PROVE  Moves(c, o)
<1> DEFINE page == Answer(c.cursor, c.req.limit)
           rows == Snapshot({t \in page : t <= c.req.until})
           d == [c EXCEPT !.buffer = Merged(rows, @)]
           next == NextCursor(c.cursor, page)
<1>1. o \in Buffered(d, next)
  BY DEF AfterPage
<1>2. AreSeen(rows)
  BY AnswerIsAvailable, SnapshotIsSeen
<1>3. c.cursor \in Nat /\ c.req.limit \in Nat \ {0} /\ c.req.until \in Nat /\ c.req \in Requests
  BY SyncAssumption DEF Walks
<1>4. next # None => next \in Nat /\ c.cursor < next
  BY <1>3, AnswerLeavesNothingOut DEF Files
<1> HIDE DEF next, rows, page
<1>5. /\ IsCall(d) /\ d.pc = "page" /\ d.buffer = Merged(rows, c.buffer) /\ d.req = c.req
  BY DEF Holds, IsCall, Fields
<1> HIDE DEF d
<1>6. Holds(d)
  BY <1>2, <1>5, MergedIsSeen DEF Holds
<1> DEFINE on == [d EXCEPT !.cursor = next]
           flushed == [Flushed(d) EXCEPT !.cursor = next]
<1>7. /\ on.pc = "page" /\ on.req = c.req /\ on.cursor = next
      /\ flushed.pc = "page" /\ flushed.req = c.req /\ flushed.cursor = next
  BY <1>5 DEF IsCall, Fields, Flushed
<1>8. CASE next = None \/ next > c.req.until
  BY <1>1, <1>3, <1>5, <1>6, <1>8, PagesDoneMoves DEF Buffered
<1>9. CASE ~(next = None \/ next > c.req.until)
  <2>1. o \in {Outcome(cache, meta, on),
               Outcome(Upsert(cache, d.buffer), Manifest(meta, d.buffer), flushed)}
    BY <1>1, <1>5, <1>9 DEF Buffered
  <2>2. c.cursor < next /\ next <= c.req.until
    BY <1>3, <1>4, <1>9
  <2> HIDE DEF on, flushed
  <2>3. o.call \in {on, flushed}
    BY <2>1 DEF Outcome
  <2> QED
    BY <1>7, <2>2, <2>3 DEF Moves, Advances
<1> QED
  BY <1>8, <1>9

(* A page of a gap moves the cursor on in the gap, or leaves the gap, and   *)
(* with the last one the call ends.                                        *)
LEMMA AfterGapPageMoves ==
  ASSUME Files, NEW c, Holds(c), c.pc = "gap", Walks(c, Bars, now), NEW o \in AfterGapPage(c)
  PROVE  Moves(c, o)
<1> DEFINE page == Answer(c.cursor, c.req.limit)
           gap == FirstGap(c.left)
           fill == Snapshot(page \cap (gap[1] .. gap[2]))
           e == [c EXCEPT !.filled = @ \/ Added(cache, fill) > 0]
           d == GapAdvanced(e, page)
           store == Upsert(cache, fill)
           m == Manifest(meta, fill)
           stored == Bars \cup (page \cap (gap[1] .. gap[2]))
<1>1. o \in GapStored(c, page, fill)
  BY DEF AfterGapPage
<1>2. /\ IsCall(e) /\ e.pc = "gap" /\ e.buffer = c.buffer /\ e.cursor = c.cursor
      /\ e.req = c.req /\ e.gaps = c.gaps /\ e.left = c.left /\ e.repaired = c.repaired
  BY DEF Holds, IsCall, Fields
<1>3. o \in IF d.left = {} THEN RepairDone(d, store, m, "ok") ELSE {Outcome(store, m, d)}
  BY <1>1 DEF GapStored
<1>4. page = Answer(e.cursor, e.req.limit) /\ gap = FirstGap(e.left)
  BY <1>2
<1>5. Bars \subseteq stored /\ page \cap (gap[1] .. gap[2]) \subseteq stored
  OBVIOUS
<1> HIDE DEF page, gap, fill, e, stored
<1>6. Holds(e) /\ Walks(e, Bars, now) /\ now \in Nat
  <2>1. Repairing(c, Bars, now)
    BY DEF Walks
  <2>2. Repairing(e, Bars, now)
    BY <1>2, <2>1 DEF Repairing
  <2> QED
    BY <1>2, <2>2 DEF Holds, Walks, Files
<1>7. Holds(d) /\ d.pc = "gap"
  BY <1>2, <1>6, AdvancedHolds
<1>8. Advances(e, d)
  BY <1>2, <1>4, <1>5, <1>6, GapAdvances
<1> HIDE DEF d, store, m
<1>9. CASE d.left = {}
  <2>1. PICK repaired : o = Returned(d, store, m, "ok", repaired)
    BY <1>3, <1>9 DEF RepairDone
  <2> QED
    BY <1>7, <2>1, ReturnedIsDone DEF Moves, Holds
<1>10. CASE d.left # {}
  <2>1. o.call = d
    BY <1>3, <1>10 DEF Outcome
  <2>2. Advances(c, d)
    BY <1>2, <1>8 DEF Advances
  <2> QED
    BY <2>1, <2>2 DEF Moves
<1> QED
  BY <1>9, <1>10

(* Every answer ends the call or brings it on for good: further in its      *)
(* window, from the page loop to finitely many gaps, further in a gap, or   *)
(* to one gap fewer; so the loops of sync_history end without the backstop. *)
THEOREM EveryAnswerAdvances == Spec => []AnswersAdvance
<1>1. WalkInv => AnswersAdvance
  <2> SUFFICES ASSUME WalkInv, NEW s \in Syncs, NEW o \in Answered(s) PROVE Moves(call[s], o)
    BY DEF AnswersAdvance, Moves
  <2>1. Holds(call[s]) /\ Files /\ Walks(call[s], Bars, now)
    BY DEF WalkInv, IInv, Buffers
  <2> QED
    BY <2>1, AfterPageMoves, AfterGapPageMoves DEF Answered
<1>2. Init => WalkInv
  BY InitWalks
<1>3. WalkInv /\ [Next]_vars => WalkInv'
  BY NextWalks
<1> QED
  BY <1>1, <1>2, <1>3, PTL DEF Spec
=============================================================================
