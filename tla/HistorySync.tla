---------------------------- MODULE HistorySync ----------------------------
(***************************************************************************)
(* data/sync.py and data/store.py: concurrent sync_history calls on one    *)
(* dataset of the OHLCV cache.  A call suspends only while it awaits       *)
(* adapter.fetch_ohlcv; whatever follows an answer, up to the next fetch   *)
(* or the end, runs without interruption and is one action.                *)
(*                                                                         *)
(* Time counts bars of the timeframe.  The bar numbered `now' is forming,  *)
(* earlier ones are final; VenueBars are the bars in which the market      *)
(* trades at all.  The Parquet file is the function `cache' (replaced      *)
(* atomically), the sidecar manifest is `meta' (rewritten in place).       *)
(* The backstop of 100,000 pages is left out: no call comes near it.       *)
(*                                                                         *)
(* A comment that begins with "Slip" introduces a variant of the definition*)
(* below it with a plausible mistake in it.                                *)
(***************************************************************************)
EXTENDS Integers, FiniteSets, FiniteSetsExt

CONSTANTS Syncs,         \* slots for concurrent sync_history calls
          Requests,      \* records [since, until, limit, repair]
          VenueBars,     \* the bars the venue has
          FirstNow, LastNow,
          FlushAt,       \* _FLUSH_EVERY_BARS
          MaxGapRepairs, \* _MAX_GAP_REPAIRS
          MaxCalls,      \* bound: sync_history calls
          MaxCrashes,    \* bound: crashes of the process
          None

ASSUME SyncAssumption ==
  /\ VenueBars \subseteq Nat /\ FirstNow \in Nat /\ LastNow \in Nat /\ FirstNow <= LastNow
  /\ MaxGapRepairs \in Nat \ {0} /\ MaxCalls \in Nat /\ MaxCrashes \in Nat
  /\ \A r \in Requests : r.since \in Nat /\ r.until \in Nat /\ r.limit \in Nat \ {0}
  /\ None # "stamped" /\ None \notin Nat

VARIABLES now, cache, meta, call, calls, crashes
vars == <<now, cache, meta, call, calls, crashes>>

Bars == DOMAIN cache
Available == {t \in VenueBars : t <= now}
Snapshot(S) == [t \in S |-> IF t < now THEN "final" ELSE "forming"]

(* One row per bar, of the later rows where both have one.                 *)
Merged(new, old) ==
  [t \in DOMAIN new \cup DOMAIN old |-> IF t \in DOMAIN new THEN new[t] ELSE old[t]]

(* fetch_ohlcv: the venue's first `limit' bars from `cursor' on.           *)
Answer(cursor, limit) ==
  {t \in Available : t >= cursor /\ Cardinality({u \in Available : cursor <= u /\ u < t}) < limit}

(* Where the next page starts, None when the answer makes no progress.     *)
(* Slip: the step past the last bar is forgotten.                          *)
NextCursorSameBar(cursor, page) ==
  IF page = {} \/ Max(page) < cursor THEN None ELSE Max(page)
NextCursor(cursor, page) ==
  IF page = {} \/ Max(page) + 1 <= cursor THEN None ELSE Max(page) + 1

-----------------------------------------------------------------------------
(* data/quality.py on the bar numbers of a series.                         *)
Window(S, since, until) == {t \in S : since <= t /\ t <= until}

DetectGaps(S) ==
  {g \in {<<a + 1, b - 1>> : a \in S, b \in S \ {0}} :
     g[1] <= g[2] /\ \A t \in g[1] .. g[2] : t \notin S}

(* The gap the repair turns to first, and the first MaxGapRepairs gaps.    *)
FirstGap(G) == CHOOSE g \in G : \A h \in G : g[1] <= h[1]
Capped(G) == {g \in G : Cardinality({h \in G : h[1] < g[1]}) < MaxGapRepairs}

-----------------------------------------------------------------------------
(* data/store.py *)
(* Slip: the cached rows are not read back before the file is rewritten.   *)
UpsertReplacing(store, new) == IF DOMAIN new = {} THEN store ELSE new
Upsert(store, new) == Merged(new, store)

Added(store, new) == Cardinality(DOMAIN Upsert(store, new)) - Cardinality(DOMAIN store)

(* _write_bars only makes sure that a manifest exists, and keeps its stamp. *)
(* Slip: the manifest is written anew with every upsert.                   *)
ManifestAnew(manifest, new) == IF DOMAIN new = {} THEN manifest ELSE "unsynced"
Manifest(manifest, new) ==
  IF DOMAIN new # {} /\ manifest = "absent" THEN "unsynced" ELSE manifest

(* last_timestamp and dataset_info: a manifest that is missing, torn or    *)
(* not an object reads as one without a stamp.                             *)
LastTimestamp == IF Bars = {} THEN None ELSE Max(Bars)
LastSynced == IF meta = "synced" THEN "stamped" ELSE None
DatasetInfo == [row_count |-> Cardinality(Bars), end |-> LastTimestamp, last_synced |-> LastSynced]

-----------------------------------------------------------------------------
NoCall == [pc |-> "idle", req |-> None, cursor |-> 0, buffer |-> << >>,
           gaps |-> {}, left |-> {}, filled |-> FALSE, repaired |-> 0, status |-> None]

Active(s) == call[s].pc \in {"page", "gap"}

Init == /\ now = FirstNow
        /\ cache = << >>
        /\ meta = "absent"
        /\ call = [s \in Syncs |-> NoCall]
        /\ calls = 0 /\ crashes = 0

(* What a stretch between two fetches leaves: the files and the call.  An  *)
(* operator below that ends a stretch gives the set of its outcomes.       *)
Outcome(store, manifest, c) == [cache |-> store, meta |-> manifest, call |-> c]

Flushed(c) == [c EXCEPT !.buffer = << >>]

(* The end of sync_history: the manifest is stamped unless the sync is     *)
(* partial, and the result is returned.                                    *)
Returned(c, store, manifest, status, repaired) ==
  Outcome(store, IF status = "partial" THEN manifest ELSE "synced",
          [c EXCEPT !.pc = "done", !.repaired = repaired, !.left = {}, !.cursor = 0,
                    !.status = IF DOMAIN store = {} /\ status # "partial"
                               THEN "empty" ELSE status])

GapsOf(r, store) == DetectGaps(Window(DOMAIN store, r.since, r.until))

(* After the gap pass: the gaps are counted again if any bar was added.    *)
RepairDone(c, store, manifest, status) ==
  {Returned(c, store, manifest, status,
            IF c.filled THEN Cardinality(c.gaps) - Cardinality(g) ELSE 0) :
     g \in {GapsOf(c.req, store)}}

(* After the page loop: the buffer is flushed, the gaps of the window are  *)
(* looked for, and repaired if the call asks for it.                       *)
GapsFound(c, store, manifest, gaps, status) ==
  IF c.req.repair /\ gaps # {} /\ status # "partial"
  THEN Outcome(store, manifest, [c EXCEPT !.pc = "gap", !.gaps = gaps, !.left = Capped(gaps),
                                          !.cursor = FirstGap(gaps)[1]])
  ELSE Returned([c EXCEPT !.gaps = gaps], store, manifest, status, 0)
PagesDone(c, status) ==
  UNION {{GapsFound(Flushed(c), store, Manifest(meta, c.buffer), gaps, status) :
             gaps \in {GapsOf(c.req, store)}} : store \in {Upsert(cache, c.buffer)}}

(* sync_history is called: the cursor is placed after the last cached bar, *)
(* and the first page is asked for unless nothing is left to fetch.        *)
Started(r) ==
  LET cursor == IF LastTimestamp = None THEN r.since ELSE Max({r.since, LastTimestamp + 1})
      c == [NoCall EXCEPT !.pc = "page", !.req = r, !.cursor = cursor]
  IN IF cursor <= r.until THEN {Outcome(cache, meta, c)} ELSE PagesDone(c, "ok")

(* A page has arrived: its bars up to `until' are buffered, and flushed    *)
(* when there are enough of them or the loop ends.                         *)
(* Slip: the loop goes on as long as pages come.                           *)
BufferedPastUntil(c, next) ==
  IF next = None THEN PagesDone(c, "ok") ELSE {Outcome(cache, meta, [c EXCEPT !.cursor = next])}
Buffered(c, next) ==
  IF next = None \/ next > c.req.until THEN PagesDone(c, "ok")
  ELSE IF Cardinality(DOMAIN c.buffer) >= FlushAt
       THEN {Outcome(Upsert(cache, c.buffer), Manifest(meta, c.buffer),
                     [Flushed(c) EXCEPT !.cursor = next])}
       ELSE {Outcome(cache, meta, [c EXCEPT !.cursor = next])}
AfterPage(c) ==
  UNION {UNION {Buffered(d, NextCursor(c.cursor, page)) :
            d \in {[c EXCEPT !.buffer = Merged(Snapshot({t \in page : t <= c.req.until}), @)]}} :
         page \in {Answer(c.cursor, c.req.limit)}}

(* Where the repair goes on: further in the same gap, or in the next one.  *)
(* Slip: one page per gap.                                                 *)
GapAdvancedOnce(c, page) ==
  LET left == c.left \ {FirstGap(c.left)}
  IN [c EXCEPT !.left = left, !.cursor = IF left = {} THEN @ ELSE FirstGap(left)[1]]
GapAdvanced(c, page) ==
  LET gap == FirstGap(c.left)
      next == NextCursor(c.cursor, page)
      left == c.left \ {gap}
  IN IF next # None /\ next <= gap[2] THEN [c EXCEPT !.cursor = next]
     ELSE [c EXCEPT !.left = left, !.cursor = IF left = {} THEN @ ELSE FirstGap(left)[1]]

(* A page of a gap has arrived: the bars of the gap are stored at once.    *)
GapStored(c, page, fill) ==
  LET d == GapAdvanced([c EXCEPT !.filled = @ \/ Added(cache, fill) > 0], page)
      store == Upsert(cache, fill)
  IN IF d.left = {} THEN RepairDone(d, store, Manifest(meta, fill), "ok")
     ELSE {Outcome(store, Manifest(meta, fill), d)}
AfterGapPage(c) ==
  LET gap == FirstGap(c.left)
  IN UNION {UNION {GapStored(c, page, fill) :
                      fill \in {Snapshot(page \cap (gap[1] .. gap[2]))}} :
            page \in {Answer(c.cursor, c.req.limit)}}

Answered(s) == CASE call[s].pc = "page" -> AfterPage(call[s])
                 [] call[s].pc = "gap"  -> AfterGapPage(call[s])
                 [] OTHER               -> {}

Proceed(s, outcomes) == \E o \in outcomes : /\ cache' = o.cache /\ meta' = o.meta
                                            /\ call' = [call EXCEPT ![s] = o.call]
                                            /\ UNCHANGED <<now, crashes>>

-----------------------------------------------------------------------------
Callable(s, r) == ~Active(s) /\ calls < MaxCalls /\ r.until > r.since
Begin(s, r) == /\ Callable(s, r)
               /\ calls' = calls + 1
               /\ Proceed(s, Started(r))

PageArrives(s) == call[s].pc = "page" /\ Proceed(s, Answered(s)) /\ UNCHANGED calls
GapPageArrives(s) == call[s].pc = "gap" /\ Proceed(s, Answered(s)) /\ UNCHANGED calls

(* The fetch fails: what is buffered is kept, and the sync is partial.     *)
Broken(s) == IF call[s].pc = "page" THEN PagesDone(call[s], "partial") ELSE {}
PageFails(s) == Proceed(s, Broken(s)) /\ UNCHANGED calls
GapPageFails(s) == /\ call[s].pc = "gap"
                   /\ Proceed(s, RepairDone(call[s], cache, meta, "partial"))
                   /\ UNCHANGED calls

(* The client cancels the call while it awaits a page: the buffer is lost. *)
Cancel(s) == /\ Active(s)
             /\ call' = [call EXCEPT ![s] = NoCall]
             /\ UNCHANGED <<now, cache, meta, calls, crashes>>

Died == /\ crashes < MaxCrashes /\ crashes' = crashes + 1
        /\ call' = [s \in Syncs |-> NoCall]
        /\ UNCHANGED <<now, calls>>

(* The process dies and is started again: between two writes, ...          *)
Crash == Died /\ UNCHANGED <<cache, meta>>

(* ... after the rename of the Parquet file (before a first manifest is     *)
(* written, half-way through it, or before the call goes on), ...          *)
CrashInWrite(s) == \E o \in Answered(s) \cup Broken(s) :
  /\ o.cache # cache /\ cache' = o.cache
  /\ meta' \in IF meta = "absent" THEN {"absent", "torn", "unsynced"} ELSE {meta}
  /\ Died

(* ... or half-way through the stamp, which is written in place, by a call *)
(* that was answered or that found nothing left to fetch.                  *)
Complete(c) == c.pc = "done" /\ c.status # "partial"
CrashInStamp(s) ==
  \E o \in Answered(s) \cup UNION {Started(r) : r \in {q \in Requests : Callable(s, q)}} :
    /\ Complete(o.call)
    /\ cache' = o.cache /\ meta' = "torn"
    /\ Died

Tick == /\ now < LastNow /\ now' = now + 1
        /\ UNCHANGED <<cache, meta, call, calls, crashes>>

Arrives(s) == PageArrives(s) \/ GapPageArrives(s)

Next == \/ \E s \in Syncs : \/ Arrives(s) \/ PageFails(s) \/ GapPageFails(s)
                            \/ Cancel(s) \/ CrashInWrite(s) \/ CrashInStamp(s)
        \/ \E s \in Syncs, r \in Requests : Begin(s, r)
        \/ Crash \/ Tick

(* A fetch that does not fail is answered: the adapter bounds the time of  *)
(* an attempt and the number of attempts, and the event loop resumes the   *)
(* call.  Nothing forces a fetch to fail.                                  *)
Spec == Init /\ [][Next]_vars /\ \A s \in Syncs : WF_vars(Arrives(s))

-----------------------------------------------------------------------------
(* The variables keep their types; a call never fetches from beyond its    *)
(* window, and repairs as long as a gap it found is left.                  *)
TypeOK ==
  /\ now \in FirstNow .. LastNow
  /\ Bars \subseteq VenueBars /\ \A t \in Bars : cache[t] \in {"forming", "final"}
  /\ meta \in {"absent", "torn", "unsynced", "synced"}
  /\ calls \in 0 .. MaxCalls /\ crashes \in 0 .. MaxCrashes
  /\ \A s \in Syncs :
       /\ call[s].pc \in {"idle", "page", "gap", "done"}
       /\ call[s].cursor \in Nat /\ call[s].repaired \in Int
       /\ DOMAIN call[s].buffer \subseteq Available
       /\ Active(s) => call[s].cursor <= call[s].req.until
       /\ call[s].left \subseteq call[s].gaps
       /\ (call[s].left # {}) = (call[s].pc = "gap")

(* A repairing sync that returns ok has every bar the venue has in the     *)
(* gaps it found (as many as it repairs at most), however small its pages  *)
(* and whatever other calls stored meanwhile.                              *)
GapsFilled ==
  \A s \in Syncs :
    call[s].pc = "done" /\ call[s].status = "ok" /\ call[s].req.repair =>
      \A g \in Capped(call[s].gaps) : VenueBars \cap (g[1] .. g[2]) \subseteq Bars

(* The stamp tells of a complete sync: whenever a sync returns without a    *)
(* failure the dataset is shown as synced, and from then on no upsert, no   *)
(* failed, cancelled or concurrent sync and no crash, be it between two     *)
(* writes or in one, takes the stamp away, but for a crash in the middle of *)
(* a later stamp, which is written in place; and the next complete sync     *)
(* stamps the dataset again.                                               *)
Stamped == DatasetInfo.last_synced # None
StampSticks ==
  [][ /\ \A s \in Syncs : Complete(call'[s]) => Stamped'
      /\ Stamped => Stamped' \/ \E s \in Syncs : CrashInStamp(s) ]_vars

(* The synced dataset is a growing cache of published candles: no bar ever *)
(* disappears, and none appears that the venue has not published.          *)
Cache == INSTANCE HistoryCache
OnlyGrows == Cache!Spec

(* Every sync ends: each page advances the cursor or ends a loop, even     *)
(* without the backstop of 100,000 pages.                                  *)
SyncEnds == \A s \in Syncs : Active(s) ~> ~Active(s)

(* What sync.py:14-15 promises: the same request "yields identical,        *)
(* fully-backfilled" bars.  A sync that returns ok has every bar of its    *)
(* window that the venue had when it was called.                           *)
FullyBackfilled ==
  \A s \in Syncs :
    call[s].pc = "done" /\ call[s].status = "ok" =>
      {t \in VenueBars : t <= FirstNow /\ call[s].req.since <= t /\ t <= call[s].req.until}
        \subseteq Bars

(* gaps_repaired counts "how many gaps the repair actually closed"         *)
(* (sync.py:254): never less than none.                                    *)
RepairedIsACount == \A s \in Syncs : call[s].repaired >= 0
=============================================================================
