--------------------------- MODULE SessionLifecycle ---------------------------
(* One execution session: deploy_strategy and stop_strategy calls of any    *)
(* number of clients, and the asyncio tasks that run the deployed           *)
(* strategies over their feeds.                                             *)
(*                                                                         *)
(* Every deploy_strategy call binds a runtime (with its broker) of its own  *)
(* and starts at most one task, over a feed of its own, so the call also    *)
(* names its runtime, its task and its feed.  A task started by one call    *)
(* may drive the runtime of another: it drives whatever the session holds   *)
(* when it is started.  (That takes a deploy that gives way in manager.get, *)
(* an await that finds its lock free and returns at once.  The module lets  *)
(* others run there all the same: what it shows does not rest on it.)       *)
(*                                                                         *)
(* A comment that begins with "Slip" introduces a variant of the definition *)
(* below it with a plausible mistake in it.                                 *)
EXTENDS Naturals, FiniteSets

CONSTANTS
  Deploys,   (* deploy_strategy calls *)
  Stops,     (* stop_strategy calls   *)
  None       (* Python's None         *)

ASSUME NoneAssumption == None \notin Deploys

VARIABLES
  mode,        (* the session's mode                                        *)
  runtime,     (* session.runtime (and session.broker, bound with it)       *)
  task,        (* session.task                                              *)
  state,       (* session.state                                             *)
  error,       (* is session.error set?                                     *)
  deploying,   (* where each deploy_strategy call is                        *)
  loop,        (* where each task is                                        *)
  drives,      (* the runtime each task drives                              *)
  cancelling,  (* has the task been cancelled and not yet noticed?          *)
  stopped,     (* StrategyRuntime._stopped, per runtime                     *)
  open,        (* does the runtime's broker hold a position?                *)
  finalized,   (* history: was the runtime force-closed after it was told   *)
               (* to stop?                                                  *)
  stopping,    (* where each stop_strategy call is                          *)
  awaited      (* the task each stop_strategy call cancelled and awaits     *)

session == <<runtime, task, state, error>>
tasks   == <<loop, drives, cancelling>>
brokers == <<stopped, open, finalized>>
clients == <<deploying, stopping, awaited>>
vars    == <<mode, session, tasks, brokers, clients>>

(* task is not None and not task.done()                                     *)
Live(t) == t # None /\ loop[t] \in {"created", "feed", "yield"}

Init ==
  /\ mode \in {"paper", "testnet"}
  /\ runtime = None
  /\ task = None
  /\ state = "stopped"
  /\ error = FALSE
  /\ deploying = [d \in Deploys |-> "idle"]
  /\ loop = [d \in Deploys |-> "none"]
  /\ drives = [d \in Deploys |-> None]
  /\ cancelling = [d \in Deploys |-> FALSE]
  /\ stopped = [d \in Deploys |-> FALSE]
  /\ open = [d \in Deploys |-> FALSE]
  /\ finalized = [d \in Deploys |-> FALSE]
  /\ stopping = [s \in Stops |-> "idle"]
  /\ awaited = [s \in Stops |-> None]

-----------------------------------------------------------------------------
(* deploy_strategy.                                                        *)

(* Slip: the running task is not looked at.                                 *)
StartRegardless(d, g) ==
  /\ task' = d
  /\ loop' = [loop EXCEPT ![d] = "created"]
  /\ drives' = [drives EXCEPT ![d] = g]
  /\ deploying' = [deploying EXCEPT ![d] = "returned"]

(* Slip: the task does not keep the runtime it was started with.            *)
StartUnbound(d, g) ==
  /\ ~Live(task)
  /\ task' = d
  /\ loop' = [loop EXCEPT ![d] = "created"]
  /\ deploying' = [deploying EXCEPT ![d] = "returned"]
  /\ UNCHANGED drives

(* SessionRegistry.start, given that session.runtime is g.                  *)
Start(d, g) ==
  \/ /\ ~Live(task)
     /\ task' = d
     /\ loop' = [loop EXCEPT ![d] = "created"]
     /\ drives' = [drives EXCEPT ![d] = g]
     /\ deploying' = [deploying EXCEPT ![d] = "returned"]
  \/ /\ Live(task)
     /\ deploying' = [deploying EXCEPT ![d] = "raised"]
     /\ UNCHANGED <<task, loop, drives>>

(* A paper deploy reads its replay feed without awaiting.  The runtime is   *)
(* bound before start looks at the running task.                            *)
DeployPaper(d) ==
  /\ mode = "paper"
  /\ deploying[d] = "idle"
  /\ runtime' = d
  /\ Start(d, d)
  /\ UNCHANGED <<mode, state, error, cancelling, brokers, stopping, awaited>>

(* A testnet deploy awaits manager.get between the two (see the header).    *)
DeployTestnet(d) ==
  /\ mode = "testnet"
  /\ deploying[d] = "idle"
  /\ runtime' = d
  /\ deploying' = [deploying EXCEPT ![d] = "adapter"]
  /\ UNCHANGED <<mode, task, state, error, tasks, brokers, stopping, awaited>>

FeedReady(d) ==
  /\ deploying[d] = "adapter"
  /\ Start(d, runtime)
  /\ UNCHANGED <<mode, runtime, state, error, cancelling, brokers, stopping,
                 awaited>>

FeedUnavailable(d) ==
  /\ deploying[d] = "adapter"
  /\ deploying' = [deploying EXCEPT ![d] = "raised"]
  /\ UNCHANGED <<mode, session, tasks, brokers, stopping, awaited>>

-----------------------------------------------------------------------------
(* The task: _runner around StrategyRuntime.run.                           *)

Resumes(d) == Live(d) /\ ~cancelling[d]

(* The first step of the task sets session.state to running.                *)
StateOnResume(d) == IF loop[d] = "created" THEN "running" ELSE state

(* Slip: the stop flag is read after the bar.                               *)
LoopBarThenCheck(d) ==
  /\ Resumes(d)
  /\ loop' = [loop EXCEPT ![d] = "yield"]
  /\ state' = StateOnResume(d)
  /\ \E o \in BOOLEAN : open' = [open EXCEPT ![drives[d]] = o]
  /\ UNCHANGED <<mode, runtime, task, error, drives, cancelling, stopped,
                 finalized, clients>>

(* A bar arrives: the broker may open or close its position.                *)
LoopBar(d) ==
  /\ Resumes(d)
  /\ ~stopped[drives[d]]
  /\ loop' = [loop EXCEPT ![d] = "yield"]
  /\ state' = StateOnResume(d)
  /\ \E o \in BOOLEAN : open' = [open EXCEPT ![drives[d]] = o]
  /\ UNCHANGED <<mode, runtime, task, error, drives, cancelling, stopped,
                 finalized, clients>>

(* The live feed has no bar yet.                                            *)
LoopWaits(d) ==
  /\ mode = "testnet"
  /\ Resumes(d) /\ loop[d] # "feed"
  /\ loop' = [loop EXCEPT ![d] = "feed"]
  /\ state' = StateOnResume(d)
  /\ UNCHANGED <<mode, runtime, task, error, drives, cancelling, brokers,
                 clients>>

(* The replay is exhausted, or a bar arrives and the stop flag is set.      *)
LoopEnds(d) ==
  /\ Resumes(d)
  /\ mode = "paper" \/ stopped[drives[d]]
  /\ loop' = [loop EXCEPT ![d] = "done"]
  /\ state' = "stopped"
  /\ UNCHANGED <<mode, runtime, task, error, drives, cancelling, brokers,
                 clients>>

(* The feed, or the strategy in the middle of a bar, raises.                *)
LoopRaises(d) ==
  /\ Resumes(d)
  /\ loop' = [loop EXCEPT ![d] = "done"]
  /\ state' = "error"
  /\ error' = TRUE
  /\ \/ /\ mode = "testnet"
        /\ UNCHANGED open
     \/ /\ ~stopped[drives[d]]
        /\ \E o \in BOOLEAN : open' = [open EXCEPT ![drives[d]] = o]
  /\ UNCHANGED <<mode, runtime, task, drives, cancelling, stopped, finalized,
                 clients>>

(* Slip: CancelledError passes through without setting session.state.       *)
LoopCancelledSilently(d) ==
  /\ Live(d) /\ cancelling[d]
  /\ loop' = [loop EXCEPT ![d] = "done"]
  /\ UNCHANGED <<mode, session, drives, cancelling, brokers, clients>>

(* CancelledError is raised at the await; in a task that has not yet run,   *)
(* before the try block, so that session.state keeps its value.             *)
LoopCancelled(d) ==
  /\ Live(d) /\ cancelling[d]
  /\ loop' = [loop EXCEPT ![d] = "done"]
  /\ state' = IF loop[d] = "created" THEN state ELSE "stopped"
  /\ UNCHANGED <<mode, runtime, task, error, drives, cancelling, brokers,
                 clients>>

-----------------------------------------------------------------------------
(* stop_strategy.                                                          *)

(* Slip: the state is overwritten whatever it was.                          *)
FinalizeAndForget(s, stop) ==
  /\ open' = [d \in Deploys |-> open[d] /\ d # runtime]
  /\ finalized' = [d \in Deploys |-> finalized[d] \/ (d = runtime /\ stop[d])]
  /\ stopped' = stop
  /\ state' = "stopped"
  /\ stopping' = [stopping EXCEPT ![s] = "returned"]

(* Whatever session.runtime is now is force-closed.                         *)
Finalize(s, stop) ==
  /\ open' = [d \in Deploys |-> open[d] /\ d # runtime]
  /\ finalized' = [d \in Deploys |-> finalized[d] \/ (d = runtime /\ stop[d])]
  /\ stopped' = stop
  /\ state' = IF state = "error" THEN state ELSE "stopped"
  /\ stopping' = [stopping EXCEPT ![s] = "returned"]

(* Slip: the loop is only flagged, not cancelled.                           *)
StopByFlag(s) ==
  LET stop == [d \in Deploys |-> stopped[d] \/ d = runtime]
  IN /\ stopping[s] = "idle"
     /\ \/ /\ Live(task)
           /\ stopped' = stop
           /\ awaited' = [awaited EXCEPT ![s] = task]
           /\ stopping' = [stopping EXCEPT ![s] = "awaiting"]
           /\ UNCHANGED <<cancelling, state, open, finalized>>
        \/ /\ ~Live(task)
           /\ Finalize(s, stop)
           /\ UNCHANGED <<cancelling, awaited>>
     /\ UNCHANGED <<mode, runtime, task, error, loop, drives, deploying>>

(* The runtime is flagged, and a live task is cancelled and awaited.        *)
StopStrategy(s) ==
  LET stop == [d \in Deploys |-> stopped[d] \/ d = runtime]
  IN /\ stopping[s] = "idle"
     /\ \/ /\ Live(task)
           /\ stopped' = stop
           /\ cancelling' = [cancelling EXCEPT ![task] = TRUE]
           /\ awaited' = [awaited EXCEPT ![s] = task]
           /\ stopping' = [stopping EXCEPT ![s] = "awaiting"]
           /\ UNCHANGED <<state, open, finalized>>
        \/ /\ ~Live(task)
           /\ Finalize(s, stop)
           /\ UNCHANGED <<cancelling, awaited>>
     /\ UNCHANGED <<mode, runtime, task, error, loop, drives, deploying>>

(* The awaited task is done.                                                *)
StopResumes(s) ==
  /\ stopping[s] = "awaiting"
  /\ ~Live(awaited[s])
  /\ Finalize(s, stopped)
  /\ UNCHANGED <<mode, runtime, task, error, tasks, deploying, awaited>>

LoopResumes(d) ==
  LoopBar(d) \/ LoopWaits(d) \/ LoopEnds(d) \/ LoopRaises(d)

Next ==
  \/ \E d \in Deploys :
       \/ DeployPaper(d)
       \/ DeployTestnet(d)
       \/ FeedReady(d)
       \/ FeedUnavailable(d)
       \/ LoopResumes(d)
       \/ LoopCancelled(d)
  \/ \E s \in Stops : StopStrategy(s) \/ StopResumes(s)

Spec == Init /\ [][Next]_vars

(* The event loop runs every task that is ready: a cancelled one, and a     *)
(* stop call whose task is done.  The feed owes no bar.                     *)
FairSpec ==
  /\ Spec
  /\ \A d \in Deploys : WF_vars(LoopCancelled(d))
  /\ \A s \in Stops : WF_vars(StopResumes(s))

-----------------------------------------------------------------------------
(* Properties.                                                             *)

(* Every variable holds a value of its kind.                                *)
TypeOK ==
  /\ mode \in {"paper", "testnet"}
  /\ runtime \in Deploys \cup {None}
  /\ task \in Deploys \cup {None}
  /\ state \in {"stopped", "running", "error"}
  /\ error \in BOOLEAN
  /\ deploying \in [Deploys -> {"idle", "adapter", "returned", "raised"}]
  /\ loop \in [Deploys -> {"none", "created", "feed", "yield", "done"}]
  /\ drives \in [Deploys -> Deploys \cup {None}]
  /\ \A d \in Deploys : loop[d] # "none" => drives[d] \in Deploys
  /\ cancelling \in [Deploys -> BOOLEAN]
  /\ stopped \in [Deploys -> BOOLEAN]
  /\ open \in [Deploys -> BOOLEAN]
  /\ finalized \in [Deploys -> BOOLEAN]
  /\ stopping \in [Stops -> {"idle", "awaiting", "returned"}]
  /\ awaited \in [Stops -> Deploys \cup {None}]

(* However deploys, stops and loops that end or fail follow one another, a  *)
(* session never has two loops trading at once, and the one it has is the   *)
(* one session.task names and stop would cancel.                            *)
OneLoop == \A d \in Deploys : Live(d) => d = task

(* A runtime that was told to stop and was then force-closed never trades   *)
(* again: its inventory stays closed, whatever loop is still to notice its  *)
(* cancellation, and even if a deploy were to start it once more.           *)
FinalizedStaysFlat ==
  \A d \in Deploys : finalized[d] => ~open[d]

(* get_session_status never reports running when no loop is left.           *)
RunningMeansLive == state = "running" => Live(task)

(* A failure stays visible: only a loop that starts to run replaces the     *)
(* error state, never a stop, a second stop or a cancellation.              *)
ErrorSticks ==
  [][state = "error" /\ state' # "error" =>
       \E d \in Deploys : loop[d] = "created" /\ loop'[d] # "created"]_vars

(* stop_strategy returns, however silent the feed is.                       *)
StopReturns ==
  \A s \in Stops : stopping[s] = "awaiting" ~> stopping[s] = "returned"

-----------------------------------------------------------------------------
(* What the tool promises and the code does not keep.                       *)

(* "Stop a running session: cancel its run loop, force-close open inventory *)
(* for end-of-session accounting": the loop that stop cancelled leaves no   *)
(* open position behind.                                                    *)
StopForceCloses ==
  \A s \in Stops :
     stopping[s] = "returned" /\ awaited[s] # None => ~open[drives[awaited[s]]]
=============================================================================
