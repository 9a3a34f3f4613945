------------------------ MODULE SessionLifecycleProofs ------------------------
(* Proofs about SessionLifecycle, for any number of deploys and stops.      *)
EXTENDS SessionLifecycle, TLAPS

-----------------------------------------------------------------------------
(* Type correctness.                                                       *)

(* session.task is a task whenever it is live.                              *)
LEMMA LiveIsDeploy ==
  ASSUME TypeOK, NEW t \in Deploys \cup {None}, Live(t)
  PROVE  t \in Deploys
BY DEF Live

(* A new session is of its type.                                           *)
LEMMA InitType == Init => TypeOK
<1> SUFFICES ASSUME Init PROVE TypeOK
  OBVIOUS
<1>1. \A d \in Deploys : loop[d] # "none" => drives[d] \in Deploys
  BY DEF Init
<1> QED
  BY <1>1 DEF Init, TypeOK

(* Starting a task, or refusing to, keeps the types.                        *)
LEMMA StartType ==
  ASSUME TypeOK, NEW d \in Deploys, NEW g \in Deploys, Start(d, g)
  PROVE  /\ task' \in Deploys \cup {None}
         /\ loop' \in [Deploys -> {"none", "created", "feed", "yield", "done"}]
         /\ drives' \in [Deploys -> Deploys \cup {None}]
         /\ \A e \in Deploys : loop'[e] # "none" => drives'[e] \in Deploys
         /\ deploying' \in
              [Deploys -> {"idle", "adapter", "returned", "raised"}]
BY DEF TypeOK, Start

(* Force-closing keeps the types.                                           *)
LEMMA FinalizeType ==
  ASSUME TypeOK, NEW s \in Stops, NEW stop \in [Deploys -> BOOLEAN],
         Finalize(s, stop)
  PROVE  /\ open' \in [Deploys -> BOOLEAN]
         /\ finalized' \in [Deploys -> BOOLEAN]
         /\ stopped' \in [Deploys -> BOOLEAN]
         /\ state' \in {"stopped", "running", "error"}
         /\ stopping' \in [Stops -> {"idle", "awaiting", "returned"}]
BY DEF TypeOK, Finalize

(* A call that waits for its adapter has bound a runtime to the session.    *)
Bound == \A d \in Deploys : deploying[d] = "adapter" => runtime \in Deploys

(* Every step keeps the types and what is bound.                           *)
LEMMA NextType == TypeOK /\ Bound /\ [Next]_vars => TypeOK' /\ Bound'
<1> SUFFICES ASSUME TypeOK, Bound, [Next]_vars
             PROVE  TypeOK' /\ Bound'
  OBVIOUS
<1>1. ASSUME NEW d \in Deploys, DeployPaper(d)
      PROVE  TypeOK' /\ Bound'
  BY <1>1, StartType DEF DeployPaper, TypeOK, Bound, brokers
<1>2. ASSUME NEW d \in Deploys, DeployTestnet(d)
      PROVE  TypeOK' /\ Bound'
  BY <1>2 DEF DeployTestnet, TypeOK, Bound, brokers, tasks
<1>3. ASSUME NEW d \in Deploys, FeedReady(d)
      PROVE  TypeOK' /\ Bound'
  <2>1. runtime \in Deploys
    BY <1>3 DEF FeedReady, Bound
  <2> QED
    BY <1>3, <2>1, StartType DEF FeedReady, TypeOK, Bound, brokers
<1>4. ASSUME NEW d \in Deploys, FeedUnavailable(d)
      PROVE  TypeOK' /\ Bound'
  BY <1>4 DEF FeedUnavailable, TypeOK, Bound, brokers, tasks, session
<1>5. ASSUME NEW d \in Deploys, LoopBar(d)
      PROVE  TypeOK' /\ Bound'
  BY <1>5 DEF LoopBar, Resumes, Live, StateOnResume, TypeOK, Bound, clients
<1>6. ASSUME NEW d \in Deploys, LoopWaits(d)
      PROVE  TypeOK' /\ Bound'
  BY <1>6 DEF LoopWaits, Resumes, Live, StateOnResume, TypeOK, Bound, brokers,
              clients
<1>7. ASSUME NEW d \in Deploys, LoopEnds(d)
      PROVE  TypeOK' /\ Bound'
  BY <1>7 DEF LoopEnds, Resumes, Live, TypeOK, Bound, brokers, clients
<1>8. ASSUME NEW d \in Deploys, LoopRaises(d)
      PROVE  TypeOK' /\ Bound'
  BY <1>8 DEF LoopRaises, Resumes, Live, TypeOK, Bound, clients
<1>9. ASSUME NEW d \in Deploys, LoopCancelled(d)
      PROVE  TypeOK' /\ Bound'
  BY <1>9 DEF LoopCancelled, Live, TypeOK, Bound, brokers, clients
<1>10. ASSUME NEW s \in Stops, StopStrategy(s)
       PROVE  TypeOK' /\ Bound'
  <2> DEFINE stop == [d \in Deploys |-> stopped[d] \/ d = runtime]
  <2>1. stop \in [Deploys -> BOOLEAN]
    BY DEF TypeOK
  <2>2. CASE Live(task)
    <3>1. task \in Deploys
      BY <2>2, LiveIsDeploy DEF TypeOK
    <3>2. /\ stopped' = stop
          /\ cancelling' = [cancelling EXCEPT ![task] = TRUE]
          /\ awaited' = [awaited EXCEPT ![s] = task]
          /\ stopping' = [stopping EXCEPT ![s] = "awaiting"]
          /\ UNCHANGED <<state, open, finalized, mode, runtime, task, error,
                         loop, drives, deploying>>
      BY <1>10, <2>2 DEF StopStrategy
    <3> HIDE DEF stop
    <3>3. cancelling' \in [Deploys -> BOOLEAN]
      BY <3>2 DEF TypeOK
    <3>4. awaited' \in [Stops -> Deploys \cup {None}]
      BY <3>1, <3>2 DEF TypeOK
    <3>5. stopping' \in [Stops -> {"idle", "awaiting", "returned"}]
      BY <3>2 DEF TypeOK
    <3>6. TypeOK'
      BY <2>1, <3>2, <3>3, <3>4, <3>5 DEF TypeOK
    <3> QED
      BY <3>2, <3>6 DEF Bound
  <2>3. CASE ~Live(task)
    <3>1. Finalize(s, stop)
      BY <1>10, <2>3 DEF StopStrategy
    <3>2. UNCHANGED <<mode, runtime, task, error, loop, drives, deploying,
                      cancelling, awaited>>
      BY <1>10, <2>3 DEF StopStrategy
    <3> HIDE DEF stop
    <3> QED
      BY <2>1, <3>1, <3>2, FinalizeType DEF TypeOK, Bound
  <2> QED
    BY <2>2, <2>3
<1>11. ASSUME NEW s \in Stops, StopResumes(s)
       PROVE  TypeOK' /\ Bound'
  <2>1. Finalize(s, stopped) /\ stopped \in [Deploys -> BOOLEAN]
    BY <1>11 DEF StopResumes, TypeOK
  <2> QED
    BY <1>11, <2>1, FinalizeType DEF StopResumes, TypeOK, Bound, tasks
<1>12. CASE UNCHANGED vars
  BY <1>12 DEF vars, session, tasks, brokers, clients, TypeOK, Bound
<1> QED
  BY <1>1, <1>2, <1>3, <1>4, <1>5, <1>6, <1>7, <1>8, <1>9, <1>10, <1>11,
     <1>12 DEF Next, LoopResumes
-----------------------------------------------------------------------------
(* The inductive invariant.                                                *)

(* What was force-closed had been told to stop.                             *)
FinalizedAreStopped == \A d \in Deploys : finalized[d] => stopped[d]

(* A task that has not run yet has not set the state to running.            *)
CreatedIsQuiet == \A d \in Deploys : loop[d] = "created" => state # "running"

(* A task that has run is not in a session that has failed.                 *)
ActiveNoError ==
  \A d \in Deploys : loop[d] \in {"feed", "yield"} => state # "error"

IInv ==
  /\ TypeOK /\ Bound /\ OneLoop /\ FinalizedAreStopped /\ FinalizedStaysFlat
  /\ RunningMeansLive /\ CreatedIsQuiet /\ ActiveNoError

(* The parts that speak of tasks and the state, and those that speak of     *)
(* brokers.                                                                 *)
Tasks   == OneLoop /\ RunningMeansLive /\ CreatedIsQuiet /\ ActiveNoError
Brokers == FinalizedAreStopped /\ FinalizedStaysFlat

(* The invariant holds of a new session.                                   *)
LEMMA InitIInv == Init => IInv
BY InitType DEF Init, IInv, Bound, OneLoop, FinalizedAreStopped,
   FinalizedStaysFlat, RunningMeansLive, CreatedIsQuiet, ActiveNoError, Live

(* Starting a task leaves the one it starts the only live one.              *)
LEMMA StartTasks ==
  ASSUME TypeOK, Tasks, NEW d \in Deploys, NEW g \in Deploys, Start(d, g),
         state' = state
  PROVE  Tasks'
<1>1. CASE Live(task)
  BY <1>1 DEF Start, Tasks, OneLoop, RunningMeansLive, CreatedIsQuiet,
     ActiveNoError, Live
<1>2. CASE ~Live(task)
  <2>1. task' = d /\ loop' = [loop EXCEPT ![d] = "created"]
    BY <1>2 DEF Start
  <2>2. \A e \in Deploys : ~Live(e)
    BY <1>2 DEF Tasks, OneLoop
  <2>3. state # "running"
    BY <1>2 DEF Tasks, RunningMeansLive
  <2> QED
    BY <2>1, <2>2, <2>3, NoneAssumption DEF TypeOK, Tasks, OneLoop,
       RunningMeansLive, CreatedIsQuiet, ActiveNoError, Live
<1> QED
  BY <1>1, <1>2

(* Force-closing ends in a state other than running.                        *)
LEMMA FinalizeTasks ==
  ASSUME TypeOK, Tasks, NEW s \in Stops, NEW stop, Finalize(s, stop),
         UNCHANGED <<loop, task>>
  PROVE  Tasks'
BY DEF TypeOK, Tasks, Finalize, OneLoop, RunningMeansLive, CreatedIsQuiet,
   ActiveNoError, Live

(* Ending a session only stops brokers, and empties those it stops.        *)
LEMMA FinalizeBrokers ==
  ASSUME TypeOK, Brokers, NEW s \in Stops, NEW stop \in [Deploys -> BOOLEAN],
         \A d \in Deploys : stopped[d] => stop[d], Finalize(s, stop)
  PROVE  Brokers'
BY DEF TypeOK, Brokers, Finalize, FinalizedAreStopped, FinalizedStaysFlat

(* A live task that takes a step stays the only live one, if it lives.      *)
LEMMA LoopTasks ==
  ASSUME TypeOK, Tasks, NEW d \in Deploys, Live(d),
         NEW to \in {"feed", "yield", "done"},
         loop' = [loop EXCEPT ![d] = to], task' = task,
         to # "done" => state' = StateOnResume(d),
         to = "done" => state' # "running"
  PROVE  Tasks'
<1>1. d = task /\ task # None
  BY DEF Tasks, OneLoop, Live
<1>2. \A e \in Deploys : e # d => ~Live(e)
  BY <1>1 DEF Tasks, OneLoop
<1>3. \A e \in Deploys : e # d => loop'[e] \notin {"created", "feed", "yield"}
  BY <1>2, NoneAssumption DEF TypeOK, Live
<1>4. loop'[d] = to /\ loop' \in
        [Deploys -> {"none", "created", "feed", "yield", "done"}]
  BY DEF TypeOK
<1>5. OneLoop'
  BY <1>1, <1>3 DEF OneLoop, Live
<1>6. RunningMeansLive'
  BY <1>1, <1>4 DEF RunningMeansLive, Live
<1>7. CreatedIsQuiet'
  BY <1>3, <1>4 DEF CreatedIsQuiet
<1>8. ActiveNoError'
  <2>1. CASE to = "done"
    BY <2>1, <1>3, <1>4 DEF ActiveNoError
  <2>2. CASE to # "done"
    <3>1. state' # "error"
      BY <2>2 DEF StateOnResume, Tasks, ActiveNoError, Live
    <3> QED
      BY <3>1 DEF ActiveNoError
  <2> QED
    BY <2>1, <2>2
<1> QED
  BY <1>5, <1>6, <1>7, <1>8 DEF Tasks

(* A bar moves the position of a runtime that has not been told to stop.    *)
LEMMA BarBrokers ==
  ASSUME TypeOK, Brokers, NEW r \in Deploys, ~stopped[r], NEW o \in BOOLEAN,
         open' = [open EXCEPT ![r] = o], UNCHANGED <<stopped, finalized>>
  PROVE  Brokers'
BY DEF TypeOK, Brokers, FinalizedAreStopped, FinalizedStaysFlat

(* A step that leaves the brokers alone.                                    *)
LEMMA SameBrokers == Brokers /\ UNCHANGED brokers => Brokers'
BY DEF Brokers, brokers, FinalizedAreStopped, FinalizedStaysFlat

(* Every step keeps the invariant.                                         *)
LEMMA NextIInv == IInv /\ [Next]_vars => IInv'
<1> SUFFICES ASSUME IInv, [Next]_vars
             PROVE  Tasks' /\ Brokers'
  BY NextType DEF IInv, Tasks, Brokers
<1> USE DEF IInv
<1>0. TypeOK /\ Bound /\ Tasks /\ Brokers
  BY DEF Tasks, Brokers
<1>1. ASSUME NEW d \in Deploys, DeployPaper(d)
      PROVE  Tasks' /\ Brokers'
  BY <1>0, <1>1, StartTasks, SameBrokers DEF DeployPaper
<1>2. ASSUME NEW d \in Deploys, DeployTestnet(d)
      PROVE  Tasks' /\ Brokers'
  BY <1>0, <1>2, SameBrokers DEF DeployTestnet, tasks, Tasks, OneLoop,
     RunningMeansLive, CreatedIsQuiet, ActiveNoError, Live
<1>3. ASSUME NEW d \in Deploys, FeedReady(d)
      PROVE  Tasks' /\ Brokers'
  <2>1. runtime \in Deploys
    BY <1>3 DEF FeedReady, Bound
  <2> QED
    BY <1>0, <1>3, <2>1, StartTasks, SameBrokers DEF FeedReady
<1>4. ASSUME NEW d \in Deploys, FeedUnavailable(d)
      PROVE  Tasks' /\ Brokers'
  BY <1>0, <1>4, SameBrokers DEF FeedUnavailable, tasks, session, Tasks,
     OneLoop, RunningMeansLive, CreatedIsQuiet, ActiveNoError, Live
<1>5. ASSUME NEW d \in Deploys, LoopBar(d)
      PROVE  Tasks' /\ Brokers'
  <2>1. Live(d) /\ drives[d] \in Deploys
    BY <1>0, <1>5 DEF LoopBar, Resumes, Live, TypeOK
  <2>2. Tasks'
    BY <1>0, <1>5, <2>1, LoopTasks DEF LoopBar
  <2>3. Brokers'
    BY <1>0, <1>5, <2>1, BarBrokers DEF LoopBar
  <2> QED
    BY <2>2, <2>3
<1>6. ASSUME NEW d \in Deploys, LoopWaits(d)
      PROVE  Tasks' /\ Brokers'
  BY <1>0, <1>6, LoopTasks, SameBrokers DEF LoopWaits, Resumes
<1>7. ASSUME NEW d \in Deploys, LoopEnds(d)
      PROVE  Tasks' /\ Brokers'
  BY <1>0, <1>7, LoopTasks, SameBrokers DEF LoopEnds, Resumes
<1>8. ASSUME NEW d \in Deploys, LoopRaises(d)
      PROVE  Tasks' /\ Brokers'
  <2>1. Live(d) /\ drives[d] \in Deploys
    BY <1>0, <1>8 DEF LoopRaises, Resumes, Live, TypeOK
  <2>2. Tasks'
    BY <1>0, <1>8, <2>1, LoopTasks DEF LoopRaises
  <2>3. CASE UNCHANGED open
    BY <1>0, <1>8, <2>2, <2>3, SameBrokers DEF LoopRaises, brokers
  <2>4. CASE /\ ~stopped[drives[d]]
             /\ \E o \in BOOLEAN : open' = [open EXCEPT ![drives[d]] = o]
    BY <1>0, <1>8, <2>1, <2>2, <2>4, BarBrokers DEF LoopRaises
  <2> QED
    BY <1>8, <2>2, <2>3, <2>4 DEF LoopRaises
<1>9. ASSUME NEW d \in Deploys, LoopCancelled(d)
      PROVE  Tasks' /\ Brokers'
  <2>1. state' # "running"
    BY <1>0, <1>9 DEF LoopCancelled, Tasks, CreatedIsQuiet
  <2> QED
    BY <1>0, <1>9, <2>1, LoopTasks, SameBrokers DEF LoopCancelled
<1>10. ASSUME NEW s \in Stops, StopStrategy(s)
       PROVE  Tasks' /\ Brokers'
  <2> DEFINE stop == [d \in Deploys |-> stopped[d] \/ d = runtime]
  <2>1. /\ stop \in [Deploys -> BOOLEAN]
        /\ \A d \in Deploys : stopped[d] => stop[d]
    BY <1>0 DEF TypeOK
  <2>2. CASE Live(task)
    <3>1. stopped' = stop /\ UNCHANGED <<state, open, finalized, task, loop>>
      BY <1>10, <2>2 DEF StopStrategy
    <3> HIDE DEF stop
    <3>2. Brokers'
      BY <1>0, <2>1, <3>1 DEF Brokers, FinalizedAreStopped, FinalizedStaysFlat
    <3>3. Tasks'
      BY <1>0, <3>1 DEF Tasks, OneLoop, RunningMeansLive, CreatedIsQuiet,
         ActiveNoError, Live
    <3> QED
      BY <3>2, <3>3
  <2>3. CASE ~Live(task)
    <3>1. Finalize(s, stop) /\ UNCHANGED <<task, loop>>
      BY <1>10, <2>3 DEF StopStrategy
    <3> HIDE DEF stop
    <3> QED
      BY <1>0, <2>1, <3>1, FinalizeTasks, FinalizeBrokers
  <2> QED
    BY <2>2, <2>3
<1>11. ASSUME NEW s \in Stops, StopResumes(s)
       PROVE  Tasks' /\ Brokers'
  <2>1. Finalize(s, stopped) /\ UNCHANGED <<task, loop>>
    BY <1>11 DEF StopResumes, tasks
  <2>2. stopped \in [Deploys -> BOOLEAN]
    BY <1>0 DEF TypeOK
  <2> QED
    BY <1>0, <2>1, <2>2, FinalizeTasks, FinalizeBrokers
<1>12. CASE UNCHANGED vars
  BY <1>0, <1>12, SameBrokers DEF vars, session, tasks, brokers, Tasks,
     OneLoop, RunningMeansLive, CreatedIsQuiet, ActiveNoError, Live
<1> QED
  BY <1>1, <1>2, <1>3, <1>4, <1>5, <1>6, <1>7, <1>8, <1>9, <1>10, <1>11,
     <1>12 DEF Next, LoopResumes

(* The inductive invariant holds throughout.                               *)
LEMMA Invariance == Spec => []IInv
<1>1. Init => IInv
  BY InitIInv
<1>2. IInv /\ [Next]_vars => IInv'
  BY NextIInv
<1> QED
  BY <1>1, <1>2, PTL DEF Spec

-----------------------------------------------------------------------------
(* The theorems.                                                           *)

(* Every variable of a session holds a value of its kind.                   *)
THEOREM TypeCorrect == Spec => []TypeOK
<1>1. IInv => TypeOK
  BY DEF IInv
<1> QED
  BY <1>1, Invariance, PTL

(* However many clients deploy and stop at once, one session never has two  *)
(* loops, and the one it has is the one stop would cancel.                  *)
THEOREM OneLoopPerSession == Spec => []OneLoop
<1>1. IInv => OneLoop
  BY DEF IInv
<1> QED
  BY <1>1, Invariance, PTL

(* A runtime that was stopped and force-closed never holds a position       *)
(* again.                                                                   *)
THEOREM FinalizedIsFinal == Spec => []FinalizedStaysFlat
<1>1. IInv => FinalizedStaysFlat
  BY DEF IInv
<1> QED
  BY <1>1, Invariance, PTL

(* A session that reports running has a loop.                               *)
THEOREM RunningIsLive == Spec => []RunningMeansLive
<1>1. IInv => RunningMeansLive
  BY DEF IInv
<1> QED
  BY <1>1, Invariance, PTL

(* Only a loop that starts to run replaces the error state.                 *)
THEOREM ErrorIsKept == Spec => ErrorSticks
<1> DEFINE Starts(d) == loop[d] = "created" /\ loop'[d] # "created"
           Step == state = "error" /\ state' # "error" =>
                     \E d \in Deploys : Starts(d)
<1>1. IInv /\ [Next]_vars => [Step]_vars
  <2> SUFFICES ASSUME IInv, Next, state = "error", state' # "error"
               PROVE  \E d \in Deploys : Starts(d)
    OBVIOUS
  <2>1. ASSUME NEW d \in Deploys, Live(d),
               loop' = [loop EXCEPT ![d] = "yield"] \/
               loop' = [loop EXCEPT ![d] = "feed"] \/
               loop' = [loop EXCEPT ![d] = "done"]
        PROVE  Starts(d)
    BY <2>1 DEF IInv, TypeOK, ActiveNoError, Live
  <2>2. \A d \in Deploys :
           ~DeployPaper(d) /\ ~DeployTestnet(d) /\ ~FeedReady(d)
             /\ ~FeedUnavailable(d)
    BY DEF DeployPaper, DeployTestnet, FeedReady, FeedUnavailable, session
  <2>3. \A s \in Stops : ~StopStrategy(s) /\ ~StopResumes(s)
    BY DEF StopStrategy, StopResumes, Finalize
  <2>4. PICK d \in Deploys : LoopResumes(d) \/ LoopCancelled(d)
    BY <2>2, <2>3 DEF Next
  <2> QED
    BY <2>1, <2>4 DEF LoopResumes, LoopBar, LoopWaits, LoopEnds, LoopRaises,
       LoopCancelled, Resumes
<1> QED
  BY <1>1, Invariance, PTL DEF Spec, ErrorSticks

-----------------------------------------------------------------------------
(* A stop that has cancelled a loop waits for nothing but its end: until    *)
(* then the loop neither starts, nor yields, nor waits for its feed again,  *)
(* and its position is not traded, also when a deploy has bound another     *)
(* runtime to the session, so that the one that stop flagged is not the     *)
(* one the loop drives.                                                     *)
CancelledOnlyEnds ==
  [][\A s \in Stops :
       stopping[s] = "awaiting" /\ Live(awaited[s]) =>
         LET d == awaited[s]
         IN /\ loop'[d] \in {loop[d], "done"}
            /\ open'[drives[d]] => open[drives[d]]]_vars

(* A stop waits for a task that it has cancelled.                           *)
AwaitsCancelled ==
  \A s \in Stops : stopping[s] = "awaiting" =>
    awaited[s] \in Deploys /\ loop[awaited[s]] # "none" /\ cancelling[awaited[s]]

(* No task is cancelled but by stop, which awaits it; none recovers, and a  *)
(* task is started once.                                                    *)
LEMMA AwaitsInvariant == Spec => []AwaitsCancelled
<1>1. Init => AwaitsCancelled
  BY DEF Init, AwaitsCancelled
<1>2. IInv /\ AwaitsCancelled /\ [Next]_vars => AwaitsCancelled'
  <2> SUFFICES ASSUME IInv, AwaitsCancelled, [Next]_vars PROVE AwaitsCancelled'
    OBVIOUS
  <2> USE DEF IInv, TypeOK, AwaitsCancelled
  <2>1. ASSUME NEW d \in Deploys, DeployPaper(d) PROVE AwaitsCancelled'
    BY <2>1 DEF DeployPaper, Start
  <2>2. ASSUME NEW d \in Deploys, DeployTestnet(d) PROVE AwaitsCancelled'
    BY <2>2 DEF DeployTestnet, tasks
  <2>3. ASSUME NEW d \in Deploys, FeedReady(d) PROVE AwaitsCancelled'
    BY <2>3 DEF FeedReady, Start
  <2>4. ASSUME NEW d \in Deploys, FeedUnavailable(d) PROVE AwaitsCancelled'
    BY <2>4 DEF FeedUnavailable, tasks
  <2>5. ASSUME NEW d \in Deploys, LoopResumes(d) \/ LoopCancelled(d) PROVE AwaitsCancelled'
    BY <2>5 DEF LoopResumes, LoopBar, LoopWaits, LoopEnds, LoopRaises, LoopCancelled, clients
  <2>6. ASSUME NEW s \in Stops, StopStrategy(s) PROVE AwaitsCancelled'
    <3>1. CASE Live(task)
      <4>1. task \in Deploys /\ loop[task] # "none"
        BY <3>1 DEF Live
      <4> QED
        BY <2>6, <3>1, <4>1 DEF StopStrategy
    <3>2. CASE ~Live(task)
      BY <2>6, <3>2 DEF StopStrategy, Finalize
    <3> QED
      BY <3>1, <3>2
  <2>7. ASSUME NEW s \in Stops, StopResumes(s) PROVE AwaitsCancelled'
    BY <2>7 DEF StopResumes, Finalize, tasks
  <2>8. CASE UNCHANGED vars
    BY <2>8 DEF vars, tasks, clients
  <2> QED
    BY <2>1, <2>2, <2>3, <2>4, <2>5, <2>6, <2>7, <2>8 DEF Next
<1> QED
  BY <1>1, <1>2, Invariance, PTL DEF Spec

(* A stop that has cancelled a loop waits for nothing but its end, and what *)
(* the loop holds is not traded meanwhile (session.stop cancels the task    *)
(* and not only its runtime): the others' loops have ended, and what a      *)
(* cancelled task may still do is end.                                      *)
THEOREM CancelledEndsOnly == Spec => CancelledOnlyEnds
<1> DEFINE Over(d) == /\ loop'[d] \in {loop[d], "done"}
                      /\ open'[drives[d]] => open[drives[d]]
           Step == \A s \in Stops :
                     stopping[s] = "awaiting" /\ Live(awaited[s]) => Over(awaited[s])
<1>1. IInv /\ AwaitsCancelled /\ [Next]_vars => [Step]_vars
  <2> SUFFICES ASSUME IInv, AwaitsCancelled, Next, NEW s \in Stops,
                      stopping[s] = "awaiting", Live(awaited[s])
               PROVE  Over(awaited[s])
    OBVIOUS
  <2> DEFINE a == awaited[s]
  <2>1. a \in Deploys /\ cancelling[a] /\ loop[a] # "none" /\ drives[a] \in Deploys
    BY DEF AwaitsCancelled, IInv, TypeOK
  <2>2. \A d \in Deploys : Live(d) => d = a
    BY <2>1 DEF IInv, OneLoop
  <2> HIDE DEF a
  <2>3. \A d \in Deploys : ~LoopResumes(d)
    BY <2>1, <2>2 DEF LoopResumes, LoopBar, LoopWaits, LoopEnds, LoopRaises, Resumes
  <2>4. a = task
    BY <2>1 DEF a, IInv, OneLoop
  <2>5. ASSUME NEW d \in Deploys,
               DeployPaper(d) \/ DeployTestnet(d) \/ FeedReady(d) \/ FeedUnavailable(d)
        PROVE  Over(a)
    <3>1. Live(task)
      BY <2>4 DEF a
    <3> QED
      BY <2>5, <3>1 DEF DeployPaper, DeployTestnet, FeedReady, FeedUnavailable, Start, tasks,
         brokers
  <2>6. ASSUME NEW d \in Deploys, LoopCancelled(d) PROVE Over(a)
    BY <2>1, <2>2, <2>6 DEF LoopCancelled, brokers, IInv, TypeOK
  <2>7. ASSUME NEW t \in Stops, StopStrategy(t) PROVE Over(a)
    <3>1. Live(task)
      BY <2>4 DEF a
    <3> QED
      BY <2>7, <3>1 DEF StopStrategy
  <2>8. ASSUME NEW t \in Stops, StopResumes(t) PROVE Over(a)
    BY <2>1, <2>8 DEF StopResumes, Finalize, tasks
  <2> QED
    BY <2>3, <2>5, <2>6, <2>7, <2>8 DEF Next, a
<1> QED
  BY <1>1, Invariance, AwaitsInvariant, PTL DEF Spec, CancelledOnlyEnds
=============================================================================
