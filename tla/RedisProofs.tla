------------------------------ MODULE RedisProofs ------------------------------
(***************************************************************************)
(* Proofs about RedisServer, for every number of repositories, handlers,   *)
(* workers and pipelines, every expiry longer than the run timeout and     *)
(* every number of crashes.                                                *)
(***************************************************************************)
EXTENDS RedisServer, DispatcherProofs

\* The steps of the dispatcher between two of its stops at the store, and those
\* of main.
PlainStep ==
    \/ \E h \in Handler, r \in Repo : HandlerEvent(h, r)
    \/ \E p \in Proc : EnqueueRoute(p) \/ \E w \in Worker : EnqueueSpawn(p, w)
    \/ \E w \in Worker : RunDebounced(w) \/ RunAcquire(w) \/ RunCancelled(w) \/ RunEnd(w)
    \/ recovered /\ Serve
    \/ Stops /\ Sigterm
    \/ HttpStopped \/ Drained \/ ShutdownReturns \/ Deadline
    \/ main = "stopped" /\ Exit
    \/ UNCHANGED vars

\* The steps of the executor and of GitLab: the dispatcher rests.
OutsideStep ==
    \/ \E w \in Worker : Trigger(w) \/ SaveHandle(w) \/ PollReturns(w) \/ DeleteHandle(w)
    \/ \E i \in Pipeline : PipelineEnds(i)
    \/ Crowd

\* The steps of main's startup, of the process itself and of time.
ProcessStep ==
    \/ Crash
    \/ Restart
    \/ RecoverSnapshot
    \/ \E r \in Repo : RecoverNext(r)
    \/ RecoverDone
    \/ Tick

(***************************************************************************)
(* Every step of RedisServer is one of these.                              *)
(***************************************************************************)
LEMMA RedisSteps ==
    ASSUME [RedisNext]_allVars
    PROVE  \/ PlainStep /\ UNCHANGED <<redisVars, execVars, ctlVars>>
           \/ OutsideStep
           \/ ProcessStep
           \/ \E p \in Proc : RedisQueue(p) \/ RedisQueueFails(p)
           \/ \E w \in Worker :
                \/ RedisStart(w) \/ RedisStartFails(w) \/ ExecReturns(w)
                \/ RedisFinish(w) \/ RedisFinishFails(w)
           \/ \E r \in Repo, w \in Worker : RedisAdopt(r, w) \/ RedisAdoptFails(r, w)
<1>1. ASSUME NEW p \in Proc, RedisProcStep(p)
      PROVE  \/ PlainStep /\ UNCHANGED <<redisVars, execVars, ctlVars>>
             \/ RedisQueue(p) \/ RedisQueueFails(p)
  BY <1>1 DEF RedisProcStep, Plain, PlainStep
<1>2. ASSUME NEW w \in Worker, RedisWorkerStep(w), ~RedisProcStep(w)
      PROVE  \/ PlainStep /\ UNCHANGED <<redisVars, execVars, ctlVars>>
             \/ OutsideStep
             \/ RedisStart(w) \/ RedisStartFails(w) \/ ExecReturns(w)
             \/ RedisFinish(w) \/ RedisFinishFails(w)
  BY <1>2 DEF RedisWorkerStep, Plain, PlainStep, OutsideStep
<1>3. CASE RedisMainStep
  BY <1>3 DEF RedisMainStep, Plain, PlainStep, ProcessStep
<1>4. CASE RedisEvent
  BY <1>4 DEF RedisEvent, Plain, PlainStep
<1>5. CASE \/ Crowd \/ Crash \/ Tick \/ \E i \in Pipeline : PipelineEnds(i)
           \/ (Stops /\ Plain(Sigterm)) \/ (main = "stopped" /\ Plain(Exit))
  BY <1>5 DEF OutsideStep, ProcessStep, Plain, PlainStep
<1>6. CASE UNCHANGED allVars
  BY <1>6 DEF allVars, PlainStep
<1> QED
  BY <1>1, <1>2, <1>3, <1>4, <1>5, <1>6 DEF RedisNext, Proc

(***************************************************************************)
(* What the dispatcher does in RedisServer by itself, Dispatcher allows it *)
(* to do.                                                                  *)
(***************************************************************************)
LEMMA OwnSteps ==
    ASSUME \/ PlainStep \/ OutsideStep
           \/ \E p \in Proc : RedisQueue(p)
           \/ \E w \in Worker : RedisStart(w) \/ ExecReturns(w) \/ RedisFinish(w)
           \/ \E r \in Repo, w \in Worker : RedisAdopt(r, w)
    PROVE  [Next]_vars
<1>1. CASE OutsideStep
  BY <1>1
  DEF OutsideStep, Trigger, SaveHandle, PollReturns, DeleteHandle, PipelineEnds, Crowd
<1>2. CASE PlainStep
  <2>1. ASSUME NEW p \in Proc, EnqueueRoute(p) \/ \E w \in Worker : EnqueueSpawn(p, w)
        PROVE  Next
    BY <2>1 DEF Next, CallerStep, WorkerStep, Proc
  <2>2. ASSUME NEW w \in Worker,
               RunDebounced(w) \/ RunAcquire(w) \/ RunCancelled(w) \/ RunEnd(w)
        PROVE  Next
    BY <2>2 DEF Next, WorkerStep
  <2>3. CASE \E h \in Handler, r \in Repo : HandlerEvent(h, r)
    BY <2>3 DEF Next, Environment
  <2>4. CASE Serve \/ HttpStopped \/ Drained \/ ShutdownReturns \/ Deadline \/ Sigterm \/ Exit
    BY <2>4 DEF Next, MainStep, Environment
  <2> QED
    BY <1>2, <2>1, <2>2, <2>3, <2>4 DEF PlainStep
<1>3. ASSUME NEW p \in Proc, RedisQueue(p) PROVE Next
  BY <1>3 DEF RedisQueue, Next, CallerStep, WorkerStep, Proc
<1>4. ASSUME NEW w \in Worker, RedisStart(w) \/ ExecReturns(w) \/ RedisFinish(w) PROVE Next
  BY <1>4 DEF RedisStart, ExecReturns, RedisFinish, Next, WorkerStep
<1>5. ASSUME NEW r \in Repo, NEW w \in Worker, RedisAdopt(r, w) PROVE Next
  BY <1>5 DEF RedisAdopt, Next, MainStep
<1> QED
  BY <1>1, <1>2, <1>3, <1>4, <1>5

(***************************************************************************)
(* The dispatcher's part of the state keeps its types and the semaphore    *)
(* its count: also when a redis call fails, half done or not at all, and   *)
(* over a crash and the startup of the next process.                       *)
(***************************************************************************)
LEMMA RedisDispatcherStep ==
    ASSUME RedisInv, [RedisNext]_allVars
    PROVE  RepoInv' /\ SlotsBounded'
<1>0. RepoInv /\ SlotsBounded /\ RedisTypeOK
  BY DEF RedisInv, RedisTypeOK, RepoInv
<1>1. CASE [Next]_vars
  BY <1>0, <1>1, TypeStep, SlotStep
<1>2. ASSUME sem' = sem, SlotHolders' = SlotHolders PROVE SlotsBounded'
  BY <1>0, <1>2 DEF SlotsBounded
<1>3. ASSUME NEW p \in Proc, RedisQueueFails(p) PROVE RepoInv' /\ SlotsBounded'
  <2>0. repo[p] \in Repo /\ pc[p] = "queue"
    BY <1>0, <1>3 DEF RedisQueueFails, RepoInv, GoroutineKinds
  <2>1. StoreTypeOK'
    BY <1>0, <1>3, <2>0, StoreTypes DEF RedisQueueFails, storeVars, RepoInv, TypeOK, StoreTypeOK
  <2>2. RepoInv'
    BY <1>0, <1>3, <2>0, <2>1, AfterEnqueueKind, ProcAssumption
    DEF RepoInv, TypeOK, GoroutineKinds, RedisQueueFails, Leave, Proc, PC, HoldsPC
  <2>3. \A w \in Worker : (w \in SlotHolders)' <=> w \in SlotHolders
    BY <1>0, <1>3, <2>0, AfterEnqueueKind, ProcAssumption
    DEF RedisQueueFails, Leave, SlotHolders, SlotPC, RepoInv, TypeOK, Proc
  <2> QED
    BY <1>2, <1>3, <2>2, <2>3 DEF RedisQueueFails, SlotHolders
<1>4. ASSUME NEW w \in Worker, RedisStartFails(w) PROVE RepoInv' /\ SlotsBounded'
  <2>1. RepoInv'
    BY <1>0, <1>4, ProcAssumption
    DEF RepoInv, TypeOK, StoreTypeOK, GoroutineKinds, RedisStartFails, Goto, storeVars, Proc,
        PC, HoldsPC
  <2>2. \A v \in Worker : (v \in SlotHolders)' <=> v \in SlotHolders
    BY <1>0, <1>4 DEF RedisStartFails, Goto, SlotHolders, SlotPC, RepoInv, TypeOK, Proc
  <2> QED
    BY <1>2, <1>4, <2>1, <2>2 DEF RedisStartFails, SlotHolders
<1>5. ASSUME NEW w \in Worker, RedisFinishFails(w) PROVE RepoInv' /\ SlotsBounded'
  <2>0. repo[w] \in Repo /\ w \in Proc /\ (pc[w] = "abandon" => ~adopted[w])
    BY <1>0, <1>5 DEF RedisFinishFails, RepoInv, GoroutineKinds, HoldsPC, Proc
  <2>1. StoreTypeOK'
    BY <1>0, <1>5, <2>0, StoreTypes
    DEF RedisFinishFails, storeVars, RepoInv, TypeOK, StoreTypeOK
  <2>2. RepoInv'
    BY <1>0, <1>5, <2>0, <2>1, ProcAssumption
    DEF RepoInv, TypeOK, GoroutineKinds, RedisFinishFails, Leave, Proc, PC, HoldsPC
  <2>3. \A v \in Worker : (v \in SlotHolders)' <=> v \in SlotHolders
    BY <1>0, <1>5 DEF RedisFinishFails, Leave, SlotHolders, SlotPC, RepoInv, TypeOK, Proc
  <2> QED
    BY <1>2, <1>5, <2>2, <2>3 DEF RedisFinishFails, SlotHolders
<1>6. ASSUME NEW r \in Repo, NEW w \in Worker, RedisAdoptFails(r, w)
      PROVE  RepoInv' /\ SlotsBounded'
  <2>1. RepoInv'
    BY <1>0, <1>6, ProcAssumption
    DEF RepoInv, TypeOK, StoreTypeOK, GoroutineKinds, RedisAdoptFails, storeVars, Proc, PC,
        HoldsPC
  <2>2. SlotHolders' = SlotHolders
    BY <1>0, <1>6 DEF RedisAdoptFails, SlotHolders, SlotPC, RepoInv, TypeOK, Proc
  <2> QED
    BY <1>2, <1>6, <2>1, <2>2 DEF RedisAdoptFails
<1>7. CASE Crash \/ Tick
  <2>1. RepoInv'
    BY <1>0, <1>7
    DEF Crash, Tick, dispVars, storeVars, RepoInv, TypeOK, StoreTypeOK, State, GoroutineKinds,
        Phase
  <2> QED
    BY <1>2, <1>7, <2>1 DEF Crash, Tick, dispVars, SlotHolders
<1>8. CASE Restart
  <2>1. RepoInv'
    BY <1>0, <1>8
    DEF Restart, SavedHandles, storeVars, RepoInv, TypeOK, StoreTypeOK, GoroutineKinds, Phase,
        PC, HoldsPC, Proc, Caller
  <2>2. SlotHolders' = {}
    BY <1>8 DEF Restart, SlotHolders, SlotPC, Proc
  <2> QED
    BY <1>8, <2>1, <2>2, FS_EmptySet, MaxConcurrentAssumption DEF Restart, SlotsBounded
<1>9. ASSUME UNCHANGED <<sem, adopted>>, \A w \in Worker : pc'[w] = pc[w] PROVE SlotsBounded'
  BY <1>2, <1>9 DEF SlotHolders
<1>10. CASE RecoverSnapshot \/ RecoverDone
  BY <1>0, <1>9, <1>10, RecoveryAssumption, ProcAssumption
  DEF RecoverSnapshot, RecoverDone, Goto, storeVars, RepoInv, TypeOK, StoreTypeOK,
      GoroutineKinds, PC, HoldsPC, Proc, Caller
<1>11. ASSUME NEW r \in Repo, RecoverNext(r) PROVE RepoInv' /\ SlotsBounded'
  <2>1. StoreTypeOK'
    BY <1>0, <1>11, StoreTypes DEF RecoverNext, storeVars, RepoInv, TypeOK, StoreTypeOK
  <2>2. RepoInv'
    BY <1>0, <1>11, <2>1, RecoveryAssumption, ProcAssumption
    DEF RecoverNext, RepoInv, TypeOK, GoroutineKinds, PC, HoldsPC, Proc, Caller
  <2> QED
    BY <1>0, <1>9, <1>11, <2>2, RecoveryAssumption, ProcAssumption
    DEF RecoverNext, RepoInv, TypeOK, Proc, Caller
<1> QED
  BY <1>1, <1>3, <1>4, <1>5, <1>6, <1>7, <1>8, <1>10, <1>11, RedisSteps, OwnSteps
  DEF ProcessStep

(***************************************************************************)
(* Expiries, handles and pipelines keep their types: no key outlives the   *)
(* TTL it was written with, and no pipeline the run timeout.               *)
(***************************************************************************)
LEMMA RedisTypeStep ==
    ASSUME RedisInv, [RedisNext]_allVars
    PROVE  RedisTypeOK'
<1>0. TypeOK' /\ RedisTypeOK /\ GoroutineKinds
  BY RedisDispatcherStep DEF RepoInv, RedisInv
<1>1. CASE PlainStep /\ UNCHANGED <<redisVars, execVars, ctlVars>>
  BY <1>0, <1>1 DEF RedisTypeOK, redisVars, execVars, ctlVars
<1>2. ASSUME NEW w \in Worker, Trigger(w) PROVE RedisTypeOK'
  <2>1. repo[w] \in Repo
    BY <1>0, <1>2 DEF Trigger, InRun, GoroutineKinds, HoldsPC, Proc
  <2> QED
    BY <1>0, <1>2, <2>1, TimeAssumption DEF Trigger, RedisTypeOK, Step, redisVars, ctlVars
<1>3. ASSUME NEW w \in Worker, SaveHandle(w) \/ PollReturns(w) \/ DeleteHandle(w)
      PROVE  RedisTypeOK'
  BY <1>0, <1>3, TimeAssumption
  DEF SaveHandle, PollReturns, DeleteHandle, PutHandle, DropHandle, KeepHandles, RedisTypeOK,
      Step, redisVars, ctlVars
<1>4. CASE Crowd \/ \E i \in Pipeline : PipelineEnds(i)
  <2>1. ASSUME NEW i \in Pipeline, PipelineEnds(i) PROVE RedisTypeOK'
    BY <1>0, <2>1, TimeAssumption DEF PipelineEnds, RedisTypeOK, redisVars, ctlVars
  <2>2. CASE Crowd
    <3>1. crowded' \in BOOLEAN
      BY <2>2 DEF Crowd
    <3> QED
      BY <1>0, <2>2, <3>1 DEF Crowd, RedisTypeOK, redisVars, execVars
  <2> QED
    BY <1>4, <2>1, <2>2
<1>5. CASE Crash \/ Restart
  <2>1. CASE Crash
    <3>1. crashes' \in 0..MaxCrashes
      BY <1>0, <2>1, CrashAssumption DEF Crash, RedisTypeOK
    <3> QED
      BY <1>0, <2>1, <3>1 DEF Crash, RedisTypeOK, redisVars, execVars
  <2>2. CASE Restart
    <3>1. waited' \in [Worker -> 0..RunTimeout]
      BY <2>2, TimeAssumption DEF Restart
    <3> QED
      BY <1>0, <2>2, <3>1 DEF Restart, RedisTypeOK, Step, redisVars
  <2> QED
    BY <1>5, <2>1, <2>2
<1>6. CASE RecoverSnapshot \/ RecoverDone
  BY <1>0, <1>6 DEF RecoverSnapshot, RecoverDone, RedisTypeOK, redisVars, execVars, ctlVars
<1>7. ASSUME NEW r \in Repo, RecoverNext(r) PROVE RedisTypeOK'
  BY <1>0, <1>7, TimeAssumption
  DEF RecoverNext, Forget, KeepHandles, RedisTypeOK, execVars, ctlVars
<1>8. CASE Tick
  <2>1. ttl' \in [Repo -> 0..TTL] /\ handleTtl' \in [Repo -> 0..TTL]
    BY <1>0, <1>8, TimeAssumption DEF Tick, RedisTypeOK
  <2>2. runtime' \in [Pipeline -> 0..RunTimeout]
    BY <1>0, <1>8, TimeAssumption DEF Tick, Age, RedisTypeOK
  <2>3. \A w \in Worker : Alive /\ pc[w] = "exec" => waited[w] < RunTimeout
    BY <1>8 DEF Tick, Waiting, Alive
  <2>4. waited' \in [Worker -> 0..RunTimeout]
    BY <1>0, <1>8, <2>3, TimeAssumption DEF Tick, Age, RedisTypeOK
  <2> QED
    BY <1>0, <1>8, <2>1, <2>2, <2>4 DEF Tick, RedisTypeOK, ctlVars
<1>9. ASSUME NEW p \in Proc, RedisQueue(p) \/ RedisQueueFails(p) PROVE RedisTypeOK'
  BY <1>0, <1>9, TimeAssumption
  DEF RedisQueue, RedisQueueFails, Touch, KeepHandles, RedisTypeOK, execVars, ctlVars
<1>10. ASSUME NEW w \in Worker, RedisStart(w) \/ RedisStartFails(w) \/ ExecReturns(w)
       PROVE  RedisTypeOK'
  BY <1>0, <1>10, TimeAssumption
  DEF RedisStart, RedisStartFails, ExecReturns, Touch, KeepHandles, RedisTypeOK, Step,
      redisVars, ctlVars
<1>11. ASSUME NEW w \in Worker, RedisFinish(w) \/ RedisFinishFails(w) PROVE RedisTypeOK'
  BY <1>0, <1>11, TimeAssumption
  DEF RedisFinish, RedisFinishFails, Forget, KeepHandles, RedisTypeOK, execVars, ctlVars
<1>12. ASSUME NEW r \in Repo, NEW w \in Worker, RedisAdopt(r, w) \/ RedisAdoptFails(r, w)
       PROVE  RedisTypeOK'
  BY <1>0, <1>12, TimeAssumption
  DEF RedisAdopt, RedisAdoptFails, Touch, KeepHandles, RedisTypeOK, Step, redisVars, ctlVars
<1> QED
  BY <1>1, <1>2, <1>3, <1>4, <1>5, <1>6, <1>7, <1>8, <1>9, <1>10, <1>11, <1>12, RedisSteps
  DEF OutsideStep, ProcessStep

(***************************************************************************)
(* The first process, on an empty redis, satisfies the invariant.          *)
(***************************************************************************)
LEMMA RedisInitInv == RedisInit => RedisInv
<1> SUFFICES ASSUME RedisInit PROVE RedisInv
  OBVIOUS
<1>1. TypeOK /\ GoroutineKinds /\ SlotsBounded
  BY InitIndInv DEF RedisInit, IndInv
<1>2. 0 \in 0..TTL /\ 0 \in 0..RunTimeout /\ 0 \in 0..MaxCrashes
  BY TimeAssumption, CrashAssumption
<1>3. RedisTypeOK
  BY <1>1, <1>2 DEF RedisInit, RedisTypeOK, Step
<1> QED
  BY <1>1, <1>3 DEF RedisInv

(***************************************************************************)
(* Whatever redis and GitLab calls fail, whenever the process crashes or   *)
(* is stopped: the types, the kinds of goroutines and the count of the     *)
(* semaphore are kept.                                                     *)
(***************************************************************************)
THEOREM RedisInvariance == RedisSpec => []RedisInv
<1>1. RedisInv /\ [RedisNext]_allVars => RedisInv'
  BY RedisDispatcherStep, RedisTypeStep DEF RedisInv, RepoInv
<1> QED
  BY RedisInitInv, <1>1, PTL DEF RedisSpec

(***************************************************************************)
(* No entry and no handle is given a longer life than its TTL, no pipeline *)
(* one beyond the run timeout, and every index is that of a pipeline or    *)
(* of none (redis.go:92-177, gitlabci.go:100-185).                         *)
(***************************************************************************)
THEOREM RedisTypeCorrect == RedisSpec => []RedisTypeOK
<1>1. RedisInv => RedisTypeOK
  BY DEF RedisInv
<1> QED
  BY RedisInvariance, <1>1, PTL

(***************************************************************************)
(* The semaphore stays exact when calls fail: a goroutine whose StartRun   *)
(* or FinishRun fails holds and gives back its slot like any other         *)
(* (dispatcher.go:137-153).                                                *)
(***************************************************************************)
THEOREM SlotsSurviveFailures == RedisSpec => []SlotsBounded
<1>1. RedisInv => SlotsBounded
  BY DEF RedisInv
<1> QED
  BY RedisInvariance, <1>1, PTL

------------------------------------------------------------------------------
(***************************************************************************)
(* One run in flight, in favourable conditions.                            *)
(***************************************************************************)

(***************************************************************************)
(* In favourable conditions the process is never asked to stop, and so no  *)
(* context is cancelled; and the calls that must not fail do not.          *)
(***************************************************************************)
LEMMA Excluded ==
    ASSUME Favourable, RedisInv, RedisPhases
    PROVE  /\ ~Cancelled
           /\ ~(Stops /\ Sigterm) /\ ~HttpStopped /\ ~Drained /\ ~ShutdownReturns /\ ~Deadline
           /\ ~(main = "stopped" /\ Exit) /\ ~Crowd
           /\ "trigger" \notin Failing /\ "poll" \notin Failing /\ "delete" \notin Failing
           /\ ~LongRuns
           /\ \A w \in Worker :
                /\ ~RunCancelled(w) /\ ~RunAbandon(w) /\ ~RedisStartFails(w)
                /\ Alive => pc[w] # "abandon"
<1>1. main \in {"startup", "serving", "exited"}
  BY DEF RedisPhases
<1>2. ~Cancelled /\ \A w \in Worker : Alive => pc[w] # "abandon"
  BY <1>1 DEF Cancelled, Alive, RedisInv, GoroutineKinds
<1>3. /\ "start" \notin Failing /\ "trigger" \notin Failing
      /\ "poll" \notin Failing /\ "delete" \notin Failing /\ ~LongRuns
  BY DEF Favourable
<1> QED
  BY <1>1, <1>2, <1>3
  DEF Favourable, RunCancelled, RunAbandon, RedisStartFails, HttpStopped, Drained,
      ShutdownReturns, Deadline, Crowd

(***************************************************************************)
(* main adopts, then recovers, then serves, and each of the three begins   *)
(* with nothing of the earlier ones left to do (main.go:162-199).          *)
(***************************************************************************)
LEMMA RedisPhaseStep ==
    ASSUME Favourable, RedisInv, RedisPhases, [RedisNext]_allVars
    PROVE  RedisPhases'
<1>0. TypeOK /\ GoroutineKinds /\ RedisTypeOK
  BY DEF RedisInv, RedisTypeOK
<1>r. Recovery \in CronJob /\ Recovery \in Caller /\ Recovery \in Proc /\ Recovery \notin Handler
  BY RecoveryAssumption, ProcAssumption DEF Caller, Proc
<1>w. /\ \A w \in Worker : w \in Proc /\ w \notin CronJob /\ w \notin Handler
      /\ \A h \in Handler : h \in Proc /\ h \notin CronJob
      /\ \A j \in CronJob : j \in Proc /\ j \in Caller
  BY ProcAssumption DEF Caller, Proc
<1>1. ASSUME NEW h \in Handler, NEW r \in Repo, HandlerEvent(h, r),
             UNCHANGED <<redisVars, execVars, ctlVars>>
      PROVE  RedisPhases'
  BY <1>0, <1>1, <1>r, <1>w DEF HandlerEvent, RedisPhases, TypeOK, execVars, ctlVars
<1>2. ASSUME NEW p \in Proc, EnqueueRoute(p), UNCHANGED <<redisVars, execVars, ctlVars>>
      PROVE  RedisPhases'
  BY <1>0, <1>2, <1>r, <1>w
  DEF EnqueueRoute, AfterEnqueue, Goto, Leave, RedisPhases, TypeOK, Proc, Caller, execVars, ctlVars
<1>3. ASSUME NEW p \in Proc, NEW w \in Worker, EnqueueSpawn(p, w),
             UNCHANGED <<redisVars, execVars, ctlVars>>
      PROVE  RedisPhases'
  BY <1>0, <1>3, <1>r, <1>w
  DEF EnqueueSpawn, AfterEnqueue, RedisPhases, TypeOK, Proc, Caller, execVars, ctlVars
<1>4. ASSUME NEW w \in Worker, RunDebounced(w) \/ RunAcquire(w) \/ RunEnd(w),
             UNCHANGED <<redisVars, execVars, ctlVars>>
      PROVE  RedisPhases'
  BY <1>0, <1>4, <1>r, <1>w
  DEF RunDebounced, RunAcquire, RunEnd, Goto, Leave, RedisPhases, TypeOK, execVars, ctlVars
<1>5. CASE ((recovered /\ Serve) \/ UNCHANGED vars) /\ UNCHANGED <<redisVars, execVars, ctlVars>>
  BY <1>5 DEF Serve, RedisPhases, vars, execVars, ctlVars
<1>6. ASSUME NEW w \in Worker, Trigger(w) \/ SaveHandle(w) \/ PollReturns(w) \/ DeleteHandle(w)
      PROVE  RedisPhases'
  <2>1. /\ UNCHANGED <<vars, ctlVars>>
        /\ \A v \in Worker \ {w} : step'[v] = step[v]
        /\ step[w] \in {"trigger", "save", "poll", "delete"} /\ pc[w] = "exec"
        /\ step'[w] \in {"save", "poll", "delete", "done"}
        /\ step'[w] = "save" => step[w] = "trigger"
    BY <1>0, <1>6 DEF Trigger, SaveHandle, PollReturns, DeleteHandle, InRun, RedisTypeOK
  <2> QED
    BY <2>1 DEF RedisPhases, vars, ctlVars
<1>7. ASSUME NEW i \in Pipeline, PipelineEnds(i) PROVE RedisPhases'
  BY <1>7 DEF PipelineEnds, RedisPhases, vars, ctlVars
<1>8. CASE Crash \/ Tick
  BY <1>8 DEF Crash, Tick, Waiting, RedisPhases, execVars, dispVars, ctlVars
<1>9. CASE Restart
  BY <1>9, <1>r, <1>w DEF Restart, RedisPhases
<1>10. CASE RecoverSnapshot
  BY <1>0, <1>10, <1>r, <1>w DEF RecoverSnapshot, Goto, RedisPhases, TypeOK, execVars, ctlVars
<1>11. CASE RecoverDone
  BY <1>0, <1>11, <1>r, <1>w DEF RecoverDone, Goto, RedisPhases, TypeOK, execVars
<1>12. ASSUME NEW r \in Repo, RecoverNext(r) PROVE RedisPhases'
  BY <1>0, <1>12, <1>r, <1>w DEF RecoverNext, RedisPhases, TypeOK, execVars, ctlVars
<1>13. ASSUME NEW p \in Proc, RedisQueue(p) \/ RedisQueueFails(p) PROVE RedisPhases'
  <2>1. /\ pc[p] = "queue" /\ pc'[p] \in {"spawn", AfterEnqueue(p)}
        /\ \A q \in Proc \ {p} : pc'[q] = pc[q]
        /\ UNCHANGED <<main, toAdopt, todo, step, ctlVars>>
    BY <1>0, <1>13
    DEF RedisQueue, RedisQueueFails, EnqueueQueue, Goto, Leave, TypeOK, execVars
  <2> QED
    BY <1>r, <1>w, <2>1 DEF AfterEnqueue, RedisPhases, Proc, Caller, ctlVars
<1>14. ASSUME NEW w \in Worker, RedisStart(w) PROVE RedisPhases'
  BY <1>0, <1>14, <1>r, <1>w
  DEF RedisStart, RunStart, Goto, RedisPhases, TypeOK, RedisTypeOK, ctlVars
<1>15. ASSUME NEW w \in Worker, ExecReturns(w) PROVE RedisPhases'
  BY <1>0, <1>15, <1>r, <1>w
  DEF ExecReturns, RunReturns, InRun, Goto, Favourable, RedisPhases, TypeOK, RedisTypeOK, ctlVars
<1>16. ASSUME NEW w \in Worker, RedisFinish(w) \/ RedisFinishFails(w) PROVE RedisPhases'
  <2>1. /\ pc[w] = "finish" /\ pc'[w] \in {"route", "return"}
        /\ \A q \in Proc \ {w} : pc'[q] = pc[q]
        /\ UNCHANGED <<main, toAdopt, todo, step, ctlVars>>
    BY <1>0, <1>16, Excluded
    DEF RedisFinish, RedisFinishFails, RunFinish, Goto, Leave, TypeOK, Proc, execVars
  <2> QED
    BY <1>r, <1>w, <2>1 DEF RedisPhases, ctlVars
<1>17. ASSUME NEW r \in Repo, NEW w \in Worker, RedisAdopt(r, w) \/ RedisAdoptFails(r, w)
       PROVE  RedisPhases'
  <2>1. /\ main = "startup" /\ toAdopt # {}
        /\ pc'[w] = "exec" /\ step'[w] = "poll"
        /\ \A q \in Proc \ {w} : pc'[q] = pc[q]
        /\ \A v \in Worker \ {w} : step'[v] = step[v]
        /\ UNCHANGED <<main, todo, ctlVars>>
    BY <1>0, <1>17
    DEF RedisAdopt, RedisAdoptFails, AdoptRun, TypeOK, RedisTypeOK, Proc
  <2> QED
    BY <1>r, <1>w, <2>1 DEF RedisPhases, ctlVars
<1>18. CASE PlainStep /\ UNCHANGED <<redisVars, execVars, ctlVars>>
  BY <1>1, <1>2, <1>3, <1>4, <1>5, <1>18, Excluded DEF PlainStep
<1> QED
  BY <1>6, <1>7, <1>8, <1>9, <1>10, <1>11, <1>12, <1>13, <1>14, <1>15, <1>16, <1>17, <1>18,
     RedisSteps, Excluded
  DEF OutsideStep, ProcessStep

(***************************************************************************)
(* What redis and GitLab know of r stays in order when its entry and its   *)
(* handle stay (or the entry's expiry is refreshed) and no pipeline is     *)
(* started for it: pipelines may end, and fresh ones be taken for others.  *)
(***************************************************************************)
LEMMA KeptFrame ==
    ASSUME RedisTypeOK, NEW r \in Repo, Kept(r),
           state'[r] = state[r], handle'[r] = handle[r], handleTtl'[r] = handleTtl[r],
           ttl'[r] \in {ttl[r], TTL},
           \A i \in Pipeline :
               /\ live'[i] = r => live[i] = r /\ runtime'[i] = runtime[i]
               /\ live'[i] \in {live[i], NoRepo} \/ Fresh(i)
    PROVE  Kept(r)'
<1>1. ttl[r] \in 0..TTL /\ ttl'[r] \in 0..TTL /\ ttl[r] <= ttl'[r]
  BY TimeAssumption DEF RedisTypeOK
<1>2. \A i \in Pipeline : live'[i] = r => state'[r] = "running" /\ ttl'[r] + runtime'[i] >= TTL
  BY <1>1, TimeAssumption DEF Kept, RedisTypeOK
<1>3. \A i, j \in Pipeline : live'[i] = r /\ live'[j] = r => i = j
  BY DEF Kept
<1>4. handle'[r] # NoPipeline =>
        /\ state'[r] = "running"
        /\ 1 <= handleTtl'[r] /\ handleTtl'[r] <= ttl'[r]
  BY <1>1, TimeAssumption DEF Kept, RedisTypeOK
<1>5. handle'[r] # NoPipeline => live'[handle'[r]] \in {r, NoRepo}
  BY DEF Kept, RedisTypeOK, Fresh
<1>6. handle'[r] # NoPipeline => \A i \in Pipeline : live'[i] = r => handle'[r] = i
  BY DEF Kept
<1> QED
  BY <1>2, <1>3, <1>4, <1>5, <1>6 DEF Kept

(***************************************************************************)
(* A repository stays answered for when, besides, its goroutine stays      *)
(* where it is, or goes on within its wait for StartRun, or lets go of it. *)
(***************************************************************************)
LEMMA AnsweredFrame ==
    ASSUME RedisInv, NEW r \in Repo, Answered(r),
           state'[r] = state[r], handle'[r] = handle[r], ttl'[r] \in {ttl[r], TTL},
           \A i \in Pipeline :
               /\ live'[i] = r => live[i] = r
               /\ live'[i] \in {live[i], NoRepo} \/ Fresh(i),
           \A p \in Proc :
               Holds(p, r)' =>
                   /\ Holds(p, r)
                   /\ \/ pc'[p] = pc[p]
                      \/ pc[p] \notin {"exec", "finish"} /\ pc'[p] \notin {"exec", "finish"}
                   /\ pc[p] = "exec" => step'[p] = step[p] /\ pipe'[p] = pipe[p],
           r \in toAdopt' => r \in toAdopt /\ \A p \in Proc : ~Holds(p, r)',
           r \in todo'[Recovery] => r \in todo[Recovery] /\ \A p \in Proc : ~Holds(p, r)'
    PROVE  Answered(r)'
<1>1. \A p, q \in Proc : Holds(p, r)' /\ Holds(q, r)' => p = q
  BY DEF Answered
<1>2. ASSUME NEW p \in Proc, Holds(p, r)'
      PROVE  /\ state'[r] = IF pc'[p] \in {"exec", "finish"} THEN "running" ELSE "queued"
             /\ \A i \in Pipeline :
                  live'[i] = r => pc'[p] = "exec" /\ step'[p] \in {"save", "poll"} /\ pipe'[p] = i
             /\ pc'[p] = "finish" => handle'[r] = NoPipeline
  BY <1>2 DEF Answered
<1>3. ASSUME NEW p \in Proc, Holds(p, r)', pc'[p] = "exec" PROVE Executes(p, r)'
  <2>1. pc[p] = "exec" /\ p \in Worker /\ Executes(p, r) /\ step'[p] = step[p] /\ pipe'[p] = pipe[p]
    BY <1>3 DEF Answered, RedisInv, GoroutineKinds, Proc
  <2> QED
    BY <2>1 DEF Executes, Fresh
<1>4. r \in toAdopt' => handle'[r] # NoPipeline
  BY DEF Answered
<1>5. r \in todo'[Recovery] => state'[r] = "queued"
  BY DEF Answered
<1> QED
  BY <1>1, <1>2, <1>3, <1>4, <1>5 DEF Answered, Holds

\* What RedisSafe says of r, whether or not a process runs.
InOrder(r) == Kept(r) /\ (Alive => Answered(r))

(***************************************************************************)
(* Steps that pass no store operation and start no pipeline leave every    *)
(* repository in order.                                                    *)
(***************************************************************************)
LEMMA QuietOrder ==
    ASSUME Favourable, RedisInv, RedisSafe, NEW r \in Repo,
           \/ PlainStep /\ UNCHANGED <<redisVars, execVars, ctlVars>>
           \/ \E i \in Pipeline : PipelineEnds(i)
           \/ RecoverDone
    PROVE  InOrder(r)'
<1>0. TypeOK /\ RedisTypeOK /\ GoroutineKinds /\ RedisPhases /\ Kept(r) /\ (Alive => Answered(r))
  BY DEF RedisInv, RedisTypeOK, RedisSafe
<1>r. Recovery \in Proc
  BY RecoveryAssumption DEF Caller, Proc
<1>1. ASSUME UNCHANGED <<state, redisVars, live, runtime>> PROVE Kept(r)'
  BY <1>0, <1>1, KeptFrame DEF redisVars
<1>2. ASSUME Alive, UNCHANGED <<state, redisVars, execVars, todo, toAdopt>>,
             \A p \in Proc :
               Holds(p, r)' =>
                   /\ Holds(p, r)
                   /\ \/ pc'[p] = pc[p]
                      \/ pc[p] \notin {"exec", "finish"} /\ pc'[p] \notin {"exec", "finish"}
      PROVE  InOrder(r)'
  <2>1. r \in toAdopt' => r \in toAdopt /\ \A p \in Proc : ~Holds(p, r)'
    BY <1>0, <1>2 DEF Answered
  <2>2. r \in todo'[Recovery] => r \in todo[Recovery] /\ \A p \in Proc : ~Holds(p, r)'
    BY <1>0, <1>2 DEF Answered
  <2>3. Answered(r)'
    BY <1>0, <1>2, <2>1, <2>2, AnsweredFrame DEF redisVars, execVars
  <2> QED
    BY <1>1, <1>2, <2>3 DEF InOrder, execVars
<1>3. ASSUME NEW h \in Handler, NEW s \in Repo, HandlerEvent(h, s),
             UNCHANGED <<redisVars, execVars, ctlVars>>
      PROVE  InOrder(r)'
  BY <1>0, <1>2, <1>3 DEF HandlerEvent, storeVars, Alive, Holds, HoldsPC, TypeOK, Proc, Caller
<1>4. ASSUME NEW p \in Proc, EnqueueRoute(p), UNCHANGED <<redisVars, execVars, ctlVars>>
      PROVE  InOrder(r)'
  BY <1>0, <1>2, <1>4, AfterEnqueueKind
  DEF EnqueueRoute, Goto, Leave, storeVars, Holds, HoldsPC, TypeOK
<1>5. ASSUME NEW w \in Worker, RunDebounced(w) \/ RunAcquire(w) \/ RunEnd(w),
             UNCHANGED <<redisVars, execVars, ctlVars>>
      PROVE  InOrder(r)'
  BY <1>0, <1>2, <1>5
  DEF RunDebounced, RunAcquire, RunEnd, Goto, Leave, storeVars, Holds, HoldsPC, TypeOK, Proc
<1>6. CASE Serve /\ UNCHANGED <<redisVars, execVars, ctlVars>>
  BY <1>2, <1>6 DEF Serve, storeVars, Alive, Holds
<1>7. CASE UNCHANGED vars /\ UNCHANGED <<redisVars, execVars, ctlVars>>
  <2>1. CASE Alive
    BY <1>2, <1>7, <2>1 DEF vars, Holds
  <2>2. CASE ~Alive
    BY <1>1, <1>7, <2>2 DEF vars, execVars, Alive, InOrder
  <2> QED
    BY <2>1, <2>2
<1>8. CASE RecoverDone
  BY <1>0, <1>2, <1>8, <1>r DEF RecoverDone, Goto, storeVars, Alive, Holds, HoldsPC, TypeOK
<1>9. ASSUME NEW i \in Pipeline, PipelineEnds(i) PROVE InOrder(r)'
  <2>1. /\ UNCHANGED <<vars, redisVars, step, pipe>>
        /\ \A k \in Pipeline :
             /\ live'[k] = r => live[k] = r /\ runtime'[k] = runtime[k]
             /\ live'[k] \in {live[k], NoRepo}
    BY <1>0, <1>9, RepoAssumption DEF PipelineEnds, RedisTypeOK
  <2>2. Kept(r)'
    BY <1>0, <2>1, KeptFrame DEF vars, redisVars
  <2>3. ASSUME Alive PROVE Answered(r)'
    <3>1. \A p \in Proc : Holds(p, r)' => Holds(p, r) /\ pc'[p] = pc[p]
      BY <2>1 DEF vars, Holds
    <3>2. r \in toAdopt' => r \in toAdopt /\ \A p \in Proc : ~Holds(p, r)'
      BY <1>0, <2>1, <2>3, <3>1 DEF Answered, vars
    <3>3. r \in todo'[Recovery] => r \in todo[Recovery] /\ \A p \in Proc : ~Holds(p, r)'
      BY <1>0, <2>1, <2>3, <3>1 DEF Answered, vars
    <3> QED
      BY <1>0, <2>1, <2>3, <3>1, <3>2, <3>3, AnsweredFrame DEF vars, redisVars
  <2> QED
    BY <2>1, <2>2, <2>3 DEF InOrder, Alive, vars
<1>10. ASSUME NEW p \in Proc, NEW w \in Worker, EnqueueSpawn(p, w),
              UNCHANGED <<redisVars, execVars, ctlVars>>
       PROVE  InOrder(r)'
  <2>0. /\ Alive /\ pc[p] = "spawn" /\ pc[w] = "free" /\ p # w /\ w \in Proc
        /\ pc'[w] = "debounce" /\ pc'[p] = AfterEnqueue(p)
        /\ repo'[w] = repo[p]
        /\ \A q \in Proc \ {p, w} : pc'[q] = pc[q] /\ repo'[q] = repo[q]
        /\ UNCHANGED <<storeVars, todo, toAdopt, main>>
    BY <1>0, <1>10 DEF EnqueueSpawn, TypeOK, Proc
  <2>1. CASE r # repo[p]
    BY <1>0, <1>2, <1>10, <2>0, <2>1, AfterEnqueueKind DEF storeVars, Holds, HoldsPC
  <2>2. CASE r = repo[p]
    <3>1. Holds(p, r) /\ Answered(r) /\ state[r] = "queued" /\ r \notin toAdopt
          /\ r \notin todo[Recovery]
      BY <1>0, <2>0, <2>2 DEF Holds, HoldsPC, Answered
    <3>2. \A q \in Proc : Holds(q, r)' => q = w
      BY <2>0, <2>2, <3>1, AfterEnqueueKind DEF Holds, HoldsPC, Answered
    <3>3. \A i \in Pipeline : live[i] # r
      BY <1>0, <3>1 DEF Kept
    <3>4. Answered(r)'
      BY <1>10, <2>0, <3>1, <3>2, <3>3 DEF Answered, storeVars, execVars
    <3> QED
      BY <1>1, <1>10, <2>0, <3>4 DEF InOrder, storeVars, execVars
  <2> QED
    BY <2>1, <2>2
<1>11. CASE PlainStep /\ UNCHANGED <<redisVars, execVars, ctlVars>>
  BY <1>0, <1>3, <1>4, <1>5, <1>6, <1>7, <1>10, <1>11, Excluded DEF PlainStep
<1> QED
  BY <1>8, <1>9, <1>11

(***************************************************************************)
(* A step of a goroutine at work for another repository leaves r in order. *)
(***************************************************************************)
LEMMA OtherOrder ==
    ASSUME RedisInv, NEW r \in Repo, Kept(r), Answered(r), NEW p \in Proc,
           ~Holds(p, r)',
           \A q \in Proc \ {p} : pc'[q] = pc[q] /\ repo'[q] = repo[q],
           \A v \in Worker \ {p} : step'[v] = step[v] /\ pipe'[v] = pipe[v],
           state'[r] = state[r], handle'[r] = handle[r], handleTtl'[r] = handleTtl[r],
           ttl'[r] \in {ttl[r], TTL},
           \A i \in Pipeline :
               /\ live'[i] = r => live[i] = r /\ runtime'[i] = runtime[i]
               /\ live'[i] \in {live[i], NoRepo} \/ Fresh(i),
           r \in toAdopt' => r \in toAdopt,
           r \in todo'[Recovery] => r \in todo[Recovery]
    PROVE  InOrder(r)'
<1>0. RedisTypeOK /\ GoroutineKinds
  BY DEF RedisInv
<1>1. Kept(r)'
  BY <1>0, KeptFrame
<1>2. \A q \in Proc :
        Holds(q, r)' =>
            /\ Holds(q, r) /\ pc'[q] = pc[q]
            /\ pc[q] = "exec" => step'[q] = step[q] /\ pipe'[q] = pipe[q]
  BY <1>0 DEF Holds, GoroutineKinds, Proc
<1>3. r \in toAdopt' => r \in toAdopt /\ \A q \in Proc : ~Holds(q, r)'
  BY <1>2 DEF Answered
<1>4. r \in todo'[Recovery] => r \in todo[Recovery] /\ \A q \in Proc : ~Holds(q, r)'
  BY <1>2 DEF Answered
<1>5. Answered(r)'
  BY <1>2, <1>3, <1>4, AnsweredFrame
<1> QED
  BY <1>1, <1>5 DEF InOrder

(***************************************************************************)
(* Queue, answered or not: it creates an entry only when there is none,    *)
(* and then neither a handle nor a pipeline of the repository is left; it  *)
(* refreshes the expiry of one that is there (redis.go:92-111).            *)
(***************************************************************************)
LEMMA QueueOrder ==
    ASSUME Favourable, RedisInv, RedisSafe, NEW r \in Repo, NEW p \in Proc,
           RedisQueue(p) \/ RedisQueueFails(p)
    PROVE  InOrder(r)'
<1>0. TypeOK /\ RedisTypeOK /\ GoroutineKinds /\ Alive /\ Kept(r) /\ Answered(r)
  BY DEF RedisInv, RedisTypeOK, RedisSafe, RedisQueue, RedisQueueFails, EnqueueQueue
<1>1. /\ pc[p] = "queue" /\ repo[p] \in Repo
      /\ pc'[p] \in {"spawn", AfterEnqueue(p)}
      /\ repo'[p] \in {repo[p], NoRepo}
      /\ pc'[p] = "spawn" => state[repo[p]] = "absent" /\ state'[repo[p]] = "queued"
      /\ state'[repo[p]] \in {state[repo[p]], "queued"}
      /\ state[repo[p]] # "absent" => state'[repo[p]] = state[repo[p]]
      /\ ttl'[repo[p]] \in {ttl[repo[p]], TTL}
      /\ \A s \in Repo \ {repo[p]} : state'[s] = state[s] /\ ttl'[s] = ttl[s]
      /\ \A q \in Proc \ {p} : pc'[q] = pc[q] /\ repo'[q] = repo[q]
      /\ UNCHANGED <<handle, handleTtl, execVars, todo, toAdopt, main>>
  <2>1. pc[p] = "queue" /\ repo[p] \in Repo
    BY <1>0 DEF RedisQueue, RedisQueueFails, EnqueueQueue, GoroutineKinds
  <2>2. AfterEnqueue(p) # "spawn"
    BY AfterEnqueueKind
  <2>3. CASE RedisQueue(p)
    BY <1>0, <2>1, <2>2, <2>3
    DEF RedisQueue, EnqueueQueue, Queue, QueueResult, Goto, Leave, Touch, KeepHandles, TypeOK,
        StoreTypeOK, State, RedisTypeOK
  <2>4. CASE RedisQueueFails(p)
    BY <1>0, <2>1, <2>2, <2>4
    DEF RedisQueueFails, Queue, Leave, Touch, KeepHandles, storeVars, TypeOK, StoreTypeOK, State,
        RedisTypeOK
  <2> QED
    BY <2>1, <2>3, <2>4
<1>2. pc'[p] \in HoldsPC => pc'[p] = "spawn"
  BY <1>1, AfterEnqueueKind DEF HoldsPC
<1>3. CASE state'[r] = state[r]
  <2>1. ~Holds(p, r)'
    BY <1>1, <1>2, <1>3, RepoAssumption DEF Holds
  <2> QED
    BY <1>0, <1>1, <1>3, <2>1, OtherOrder DEF execVars
<1>4. CASE state'[r] # state[r]
  <2>1. r = repo[p] /\ state[r] = "absent" /\ state'[r] = "queued"
    BY <1>1, <1>4
  <2>2. handle[r] = NoPipeline /\ \A i \in Pipeline : live[i] # r
    BY <1>0, <2>1 DEF Kept
  <2>3. r \notin toAdopt /\ r \notin todo[Recovery]
    BY <1>0, <2>1, <2>2 DEF Answered
  <2>4. \A q \in Proc : ~Holds(q, r)
    BY <1>0, <2>1 DEF Answered
  <2>5. \A q \in Proc : Holds(q, r)' => q = p /\ pc'[q] = "spawn"
    BY <1>1, <1>2, <2>4 DEF Holds
  <2>6. Kept(r)'
    BY <1>1, <2>1, <2>2 DEF Kept, execVars
  <2>7. Answered(r)'
    BY <1>1, <2>1, <2>2, <2>3, <2>5 DEF Answered, execVars
  <2> QED
    BY <2>6, <2>7 DEF InOrder
<1> QED
  BY <1>3, <1>4

(***************************************************************************)
(* StartRun and the steps of gitlabci's Run: the entry is running and at   *)
(* its full expiry when the pipeline is triggered and when the handle is   *)
(* saved, and the handle is deleted only when the pipeline is over.        *)
(***************************************************************************)
LEMMA RunOrder ==
    ASSUME Favourable, RedisInv, RedisSafe, NEW r \in Repo, NEW w \in Worker,
           RedisStart(w) \/ Trigger(w) \/ SaveHandle(w) \/ PollReturns(w) \/ DeleteHandle(w)
    PROVE  InOrder(r)'
<1>0. TypeOK /\ RedisTypeOK /\ GoroutineKinds /\ Alive /\ Kept(r) /\ Answered(r) /\ w \in Proc
  BY DEF RedisInv, RedisTypeOK, RedisSafe, RedisStart, RunStart, Trigger, SaveHandle,
         PollReturns, DeleteHandle, InRun, Proc
<1>1. /\ pc[w] \in {"start", "exec"} /\ repo[w] \in Repo
      /\ pc'[w] = "exec"
      /\ \A q \in Proc \ {w} : pc'[q] = pc[q]
      /\ \A v \in Worker \ {w} : step'[v] = step[v] /\ pipe'[v] = pipe[v]
      /\ UNCHANGED <<repo, todo, toAdopt, main>>
  BY <1>0
  DEF RedisStart, RunStart, Trigger, SaveHandle, PollReturns, DeleteHandle, InRun, Goto, vars,
      GoroutineKinds, HoldsPC, TypeOK, RedisTypeOK
<1>2. ASSUME r # repo[w] PROVE InOrder(r)'
  <2>1. /\ state'[r] = state[r] /\ handle'[r] = handle[r]
        /\ handleTtl'[r] = handleTtl[r] /\ ttl'[r] = ttl[r]
    BY <1>0, <1>1, <1>2
    DEF RedisStart, RunStart, StartRun, Touch, Trigger, SaveHandle, PollReturns, DeleteHandle,
        PutHandle, DropHandle, KeepHandles, vars, redisVars, TypeOK, StoreTypeOK, RedisTypeOK
  <2>2. \A i \in Pipeline :
          /\ live'[i] = r => live[i] = r /\ runtime'[i] = runtime[i]
          /\ live'[i] = live[i] \/ Fresh(i)
    BY <1>0, <1>2 
    DEF RedisStart, Trigger, SaveHandle, PollReturns, DeleteHandle, RedisTypeOK
  <2>3. ~Holds(w, r)'
    BY <1>1, <1>2 DEF Holds
  <2> QED
    BY <1>0, <1>1, <2>1, <2>2, <2>3, OtherOrder
<1>3. ASSUME r = repo[w]
      PROVE  /\ Holds(w, r) /\ Holds(w, r)'
             /\ \A q \in Proc : Holds(q, r)' => q = w
             /\ r \notin toAdopt' /\ r \notin todo'[Recovery]
  <2>1. Holds(w, r) /\ Holds(w, r)'
    BY <1>1, <1>3 DEF Holds, HoldsPC
  <2>2. \A q \in Proc : Holds(q, r) => q = w
    BY <1>0, <2>1 DEF Answered
  <2>3. \A q \in Proc : Holds(q, r)' => q = w
    BY <1>1, <2>2 DEF Holds
  <2>4. r \notin toAdopt /\ r \notin todo[Recovery]
    BY <1>0, <2>1 DEF Answered
  <2> QED
    BY <1>1, <2>1, <2>3, <2>4
\* It remains to see that r's entry is running and that w knows what it relies on.
<1>4. ASSUME r = repo[w], state'[r] = "running", Executes(w, r)',
             \A i \in Pipeline : live'[i] = r => step'[w] \in {"save", "poll"} /\ pipe'[w] = i
      PROVE  Answered(r)'
  BY <1>1, <1>3, <1>4 DEF Answered
<1>5. CASE r = repo[w] /\ RedisStart(w)
  <2>1. pc[w] = "start" /\ state[r] = "queued" 
    BY <1>0, <1>3, <1>5 DEF RedisStart, RunStart, Answered
  <2>2. /\ state'[r] = "running" /\ ttl'[r] = TTL /\ step'[w] = "trigger"
        /\ UNCHANGED <<handle, handleTtl, live, runtime>>
    BY <1>0, <1>5, <2>1
    DEF RedisStart, RunStart, StartRun, Touch, KeepHandles, TypeOK, StoreTypeOK, RedisTypeOK
  <2>3. handle[r] = NoPipeline /\ \A i \in Pipeline : live[i] # r
    BY <1>0, <2>1 DEF Kept
  <2>4. Executes(w, r)'
    BY <2>2, <2>3 DEF Executes
  <2>5. Kept(r)'
    BY <2>2, <2>3 DEF Kept
  <2>6. Answered(r)'
    BY <1>4, <1>5, <2>2, <2>3, <2>4
  <2> QED
    BY <2>5, <2>6 DEF InOrder
<1>6. CASE r = repo[w] /\ pc[w] = "exec" /\ UNCHANGED vars
  <2>0. state[r] = "running" /\ state'[r] = "running" /\ Executes(w, r)
    BY <1>0, <1>3, <1>6 DEF Answered, vars
  <2>1. CASE Trigger(w)
    <3>1. /\ step[w] = "trigger" /\ handle[r] = NoPipeline /\ ttl[r] = TTL
          /\ \A i \in Pipeline : live[i] # r
      BY <1>0, <1>3, <1>6, <2>0, <2>1 DEF Trigger, InRun, Executes, Answered
    <3>2. UNCHANGED <<ttl, handle, handleTtl>>
      BY <2>1 DEF Trigger, redisVars
    <3>3. ASSUME NEW i \in Pipeline, Fresh(i), live' = [live EXCEPT ![i] = repo[w]],
                 runtime' = [runtime EXCEPT ![i] = 0], pipe' = [pipe EXCEPT ![w] = i],
                 step' = [step EXCEPT ![w] = "save"]
          PROVE  InOrder(r)'
      <4>1. /\ live'[i] = r /\ runtime'[i] = 0 /\ \A j \in Pipeline \ {i} : live'[j] # r
            /\ step'[w] = "save" /\ pipe'[w] = i
        BY <1>0, <1>6, <3>1, <3>3 DEF RedisTypeOK
      <4>2. Kept(r)'
        BY <2>0, <3>1, <3>2, <4>1, TimeAssumption DEF Kept
      <4>3. Executes(w, r)'
        BY <3>1, <3>2, <4>1 DEF Executes
      <4> QED
        BY <1>4, <1>6, <2>0, <4>1, <4>2, <4>3 DEF InOrder
    <3>4. ASSUME step' = [step EXCEPT ![w] = "done"], UNCHANGED <<pipe, live, runtime>>
          PROVE  InOrder(r)'
      <4>1. Kept(r)'
        BY <1>0, <2>0, <3>2, <3>4, KeptFrame
      <4>2. step'[w] = "done"
        BY <1>0, <3>4 DEF RedisTypeOK
      <4>3. Executes(w, r)'
        BY <3>1, <3>2, <4>2 DEF Executes
      <4> QED
        BY <1>4, <1>6, <2>0, <3>1, <3>4, <4>1, <4>3 DEF InOrder
    <3> QED
      BY <2>1, <3>3, <3>4, Excluded DEF Trigger, RedisSafe
  <2>2. CASE SaveHandle(w)
    <3>1. /\ step[w] = "save" /\ handle[r] = NoPipeline /\ ttl[r] = TTL
          /\ pipe[w] \in Pipeline /\ live[pipe[w]] \in {r, NoRepo}
          /\ \A i \in Pipeline : live[i] = r => pipe[w] = i
      BY <1>0, <1>3, <1>6, <2>0, <2>2 DEF SaveHandle, InRun, Executes, Answered
    <3>2. UNCHANGED <<ttl, pipe, live, runtime>> /\ step'[w] = "poll"
      BY <1>0, <2>2 DEF SaveHandle, RedisTypeOK
    <3>3. Executes(w, r)'
      BY <3>1, <3>2 DEF Executes
    <3>4. \/ handle'[r] = pipe[w] /\ handleTtl'[r] = TTL
          \/ handle'[r] = NoPipeline /\ handleTtl'[r] = handleTtl[r]
      BY <1>0, <1>6, <2>2, <3>1 DEF SaveHandle, PutHandle, KeepHandles, RedisTypeOK
    <3>5. Kept(r)'
      BY <1>0, <2>0, <3>1, <3>2, <3>4, TimeAssumption DEF Kept
    <3> QED
      BY <1>4, <1>6, <2>0, <3>1, <3>2, <3>3, <3>5 DEF InOrder
  <2>3. CASE PollReturns(w)
    <3>1. /\ step[w] = "poll" /\ live[pipe[w]] = NoRepo
          /\ step'[w] = "delete" /\ UNCHANGED <<redisVars, pipe, live, runtime>>
      BY <1>0, <2>3, Excluded DEF PollReturns, InRun, RedisTypeOK, RedisSafe
    <3>2. \A i \in Pipeline : live[i] # r
      BY <1>0, <1>3, <1>6, <3>1, RepoAssumption DEF Answered
    <3>3. Kept(r)'
      BY <1>0, <2>0, <3>1, KeptFrame DEF redisVars
    <3>4. Executes(w, r)'
      BY <3>1 DEF Executes
    <3> QED
      BY <1>4, <1>6, <2>0, <3>1, <3>2, <3>3, <3>4 DEF InOrder
  <2>4. CASE DeleteHandle(w)
    <3>1. /\ step[w] = "delete" /\ step'[w] = "done" /\ UNCHANGED <<ttl, pipe, live, runtime>>
          /\ handle'[r] = NoPipeline
      BY <1>0, <1>6, <2>4, Excluded DEF DeleteHandle, DropHandle, InRun, RedisTypeOK, RedisSafe
    <3>2. \A i \in Pipeline : live[i] # r
      BY <1>0, <1>3, <1>6, <3>1 DEF Answered
    <3>3. Kept(r)'
      BY <3>1, <3>2 DEF Kept
    <3>4. Executes(w, r)'
      BY <3>1 DEF Executes
    <3> QED
      BY <1>4, <1>6, <2>0, <3>1, <3>2, <3>3, <3>4 DEF InOrder
  <2> QED
    BY <1>6, <2>1, <2>2, <2>3, <2>4 DEF RedisStart, RunStart
<1> QED
  BY <1>2, <1>5, <1>6 DEF Trigger, SaveHandle, PollReturns, DeleteHandle, InRun

(***************************************************************************)
(* The end of a run: once gitlabci's Run has returned, the pipeline is     *)
(* over and its handle gone, so FinishRun (which may fail) opens the lock  *)
(* of a repository at rest (dispatcher.go:183-186).                        *)
(***************************************************************************)
LEMMA FinishOrder ==
    ASSUME Favourable, RedisInv, RedisSafe, NEW r \in Repo, NEW w \in Worker,
           ExecReturns(w) \/ RedisFinish(w) \/ RedisFinishFails(w)
    PROVE  InOrder(r)'
<1>0. /\ TypeOK /\ RedisTypeOK /\ GoroutineKinds /\ RedisPhases /\ Alive
      /\ Kept(r) /\ Answered(r) /\ w \in Proc
  BY DEF RedisInv, RedisTypeOK, RedisSafe, ExecReturns, InRun, RedisFinish, RunFinish,
         RunAbandon, RedisFinishFails, Proc
<1>1. /\ pc[w] \in {"exec", "finish"} /\ repo[w] \in Repo
      /\ pc[w] = "exec" => ExecReturns(w)
      /\ pc[w] = "finish" => RedisFinish(w) \/ RedisFinishFails(w)
      /\ pc'[w] \in IF pc[w] = "exec" THEN {"finish"} ELSE {"route", "return"}
      /\ repo'[w] \in {repo[w], NoRepo}
      /\ pc[w] = "exec" => step[w] = "done" /\ repo'[w] = repo[w]
      /\ \A q \in Proc \ {w} : pc'[q] = pc[q] /\ repo'[q] = repo[q]
      /\ \A v \in Worker \ {w} : step'[v] = step[v] /\ pipe'[v] = pipe[v]
      /\ UNCHANGED <<handle, handleTtl, live, runtime, todo, toAdopt, main>>
  <2>1. CASE ExecReturns(w)
    BY <1>0, <2>1
    DEF ExecReturns, RunReturns, InRun, Goto, redisVars, GoroutineKinds, HoldsPC, TypeOK,
        RedisTypeOK
  <2>2. CASE RedisFinish(w)
    BY <1>0, <2>2, Excluded
    DEF RedisFinish, RunFinish, Goto, Leave, KeepHandles, execVars, GoroutineKinds, HoldsPC,
        TypeOK
  <2>3. CASE RedisFinishFails(w)
    BY <1>0, <2>3, Excluded
    DEF RedisFinishFails, Leave, KeepHandles, execVars, GoroutineKinds, HoldsPC, TypeOK
  <2> QED
    BY <2>1, <2>2, <2>3
<1>2. \/ state'[r] = state[r] /\ ttl'[r] = ttl[r]
      \/ r = repo[w] /\ pc[w] = "finish" /\ state'[r] = "absent"
  <2>1. CASE ExecReturns(w)
    BY <2>1 DEF ExecReturns, RunReturns, storeVars, redisVars
  <2>2. CASE RedisFinish(w)
    BY <1>0, <1>1, <2>2, Excluded
    DEF RedisFinish, RunFinish, FinishRun, Forget, TypeOK, StoreTypeOK, RedisTypeOK
  <2>3. CASE RedisFinishFails(w)
    BY <1>0, <1>1, <2>3, Excluded
    DEF RedisFinishFails, FinishRun, Forget, storeVars, TypeOK, StoreTypeOK, RedisTypeOK
  <2> QED
    BY <2>1, <2>2, <2>3
<1>3. CASE r # repo[w] \/ (pc[w] = "finish" /\ state'[r] = state[r])
  <2>1. state'[r] = state[r] /\ ttl'[r] = ttl[r]
    <3>1. CASE r # repo[w]
      BY <1>2, <3>1
    <3>2. CASE r = repo[w] /\ pc[w] = "finish" /\ state'[r] = state[r]
      <4>1. state[r] = "running"
        BY <1>0, <3>2 DEF Answered, Holds, HoldsPC
      <4> QED
        BY <1>2, <3>2, <4>1
    <3> QED
      BY <1>3, <3>1, <3>2
  <2>2. ~Holds(w, r)'
    BY <1>1, <1>3, RepoAssumption DEF Holds, HoldsPC
  <2> QED
    BY <1>0, <1>1, <2>1, <2>2, OtherOrder
<1>4. ASSUME r = repo[w]
      PROVE  /\ handle[r] = NoPipeline /\ \A i \in Pipeline : live[i] # r
             /\ r \notin toAdopt /\ r \notin todo[Recovery]
             /\ \A q \in Proc \ {w} : ~Holds(q, r)' 
             /\ state[r] = "running"
  <2>1. Holds(w, r)
    BY <1>1, <1>4 DEF Holds, HoldsPC
  <2>2. \A i \in Pipeline : live[i] # r
    BY <1>0, <1>1, <2>1 DEF Answered
  <2>3. handle[r] = NoPipeline
    BY <1>0, <1>1, <2>1 DEF Answered, Executes
  <2>4. \A q \in Proc \ {w} : ~Holds(q, r)
    BY <1>0, <2>1 DEF Answered
  <2>5. \A q \in Proc \ {w} : ~Holds(q, r)'
    BY <1>1, <2>4 DEF Holds
  <2>6. state[r] = "running" /\ r \notin toAdopt /\ r \notin todo[Recovery]
    BY <1>0, <1>1, <2>1 DEF Answered
  <2> QED
    BY <2>2, <2>3, <2>5, <2>6
<1>5. ASSUME r = repo[w] PROVE Kept(r)'
  BY <1>1, <1>4, <1>5 DEF Kept
<1>6. CASE r = repo[w] /\ pc[w] = "exec"
  <2>1. Answered(r)'
    BY <1>1, <1>2, <1>4, <1>6 DEF Answered
  <2> QED
    BY <1>5, <1>6, <2>1 DEF InOrder
<1>7. CASE r = repo[w] /\ pc[w] = "finish" /\ state'[r] # state[r]
  <2>1. ~Holds(w, r)'
    BY <1>1, <1>7 DEF Holds, HoldsPC
  <2>2. Answered(r)'
    BY <1>1, <1>4, <1>7, <2>1 DEF Answered
  <2> QED
    BY <1>5, <1>7, <2>2 DEF InOrder
<1> QED
  BY <1>1, <1>3, <1>6, <1>7

(***************************************************************************)
(* The end of one process and the startup of the next: adoption takes over *)
(* exactly the pipelines whose handles were saved, and the recovery loop   *)
(* clears only entries that nobody answers for and that have no pipeline   *)
(* (main.go:162-199).                                                      *)
(***************************************************************************)
LEMMA StartupOrder ==
    ASSUME Favourable, RedisInv, RedisSafe, NEW r \in Repo,
           \/ Crash \/ Restart \/ RecoverSnapshot
           \/ \E s \in Repo : RecoverNext(s)
           \/ \E s \in Repo, w \in Worker : RedisAdopt(s, w) \/ RedisAdoptFails(s, w)
    PROVE  InOrder(r)'
<1>0. TypeOK /\ RedisTypeOK /\ GoroutineKinds /\ RedisPhases /\ Kept(r) /\ (Alive => Answered(r))
  BY DEF RedisInv, RedisTypeOK, RedisSafe
<1>r. /\ Recovery \in CronJob /\ Recovery \in Caller /\ Recovery \in Proc
      /\ Recovery \notin Worker /\ Recovery \notin Handler
  BY RecoveryAssumption, ProcAssumption DEF Caller, Proc
<1>1. ASSUME UNCHANGED <<state, redisVars, live, runtime>> PROVE Kept(r)'
  BY <1>0, <1>1, KeptFrame DEF redisVars
<1>2. CASE Crash
  BY <1>1, <1>2 DEF Crash, storeVars, execVars, InOrder, Alive
<1>3. CASE Restart
  <2>1. \A p \in Proc : ~Holds(p, r)'
    BY <1>3 DEF Restart, Holds, HoldsPC
  <2>2. r \in toAdopt' => handle'[r] # NoPipeline
    BY <1>3 DEF Restart, SavedHandles, redisVars
  <2>3. r \notin todo'[Recovery]
    BY <1>3, <1>r DEF Restart
  <2>4. Answered(r)'
    BY <2>1, <2>2, <2>3 DEF Answered
  <2> QED
    BY <1>1, <1>3, <2>4 DEF Restart, storeVars, InOrder
<1>4. CASE RecoverSnapshot
  <2>1. /\ main = "startup" /\ ~recovered /\ pc[Recovery] = "free" /\ Alive /\ toAdopt = {}
        /\ pc'[Recovery] = "loop" /\ \A q \in Proc \ {Recovery} : pc'[q] = pc[q]
        /\ r \in todo'[Recovery] => state[r] = "queued"
        /\ UNCHANGED <<state, repo, toAdopt, main, redisVars, execVars>>
    BY <1>0, <1>4, <1>r DEF RecoverSnapshot, Goto, storeVars, Alive, TypeOK
  <2>2. \A p \in Proc : Holds(p, r) => pc[p] = "exec"
    BY <1>0, <2>1 DEF RedisPhases, Holds, HoldsPC, Proc, Caller
  <2>3. \A p \in Proc : Holds(p, r)' <=> Holds(p, r)
    BY <1>r, <2>1 DEF Holds, HoldsPC
  <2>4. state[r] = "queued" => \A p \in Proc : ~Holds(p, r)'
    BY <1>0, <2>1, <2>2, <2>3 DEF Answered
  <2>5. \A p \in Proc : Holds(p, r)' => pc'[p] = pc[p]
    BY <1>r, <2>1 DEF Holds, HoldsPC
  <2>6. Answered(r)'
    BY <1>0, <2>1, <2>3, <2>4, <2>5 DEF Answered, Executes, redisVars, execVars
  <2> QED
    BY <1>1, <2>1, <2>6 DEF InOrder, execVars
<1>5. ASSUME NEW s \in Repo, RecoverNext(s) PROVE InOrder(r)'
  <2>0. /\ Alive /\ pc[Recovery] = "loop" /\ s \in todo[Recovery]
        /\ pc'[Recovery] = "route" /\ repo'[Recovery] = s
        /\ \A q \in Proc \ {Recovery} : pc'[q] = pc[q] /\ repo'[q] = repo[q]
        /\ todo'[Recovery] = todo[Recovery] \ {s}
        /\ UNCHANGED <<toAdopt, main, handle, handleTtl, execVars>>
    BY <1>0, <1>5, <1>r DEF RecoverNext, KeepHandles, Alive, TypeOK
  <2>1. ~Holds(Recovery, r)'
    BY <2>0 DEF Holds, HoldsPC
  <2>2. \/ state'[r] = state[r] /\ ttl'[r] = ttl[r]
        \/ r = s /\ state'[r] = "absent"
    BY <1>0, <1>5 DEF RecoverNext, FinishRun, Forget, storeVars, TypeOK, StoreTypeOK, RedisTypeOK
  <2>3. CASE state'[r] = state[r] /\ ttl'[r] = ttl[r]
    BY <1>0, <1>r, <2>0, <2>1, <2>3, OtherOrder DEF execVars
  <2>4. CASE r = s /\ state'[r] = "absent"
    <3>1. state[r] = "queued" /\ \A p \in Proc : ~Holds(p, r)
      BY <1>0, <2>0, <2>4 DEF Answered
    <3>2. handle[r] = NoPipeline /\ \A i \in Pipeline : live[i] # r
      BY <1>0, <3>1 DEF Kept
    <3>3. \A p \in Proc : ~Holds(p, r)'
      BY <2>0, <2>1, <3>1 DEF Holds
    <3>4. r \notin toAdopt' /\ r \notin todo'[Recovery]
      BY <1>0, <2>0, <2>4, <3>2 DEF Answered
    <3>5. Answered(r)'
      BY <3>3, <3>4 DEF Answered
    <3>6. Kept(r)'
      BY <2>0, <3>2 DEF Kept, execVars
    <3> QED
      BY <3>5, <3>6 DEF InOrder
  <2> QED
    BY <2>2, <2>3, <2>4
<1>6. ASSUME NEW s \in Repo, NEW w \in Worker, RedisAdopt(s, w) \/ RedisAdoptFails(s, w)
      PROVE  InOrder(r)'
  <2>0. /\ Alive /\ w \in Proc /\ main = "startup" /\ s \in toAdopt
        /\ pc[w] = "free" /\ pc'[w] = "exec" /\ repo'[w] = s
        /\ step'[w] = "poll" /\ pipe'[w] = handle[s]
        /\ \A q \in Proc \ {w} : pc'[q] = pc[q] /\ repo'[q] = repo[q]
        /\ \A v \in Worker \ {w} : step'[v] = step[v] /\ pipe'[v] = pipe[v]
        /\ toAdopt' = toAdopt \ {s}
        /\ UNCHANGED <<todo, main, handle, handleTtl, live, runtime>>
    BY <1>0, <1>6
    DEF RedisAdopt, RedisAdoptFails, AdoptRun, KeepHandles, redisVars, Alive, TypeOK,
        RedisTypeOK, Proc
  <2>1. /\ r = s => handle[r] # NoPipeline /\ \A p \in Proc : ~Holds(p, r)
        /\ r = s => state[r] = "running"
    BY <1>0, <2>0 DEF Answered, Kept
  <2>2. state'[r] = state[r] /\ ttl'[r] \in {ttl[r], TTL}
    BY <1>0, <1>6, <2>1
    DEF RedisAdopt, RedisAdoptFails, AdoptRun, Adopt, Touch, storeVars, redisVars, TypeOK,
        StoreTypeOK, RedisTypeOK
  <2>3. CASE r # s
    <3>1. ~Holds(w, r)'
      BY <2>0, <2>3 DEF Holds
    <3> QED
      BY <1>0, <2>0, <2>2, <2>3, <3>1, OtherOrder
  <2>4. CASE r = s
    <3>1. Kept(r)'
      BY <1>0, <2>0, <2>2, KeptFrame
    <3>2. \A p \in Proc : Holds(p, r)' => p = w
      BY <2>0, <2>1, <2>4 DEF Holds
    <3>3. r \notin toAdopt' /\ r \notin todo'[Recovery]
      BY <1>0, <2>0, <2>1, <2>4 DEF Answered
    <3>4. handle[r] \in Pipeline /\ live[handle[r]] \in {r, NoRepo}
          /\ \A i \in Pipeline : live[i] = r => handle[r] = i
      BY <1>0, <2>1, <2>4 DEF Kept, RedisTypeOK
    <3>5. Executes(w, r)'
      BY <2>0, <2>4, <3>4 DEF Executes
    <3>6. Answered(r)'
      BY <2>0, <2>1, <2>2, <2>4, <3>2, <3>3, <3>4, <3>5 DEF Answered
    <3> QED
      BY <3>1, <3>6 DEF InOrder
  <2> QED
    BY <2>3, <2>4
<1> QED
  BY <1>2, <1>3, <1>4, <1>5, <1>6

(***************************************************************************)
(* While the dispatcher waits for its pipelines, a repository with a slot  *)
(* for everyone finds one: the goroutines that hold a slot are at exec,    *)
(* each for a repository of its own.                                       *)
(***************************************************************************)
LEMMA SlotIsFree ==
    ASSUME Favourable, RedisInv, RedisSafe, Alive, NEW r \in Repo,
           \A w \in Worker : pc[w] \in {"free", "acquire", "exec"},
           NEW u \in Worker, pc[u] = "acquire", repo[u] = r
    PROVE  sem < MaxConcurrent
<1>0. TypeOK /\ GoroutineKinds /\ SlotsBounded /\ u \in Proc /\ IsFiniteSet(Repo)
  BY DEF RedisInv, RedisTypeOK, Proc, Favourable
<1>1. \A w \in SlotHolders : w \in Proc /\ pc[w] = "exec" /\ repo[w] \in Repo /\ Holds(w, repo[w])
  BY <1>0 DEF SlotHolders, SlotPC, GoroutineKinds, Holds, HoldsPC, Proc
<1>2. \A v, w \in SlotHolders : repo[v] = repo[w] => v = w
  BY <1>1 DEF RedisSafe, Answered
<1>3. \A w \in SlotHolders : repo[w] # r
  <2> SUFFICES ASSUME NEW w \in SlotHolders, repo[w] = r PROVE FALSE
    OBVIOUS
  <2>1. Holds(u, r) /\ Holds(w, r) /\ w \in Proc /\ Answered(r)
    BY <1>1 DEF Holds, HoldsPC, RedisSafe
  <2>2. u = w
    BY <1>0, <2>1 DEF Answered
  <2> QED
    BY <1>1, <2>2
<1>4. IsFiniteSet(Repo \ {r}) /\ Cardinality(Repo \ {r}) = Cardinality(Repo) - 1
  BY <1>0, FS_RemoveElement
<1> DEFINE f == [w \in SlotHolders |-> repo[w]]
<1>5. f \in Injection(SlotHolders, Repo \ {r})
  <2>1. f \in [SlotHolders -> Repo \ {r}]
    BY <1>1, <1>3
  <2> QED
    BY <1>2, <2>1 DEF Injection, IsInjective
<1>6. Cardinality(SlotHolders) <= Cardinality(Repo \ {r})
  BY <1>4, <1>5, FS_Injection
<1>7. Cardinality(Repo) \in Nat /\ Cardinality(SlotHolders) \in Nat
  BY <1>0, FS_CardinalityType DEF SlotsBounded, TypeOK
<1> QED
  BY <1>0, <1>4, <1>6, <1>7, MaxConcurrentAssumption DEF Favourable, SlotsBounded

(***************************************************************************)
(* Time passes: the entry of a running pipeline has more of its life left  *)
(* than the pipeline, because it was at its full TTL when the pipeline was *)
(* triggered and TTL is longer than the run timeout; and no goroutine      *)
(* waits for the semaphore so long that its entry expires under it.        *)
(***************************************************************************)
LEMMA TickOrder ==
    ASSUME Favourable, RedisInv, RedisSafe, NEW r \in Repo, Tick
    PROVE  InOrder(r)'
<1>0. TypeOK /\ RedisTypeOK /\ GoroutineKinds /\ RedisPhases /\ Kept(r) /\ (Alive => Answered(r))
  BY DEF RedisInv, RedisTypeOK, RedisSafe
<1>t. /\ TTL \in Nat /\ RunTimeout \in Nat /\ RunTimeout < TTL
      /\ ttl[r] \in 0..TTL /\ handleTtl[r] \in 0..TTL
      /\ \A i \in Pipeline : runtime[i] \in 0..RunTimeout
  BY <1>0, TimeAssumption DEF RedisTypeOK
<1>o. \A i \in Pipeline : live[i] # NoRepo => runtime[i] < RunTimeout
  BY DEF Tick, Favourable
<1>1. /\ ttl'[r] = IF ttl[r] = 0 THEN 0 ELSE ttl[r] - 1
      /\ state'[r] = IF ttl[r] <= 1 THEN "absent" ELSE state[r]
      /\ handleTtl'[r] = IF handleTtl[r] = 0 THEN 0 ELSE handleTtl[r] - 1
      /\ handle'[r] = IF handleTtl[r] <= 1 THEN NoPipeline ELSE handle[r]
      /\ \A i \in Pipeline : live[i] = r => runtime'[i] = runtime[i] + 1
      /\ UNCHANGED <<pc, repo, todo, toAdopt, main, step, pipe, live>>
  BY <1>o, RepoAssumption DEF Tick, Age, dispVars
<1>2. ASSUME NEW i \in Pipeline, live[i] = r
      PROVE  /\ ttl[r] > 1 /\ state'[r] = "running"
             /\ ttl'[r] + runtime'[i] >= TTL
  <2>1. runtime[i] < RunTimeout
    BY <1>2, <1>o, RepoAssumption
  <2>2. state[r] = "running" /\ ttl[r] + runtime[i] >= TTL
    BY <1>0, <1>2 DEF Kept
  <2>3. runtime'[i] = runtime[i] + 1
    BY <1>1, <1>2
  <2>4. ttl[r] > 1
    BY <1>t, <2>1, <2>2
  <2> QED
    BY <1>1, <1>t, <2>2, <2>3, <2>4
<1>3. ASSUME handle'[r] # NoPipeline
      PROVE  /\ handle[r] # NoPipeline /\ handle'[r] = handle[r]
             /\ state'[r] = "running"
             /\ 1 <= handleTtl'[r] /\ handleTtl'[r] <= ttl'[r]
  <2>1. handleTtl[r] > 1 /\ handle'[r] = handle[r]
    BY <1>1, <1>3, <1>t
  <2>2. state[r] = "running" /\ handleTtl[r] <= ttl[r]
    BY <1>0, <1>3, <2>1 DEF Kept
  <2> QED
    BY <1>1, <1>3, <1>t, <2>1, <2>2
<1>4. Kept(r)'
  <2>1. \A i, j \in Pipeline : live'[i] = r /\ live'[j] = r => i = j
    BY <1>0, <1>1 DEF Kept
  <2>2. handle'[r] # NoPipeline =>
          /\ live'[handle'[r]] \in {r, NoRepo}
          /\ \A i \in Pipeline : live'[i] = r => handle'[r] = i
    BY <1>0, <1>1, <1>3 DEF Kept
  <2> QED
    BY <1>1, <1>2, <1>3, <2>1, <2>2 DEF Kept
<1>5. CASE main = "serving"
  <2>1. /\ Alive /\ Answered(r)
        /\ \A p \in Proc : pc[p] \in {"free", "acquire", "exec"}
        /\ \A w \in Worker : pc[w] = "acquire" => sem = MaxConcurrent
        /\ \A w \in Worker : pc[w] = "exec" => step[w] = "poll" /\ live[pipe[w]] # NoRepo
        /\ toAdopt = {} /\ todo[Recovery] = {}
    BY <1>0, <1>5 DEF Tick, Waiting, Alive, RedisPhases
  <2>2. ASSUME NEW p \in Proc, Holds(p, r)
        PROVE  /\ p \in Worker /\ pc[p] = "exec" /\ step[p] = "poll"
               /\ pipe[p] \in Pipeline /\ live[pipe[p]] = r
    <3>1. p \in Worker /\ pc[p] \in {"acquire", "exec"} /\ repo[p] = r
      BY <1>0, <2>1, <2>2 DEF Holds, HoldsPC, GoroutineKinds, Proc
    <3>2. pc[p] # "acquire"
      <4>1. \A w \in Worker : pc[w] \in {"free", "acquire", "exec"}
        BY <2>1 DEF Proc
      <4>2. sem \in Nat /\ MaxConcurrent \in Nat
        BY <1>0, MaxConcurrentAssumption DEF TypeOK
      <4> QED
        BY <2>1, <3>1, <4>1, <4>2, SlotIsFree
    <3>3. Executes(p, r)
      BY <2>1, <2>2, <3>1, <3>2 DEF Answered
    <3> QED
      BY <2>1, <3>1, <3>2, <3>3 DEF Executes
  <2>3. \A p \in Proc : Holds(p, r)' <=> Holds(p, r)
    BY <1>1 DEF Holds
  <2>4. \A p \in Proc : Holds(p, r) => state'[r] = "running"
    BY <1>2, <2>2
  <2>5. \A p \in Proc : Holds(p, r) => Executes(p, r)'
    BY <1>1, <2>2 DEF Executes
  <2>6. \A p \in Proc : Holds(p, r) => \A i \in Pipeline : live[i] = r => pipe[p] = i
    BY <2>1 DEF Answered
  <2>7. \A p, q \in Proc : Holds(p, r)' /\ Holds(q, r)' => p = q
    BY <2>1, <2>3 DEF Answered
  <2>8. Answered(r)'
    BY <1>1, <2>1, <2>2, <2>3, <2>4, <2>5, <2>6, <2>7 DEF Answered
  <2> QED
    BY <1>4, <2>8 DEF InOrder
<1>6. CASE main = "exited"
  BY <1>1, <1>4, <1>6 DEF InOrder, Alive
<1> QED
  BY <1>5, <1>6 DEF Tick, Waiting

(***************************************************************************)
(* In favourable conditions every reachable state is safe, however often   *)
(* the process crashes, however long it stays away, and although Queue,    *)
(* FinishRun, SaveRunHandle, Adopt, LoadRunHandles and Snapshot may fail.  *)
(***************************************************************************)
THEOREM RecoveryInvariance ==
    ASSUME Favourable
    PROVE  RedisSpec => []RedisSafe
<1>1. RedisInit => RedisSafe
  <2> SUFFICES ASSUME RedisInit PROVE RedisSafe
    OBVIOUS
  <2>0. /\ Recovery \in CronJob /\ Recovery \in Proc
        /\ \A j \in CronJob : j \in Proc
        /\ \A h \in Handler : h \in Proc
        /\ \A w \in Worker : w \in Proc
    BY RecoveryAssumption DEF Caller, Proc
  <2>1. RedisPhases
    BY <2>0 DEF RedisInit, Init, RedisPhases
  <2>2. \A r \in Repo : Kept(r) /\ Answered(r)
    BY <2>0, RepoAssumption DEF RedisInit, Init, Kept, Answered, Holds, HoldsPC
  <2> QED
    BY <2>1, <2>2 DEF RedisSafe
<1>2. RedisInv /\ RedisSafe /\ [RedisNext]_allVars => RedisSafe'
  <2> SUFFICES ASSUME RedisInv, RedisSafe, [RedisNext]_allVars PROVE RedisSafe'
    OBVIOUS
  <2>0. RedisPhases
    BY DEF RedisSafe
  <2>1. ASSUME NEW r \in Repo PROVE InOrder(r)'
    <3>1. CASE ProcessStep
      BY <3>1, QuietOrder, StartupOrder, TickOrder DEF ProcessStep
    <3>2. CASE OutsideStep
      BY <2>0, <3>2, QuietOrder, RunOrder, Excluded DEF OutsideStep
    <3>3. CASE \/ PlainStep /\ UNCHANGED <<redisVars, execVars, ctlVars>>
               \/ \E s \in Repo, w \in Worker : RedisAdopt(s, w) \/ RedisAdoptFails(s, w)
      BY <3>3, QuietOrder, StartupOrder
    <3> QED
      BY <2>0, <3>1, <3>2, <3>3, RedisSteps, QueueOrder, RunOrder, FinishOrder, Excluded
  <2>2. RedisPhases'
    BY <2>0, RedisPhaseStep
  <2> QED
    BY <2>1, <2>2 DEF RedisSafe, InOrder
<1> QED
  BY RedisInvariance, <1>1, <1>2, PTL DEF RedisSpec

(***************************************************************************)
(* "a repository never has more than one run in flight" (README.md:6), of  *)
(* the pipelines GitLab runs, over any number of crashes and restarts.     *)
(***************************************************************************)
THEOREM OnePipelineAtATime ==
    ASSUME Favourable
    PROVE  RedisSpec => []OneRunInFlight
<1>1. RedisInv /\ RedisSafe => OneRunInFlight
  BY DEF RedisInv, RedisTypeOK, RedisSafe, Kept, OneRunInFlight
<1> QED
  BY RedisInvariance, RecoveryInvariance, <1>1, PTL

(***************************************************************************)
(* A running pipeline's repository stays locked: neither a crash nor the   *)
(* recovery loop nor the expiry of the entry opens the lock before the     *)
(* pipeline ends (redis.go:17-58, main.go:162-199).                        *)
(***************************************************************************)
THEOREM PipelinesAreLocked ==
    ASSUME Favourable
    PROVE  RedisSpec => []LiveRunIsLocked
<1>1. RedisInv /\ RedisSafe => LiveRunIsLocked
  BY DEF RedisInv, RedisTypeOK, RedisSafe, Kept, LiveRunIsLocked
<1> QED
  BY RedisInvariance, RecoveryInvariance, <1>1, PTL
===============================================================================
