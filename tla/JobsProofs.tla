------------------------------- MODULE JobsProofs -------------------------------
(***************************************************************************)
(* Proofs about Jobs, for every number of repositories, handlers, workers, *)
(* executors and objects: a server that crashes, restarts and adopts, over *)
(* clusters and daemons whose every call may fail.                         *)
(***************************************************************************)
EXTENDS Jobs, DispatcherProofs

\* A step of the dispatcher that leaves main and the executors alone.
PlainStep ==
    \/ \E h \in Handler, r \in Repo : HandlerEvent(h, r)
    \/ \E p \in Proc :
         EnqueueRoute(p) \/ EnqueueQueue(p) \/ \E w \in Worker : EnqueueSpawn(p, w)
    \/ \E w \in Worker :
         \/ RunDebounced(w) \/ RunAcquire(w) \/ RunCancelled(w) \/ RunAbandon(w)
         \/ RunFinish(w) \/ RunEnd(w)
    \/ UNCHANGED vars

\* A step of an executor, of the cluster or of the daemon: the dispatcher rests.
OutsideStep ==
    \/ \E w \in Worker :
         \/ RunsNothing(w) \/ DockerStart(w) \/ KubeWait(w) \/ DockerWait(w) \/ DockerRemove(w)
         \/ \E e \in Executor, o \in Object : Create(w, e, o)
    \/ \E o \in Object : ObjectEnds(o) \/ JobExpires(o)
    \/ \E e \in Kube : KubeList(e)

(***************************************************************************)
(* Every step of Jobs is one of these.                                     *)
(***************************************************************************)
LEMMA JobsSteps ==
    ASSUME [JobsNext]_allVars
    PROVE  \/ PlainStep /\ UNCHANGED jobVars
           \/ \E w \in Worker : JobsStart(w) \/ ExecReturns(w)
           \/ OutsideStep
           \/ unlisted = {} /\ found = {} /\ Serve /\ UNCHANGED jobVars
           \/ ShutdownPastDeadline
           \/ Restart
           \/ \E f \in found, w \in Worker : AdoptJob(f, w)
  BY DEF JobsNext, JobsProcStep, JobsWorkerStep, JobsMainStep, JobsEnvironment, Plain,
         PlainStep, OutsideStep, allVars, Proc, Caller

(***************************************************************************)
(* What the dispatcher does in Jobs by itself, Dispatcher allows it to do. *)
(***************************************************************************)
LEMMA OwnSteps ==
    ASSUME \/ PlainStep \/ Serve \/ OutsideStep
           \/ \E w \in Worker : JobsStart(w) \/ ExecReturns(w)
    PROVE  [Next]_vars
<1>1. CASE OutsideStep
  BY <1>1
  DEF OutsideStep, RunsNothing, DockerStart, KubeWait, DockerWait, DockerRemove, Create,
      ObjectEnds, JobExpires, KubeList
<1>2. CASE Serve \/ \E w \in Worker : JobsStart(w) \/ ExecReturns(w)
  BY <1>2 DEF Next, MainStep, WorkerStep, JobsStart, ExecReturns
<1>3. CASE PlainStep
  <2>1. CASE \E p \in Proc :
               EnqueueRoute(p) \/ EnqueueQueue(p) \/ \E w \in Worker : EnqueueSpawn(p, w)
    BY <2>1 DEF Next, CallerStep, WorkerStep, Proc
  <2>2. CASE \E h \in Handler, r \in Repo : HandlerEvent(h, r)
    BY <2>2 DEF Next, Environment
  <2>3. CASE \E w \in Worker :
               \/ RunDebounced(w) \/ RunAcquire(w) \/ RunCancelled(w) \/ RunAbandon(w)
               \/ RunFinish(w) \/ RunEnd(w)
    BY <2>3 DEF Next, WorkerStep
  <2> QED
    BY <1>3, <2>1, <2>2, <2>3 DEF PlainStep
<1> QED
  BY <1>1, <1>2, <1>3

(***************************************************************************)
(* The dispatcher's part of the state keeps its types and its semaphore    *)
(* its count: also over a restart, which forgets both, and an adoption,    *)
(* which takes no slot.                                                    *)
(***************************************************************************)
LEMMA JobsDispatcherStep ==
    ASSUME JobsInv, [JobsNext]_allVars
    PROVE  RepoInv' /\ SlotsBounded'
<1>0. RepoInv /\ SlotsBounded
  BY DEF JobsInv, JobsTypeOK, RepoInv
<1>1. CASE [Next]_vars
  BY <1>0, <1>1, TypeStep, SlotStep
<1>2. CASE ShutdownPastDeadline
  <2>1. RepoInv'
    BY <1>0, <1>2
    DEF ShutdownPastDeadline, RepoInv, TypeOK, StoreTypeOK, GoroutineKinds, Phase, storeVars
  <2>2. SlotsBounded'
    BY <1>0, <1>2 DEF ShutdownPastDeadline, SlotsBounded, SlotHolders
  <2> QED
    BY <2>1, <2>2
<1>3. CASE Restart
  <2>1. RepoInv'
    BY <1>0, <1>3
    DEF Restart, RepoInv, TypeOK, StoreTypeOK, State, GoroutineKinds, Phase, PC, HoldsPC,
        Proc, Caller
  <2>2. SlotHolders' = {}
    BY <1>3 DEF Restart, SlotHolders, SlotPC, Proc
  <2> QED
    BY <1>3, <2>1, <2>2, FS_EmptySet, MaxConcurrentAssumption DEF Restart, SlotsBounded
<1>4. ASSUME NEW f \in found, NEW w \in Worker, AdoptJob(f, w) PROVE RepoInv' /\ SlotsBounded'
  <2>0. f[3] \in Repo
    BY DEF JobsInv, JobsTypeOK
  <2>1. StoreTypeOK'
    BY <1>0, <1>4, <2>0, StoreTypes DEF AdoptJob, RepoInv, TypeOK
  <2>2. RepoInv'
    BY <1>0, <1>4, <2>0, <2>1, ProcAssumption
    DEF AdoptJob, RepoInv, TypeOK, GoroutineKinds, Proc, PC, HoldsPC
  <2>3. SlotHolders' = SlotHolders
    BY <1>0, <1>4 DEF AdoptJob, SlotHolders, SlotPC, RepoInv, TypeOK, Proc
  <2> QED
    BY <1>0, <1>4, <2>2, <2>3 DEF AdoptJob, SlotsBounded
<1> QED
  BY <1>1, <1>2, <1>3, <1>4, JobsSteps, OwnSteps

(***************************************************************************)
(* The steps of the dispatcher proper neither begin nor end a run, and     *)
(* while main adopts they only let finished goroutines go.                 *)
(***************************************************************************)
LEMMA PlainFrame ==
    ASSUME JobsInv, PlainStep
    PROVE  /\ main' = main
           /\ \A w \in Worker :
                /\ pc'[w] = "exec" <=> pc[w] = "exec"
                /\ pc[w] = "exec" => repo'[w] = repo[w]
           /\ main = "startup" =>
                /\ \A p \in Proc : pc'[p] \in {"free", "exec", "finish", "return"}
                /\ \A r \in Repo : ~pendingRerun'[r]
<1>0. TypeOK /\ GoroutineKinds /\ JobsPhases
  BY DEF JobsInv, JobsTypeOK
<1>1. ASSUME NEW h \in Handler, NEW r \in Repo, HandlerEvent(h, r)
      PROVE  /\ main' = main /\ main # "startup"
             /\ \A w \in Worker : pc'[w] = pc[w] /\ repo'[w] = repo[w]
  BY <1>0, <1>1, ProcAssumption DEF HandlerEvent, TypeOK, Proc, Caller
<1>2. ASSUME NEW p \in Proc,
             EnqueueRoute(p) \/ EnqueueQueue(p) \/ \E w \in Worker : EnqueueSpawn(p, w)
      PROVE  /\ main' = main /\ main # "startup"
             /\ \A w \in Worker :
                  /\ pc'[w] = "exec" <=> pc[w] = "exec"
                  /\ pc[w] = "exec" => repo'[w] = repo[w]
  BY <1>0, <1>2, AfterEnqueueKind
  DEF EnqueueRoute, EnqueueQueue, EnqueueSpawn, Goto, Leave, JobsPhases, TypeOK, Proc
<1>3. ASSUME NEW w \in Worker,
             RunDebounced(w) \/ RunAcquire(w) \/ RunCancelled(w) \/ RunAbandon(w)
      PROVE  /\ main' = main /\ main # "startup"
             /\ \A v \in Worker :
                  /\ pc'[v] = "exec" <=> pc[v] = "exec"
                  /\ pc[v] = "exec" => repo'[v] = repo[v]
  BY <1>0, <1>3
  DEF RunDebounced, RunAcquire, RunCancelled, RunAbandon, Goto, Leave, JobsPhases, TypeOK, Proc
<1>4. ASSUME NEW w \in Worker, RunFinish(w) \/ RunEnd(w)
      PROVE  /\ main' = main
             /\ \A v \in Worker :
                  /\ pc'[v] = "exec" <=> pc[v] = "exec"
                  /\ pc[v] = "exec" => repo'[v] = repo[v]
             /\ main = "startup" =>
                  /\ \A p \in Proc : pc'[p] \in {"free", "exec", "finish", "return"}
                  /\ \A r \in Repo : ~pendingRerun'[r]
  <2>0. w \in Proc /\ (pc[w] = "finish" => repo[w] \in Repo)
    BY <1>0 DEF GoroutineKinds, HoldsPC, Proc
  <2>1. CASE RunFinish(w)
    BY <1>0, <2>0, <2>1
    DEF RunFinish, FinishRun, Goto, Leave, JobsPhases, TypeOK, StoreTypeOK, Proc
  <2>2. CASE RunEnd(w)
    BY <1>0, <2>0, <2>2 DEF RunEnd, Leave, JobsPhases, TypeOK, storeVars, Proc
  <2> QED
    BY <1>4, <2>1, <2>2
<1>5. CASE UNCHANGED vars
  BY <1>0, <1>5 DEF vars, JobsPhases
<1> QED
  BY <1>1, <1>2, <1>3, <1>4, <1>5 DEF PlainStep

(***************************************************************************)
(* The executors' part of the state keeps its types.                       *)
(***************************************************************************)
LEMMA JobsTypeStep ==
    ASSUME JobsInv, [JobsNext]_allVars
    PROVE  JobsTypeOK'
<1>0. TypeOK' /\ JobsTypeOK
  BY JobsDispatcherStep DEF RepoInv, JobsInv
<1> USE <1>0 DEF JobsTypeOK, Step
<1>1. CASE \/ PlainStep /\ UNCHANGED jobVars
           \/ unlisted = {} /\ found = {} /\ Serve /\ UNCHANGED jobVars
           \/ ShutdownPastDeadline
  BY <1>1 DEF ShutdownPastDeadline, jobVars, execVars, objectVars, adoptVars
<1>2. ASSUME NEW w \in Worker, JobsStart(w) \/ ExecReturns(w) PROVE JobsTypeOK'
  BY <1>2 DEF JobsStart, ExecReturns, At, objectVars, adoptVars
<1>3. ASSUME NEW w \in Worker, RunsNothing(w) \/ DockerWait(w) PROVE JobsTypeOK'
  BY <1>3 DEF RunsNothing, DockerWait, At, objectVars, adoptVars
<1>4. ASSUME NEW w \in Worker, InRun(w, step[w]) PROVE repo[w] \in Repo
  BY <1>4 DEF InRun, JobsInv, GoroutineKinds, HoldsPC, Proc
<1>5. ASSUME NEW w \in Worker, NEW e \in Executor, NEW o \in Object, Create(w, e, o)
      PROVE  JobsTypeOK'
  <2>1. repo[w] \in Repo
    BY <1>4, <1>5 DEF Create, InRun
  <2>2. status' \in [Object -> {"none", "created", "active", "finished"}]
        /\ owner' \in [Object -> Repo \union {NoRepo}]
        /\ place' \in [Object -> {Namespace[k] : k \in Kube} \union {Daemon, NoObject}]
    BY <1>5, <2>1 DEF Create, Appears
  <2>3. step' \in [Worker -> Step]
        /\ via' \in [Worker -> Executor \union {NoExecutor}]
        /\ obj' \in [Worker -> Object \union {NoObject}]
        /\ misled' \subseteq Repo
    BY <1>5, <2>1 DEF Create, At, Mishap
  <2> QED
    BY <1>5, <2>2, <2>3 DEF Create, adoptVars
<1>6. ASSUME NEW w \in Worker, KubeWait(w) PROVE JobsTypeOK'
  BY <1>4, <1>6 DEF KubeWait, InRun, At, Mishap, objectVars, adoptVars
<1>7. ASSUME NEW w \in Worker, DockerStart(w) PROVE JobsTypeOK'
  BY <1>7 DEF DockerStart, At, Becomes, objectVars, adoptVars
<1>8. ASSUME NEW w \in Worker, DockerRemove(w) PROVE JobsTypeOK'
  BY <1>4, <1>8 DEF DockerRemove, InRun, At, Vanishes, Mishap, objectVars, adoptVars
<1>9. ASSUME NEW o \in Object, ObjectEnds(o) \/ JobExpires(o) PROVE JobsTypeOK'
  BY <1>9 DEF ObjectEnds, JobExpires, Becomes, Vanishes, execVars, adoptVars
<1>10. ASSUME NEW e \in Kube, KubeList(e) PROVE JobsTypeOK'
  <2>1. \A o \in Live : owner[o] \in Repo
    BY DEF JobsInv, ObjectKinds, Live
  <2> QED
    BY <1>10, <2>1 DEF KubeList, Live, Mishap, execVars, objectVars
<1>11. CASE Restart
  BY <1>11 DEF Restart, objectVars
<1>12. ASSUME NEW f \in found, NEW w \in Worker, AdoptJob(f, w) PROVE JobsTypeOK'
  BY <1>12 DEF AdoptJob, At, objectVars, Executor
<1> QED
  BY <1>1, <1>2, <1>3, <1>5, <1>6, <1>7, <1>8, <1>9, <1>10, <1>11, <1>12, JobsSteps
  DEF OutsideStep

(***************************************************************************)
(* Until main serves, nothing but adopted Jobs runs in the process, and    *)
(* from then on nothing is left to adopt (main.go:162-199).                *)
(***************************************************************************)
LEMMA PhaseStep ==
    ASSUME JobsInv, [JobsNext]_allVars
    PROVE  JobsPhases'
<1>0. TypeOK /\ JobsTypeOK /\ JobsPhases /\ ExecutorKinds
  BY DEF JobsInv, JobsTypeOK
<1>1. CASE PlainStep /\ UNCHANGED jobVars
  BY <1>0, <1>1, PlainFrame DEF JobsPhases, jobVars, execVars, adoptVars
<1>2. CASE unlisted = {} /\ found = {} /\ Serve /\ UNCHANGED jobVars
  BY <1>0, <1>2 DEF Serve, JobsPhases, jobVars, adoptVars
<1>3. ASSUME NEW w \in Worker, JobsStart(w) PROVE JobsPhases'
  BY <1>0, <1>3 DEF JobsStart, RunStart, JobsPhases, adoptVars, Proc
<1>4. ASSUME NEW w \in Worker, ExecReturns(w) PROVE JobsPhases'
  BY <1>0, <1>4, ExecutorAssumption
  DEF ExecReturns, RunReturns, Goto, At, storeVars, JobsPhases, JobsTypeOK, TypeOK, adoptVars,
      Proc, Executor
<1>5. ASSUME NEW w \in Worker,
             \/ RunsNothing(w) \/ DockerStart(w) \/ DockerWait(w) \/ DockerRemove(w)
             \/ \E e \in Executor, o \in Object : Create(w, e, o)
      PROVE  JobsPhases'
  BY <1>0, <1>5
  DEF RunsNothing, DockerStart, DockerWait, DockerRemove, Create, InRun, JobsPhases, vars,
      adoptVars
<1>6. ASSUME NEW w \in Worker, KubeWait(w) PROVE JobsPhases'
  BY <1>0, <1>6 DEF KubeWait, At, JobsPhases, JobsTypeOK, vars, adoptVars
<1>7. ASSUME NEW o \in Object, ObjectEnds(o) \/ JobExpires(o) PROVE JobsPhases'
  BY <1>0, <1>7 DEF ObjectEnds, JobExpires, JobsPhases, vars, execVars, adoptVars
<1>8. ASSUME NEW e \in Kube, KubeList(e) PROVE JobsPhases'
  BY <1>0, <1>8 DEF KubeList, JobsPhases, vars, execVars
<1>9. CASE ShutdownPastDeadline
  BY <1>0, <1>9 DEF ShutdownPastDeadline, JobsPhases, jobVars, adoptVars
<1>10. CASE Restart
  BY <1>10, ExecutorAssumption DEF Restart, JobsPhases, Proc, Executor
<1>11. ASSUME NEW f \in found, NEW w \in Worker, AdoptJob(f, w) PROVE JobsPhases'
  BY <1>0, <1>11, ExecutorAssumption
  DEF AdoptJob, Adopt, At, JobsPhases, JobsTypeOK, TypeOK, Proc
<1> QED
  BY <1>1, <1>2, <1>3, <1>4, <1>5, <1>6, <1>7, <1>8, <1>9, <1>10, <1>11, JobsSteps
  DEF OutsideStep

(***************************************************************************)
(* A goroutine and its executor stay in step; in particular a container is *)
(* started only while it is there and not yet started.                     *)
(***************************************************************************)
LEMMA ExecutorStep ==
    ASSUME JobsInv, [JobsNext]_allVars
    PROVE  ExecutorKinds'
<1>0. TypeOK /\ JobsTypeOK /\ ExecutorKinds /\ ObjectKinds /\ ContainersAreHeld
  BY DEF JobsInv, JobsTypeOK
<1>1. CASE PlainStep /\ UNCHANGED jobVars
  BY <1>0, <1>1, PlainFrame DEF ExecutorKinds, jobVars, execVars, objectVars
<1>2. CASE \/ unlisted = {} /\ found = {} /\ Serve /\ UNCHANGED jobVars
           \/ ShutdownPastDeadline
           \/ \E e \in Kube : KubeList(e)
  BY <1>0, <1>2
  DEF Serve, ShutdownPastDeadline, KubeList, ExecutorKinds, jobVars, execVars, objectVars, vars
<1>3. ASSUME NEW w \in Worker, JobsStart(w) PROVE ExecutorKinds'
  BY <1>0, <1>3
  DEF JobsStart, RunStart, Goto, At, ExecutorKinds, JobsTypeOK, TypeOK, objectVars, Proc
<1>4. ASSUME NEW w \in Worker, ExecReturns(w) PROVE ExecutorKinds'
  BY <1>0, <1>4, ObjectAssumption
  DEF ExecReturns, RunReturns, Goto, At, ExecutorKinds, JobsTypeOK, TypeOK, objectVars, Proc
<1>5. ASSUME NEW w \in Worker, RunsNothing(w) \/ KubeWait(w) PROVE ExecutorKinds'
  BY <1>0, <1>5
  DEF RunsNothing, KubeWait, InRun, At, ExecutorKinds, JobsTypeOK, vars, objectVars
<1>6. ASSUME NEW w \in Worker, DockerWait(w) PROVE ExecutorKinds'
  BY <1>0, <1>6 DEF DockerWait, InRun, At, ExecutorKinds, JobsTypeOK, vars, objectVars
<1>7. ASSUME NEW w \in Worker, NEW e \in Executor, NEW o \in Object, Create(w, e, o)
      PROVE  ExecutorKinds'
  BY <1>0, <1>7, ObjectAssumption, ExecutorAssumption
  DEF Create, InRun, Fresh, Appears, At, ExecutorKinds, JobsTypeOK, vars
<1>8. ASSUME NEW w \in Worker, DockerStart(w) PROVE ExecutorKinds'
  BY <1>0, <1>8
  DEF DockerStart, InRun, Becomes, At, ExecutorKinds, ContainersAreHeld, JobsTypeOK, vars,
      objectVars
<1>9. ASSUME NEW w \in Worker, DockerRemove(w) PROVE ExecutorKinds'
  BY <1>0, <1>9
  DEF DockerRemove, InRun, Vanishes, At, ExecutorKinds, ContainersAreHeld, JobsTypeOK, vars,
      objectVars
<1>10. ASSUME NEW o \in Object, ObjectEnds(o) \/ JobExpires(o) PROVE ExecutorKinds'
  BY <1>0, <1>10
  DEF ObjectEnds, JobExpires, Becomes, Vanishes, ExecutorKinds, JobsTypeOK, vars, execVars
<1>11. CASE Restart
  BY <1>11, ObjectAssumption DEF Restart, ExecutorKinds, Proc
<1>12. ASSUME NEW f \in found, NEW w \in Worker, AdoptJob(f, w) PROVE ExecutorKinds'
  BY <1>0, <1>12
  DEF AdoptJob, At, ExecutorKinds, JobsTypeOK, TypeOK, objectVars, Proc
<1> QED
  BY <1>1, <1>2, <1>3, <1>4, <1>5, <1>6, <1>7, <1>8, <1>9, <1>10, <1>11, <1>12, JobsSteps
  DEF OutsideStep

(***************************************************************************)
(* A Job or container keeps its repository and its place until it is gone, *)
(* and so does the knowledge of it in main and in its goroutine.           *)
(***************************************************************************)
LEMMA ObjectStep ==
    ASSUME JobsInv, [JobsNext]_allVars
    PROVE  ObjectKinds'
<1>0. TypeOK /\ JobsTypeOK /\ ExecutorKinds /\ ObjectKinds /\ GoroutineKinds
  BY DEF JobsInv, JobsTypeOK
<1>1. CASE PlainStep /\ UNCHANGED jobVars
  <2>1. \A w \in Worker : obj[w] \in Object => repo'[w] = repo[w]
    BY <1>0, <1>1, PlainFrame, ObjectAssumption DEF ExecutorKinds
  <2> QED
    BY <1>0, <1>1, <2>1 DEF ObjectKinds, jobVars, execVars, objectVars, adoptVars
<1>2. CASE \/ unlisted = {} /\ found = {} /\ Serve /\ UNCHANGED jobVars
           \/ ShutdownPastDeadline
           \/ \E w \in Worker : RunsNothing(w) \/ KubeWait(w) \/ DockerWait(w)
  BY <1>0, <1>2
  DEF Serve, ShutdownPastDeadline, RunsNothing, KubeWait, DockerWait, ObjectKinds, jobVars,
      execVars, objectVars, adoptVars, vars
<1>3. ASSUME NEW w \in Worker, JobsStart(w) \/ ExecReturns(w) PROVE ObjectKinds'
  BY <1>0, <1>3, ObjectAssumption
  DEF JobsStart, RunStart, ExecReturns, RunReturns, ObjectKinds, JobsTypeOK, objectVars,
      adoptVars
<1>4. ASSUME NEW w \in Worker, NEW e \in Executor, NEW o \in Object, Create(w, e, o)
      PROVE  ObjectKinds'
  <2>0. repo[w] \in Repo
    BY <1>0, <1>4 DEF Create, InRun, GoroutineKinds, HoldsPC, Proc
  <2>1. /\ e \in Kube => place'[o] = Namespace[e] /\ status'[o] = "active"
        /\ e \notin Kube => e \in Docker /\ place'[o] = Daemon
        /\ owner'[o] = repo[w]
        /\ \A n \in Object \ {o} :
             owner'[n] = owner[n] /\ place'[n] = place[n] /\ status'[n] = status[n]
    BY <1>0, <1>4, ExecutorAssumption DEF Create, Appears, JobsTypeOK
  <2>2. /\ UNCHANGED <<repo, found>>
        /\ \A v \in Worker : obj[v] # o
        /\ \A f \in found : f[2] # o
    BY <1>4 DEF Create, Fresh, vars, adoptVars
  <2>3. \A f \in found : f[2] \in Object
    BY <1>0 DEF JobsTypeOK
  <2>4. \A v \in Worker : \/ obj'[v] = obj[v] /\ via'[v] = via[v]
                          \/ v = w /\ obj'[v] = o /\ via'[v] = e
    BY <1>0, <1>4 DEF Create, JobsTypeOK
  <2> QED
    BY <1>0, <2>0, <2>1, <2>2, <2>3, <2>4 DEF ObjectKinds
<1>5. ASSUME NEW w \in Worker, DockerStart(w) PROVE ObjectKinds'
  BY <1>0, <1>5
  DEF DockerStart, InRun, Becomes, ExecutorKinds, ObjectKinds, JobsTypeOK, vars, objectVars,
      adoptVars
<1>6. ASSUME NEW w \in Worker, DockerRemove(w) PROVE ObjectKinds'
  BY <1>0, <1>6
  DEF DockerRemove, InRun, Vanishes, ExecutorKinds, ObjectKinds, JobsTypeOK, vars, objectVars,
      adoptVars
<1>7. ASSUME NEW o \in Object, ObjectEnds(o) \/ JobExpires(o) PROVE ObjectKinds'
  BY <1>0, <1>7
  DEF ObjectEnds, JobExpires, Becomes, Vanishes, ObjectKinds, JobsTypeOK, vars, execVars,
      adoptVars
<1>8. ASSUME NEW e \in Kube, KubeList(e) PROVE ObjectKinds'
  BY <1>0, <1>8 DEF KubeList, Live, ObjectKinds, vars, execVars, objectVars
<1>9. CASE Restart
  BY <1>0, <1>9, ObjectAssumption DEF Restart, ObjectKinds, objectVars
<1>10. ASSUME NEW f \in found, NEW w \in Worker, AdoptJob(f, w) PROVE ObjectKinds'
  BY <1>0, <1>10 DEF AdoptJob, ObjectKinds, JobsTypeOK, TypeOK, objectVars, Proc
<1> QED
  BY <1>1, <1>2, <1>3, <1>4, <1>5, <1>6, <1>7, <1>8, <1>9, <1>10, JobsSteps
  DEF OutsideStep

(***************************************************************************)
(* A step that keeps objects, executors and runs in flight keeps the       *)
(* containers in good hands.                                               *)
(***************************************************************************)
LEMMA ContainerFrame ==
    ASSUME JobsInv, UNCHANGED <<obj, via, step, objectVars>>, misled \subseteq misled',
           \A w \in Worker : pc[w] = "exec" => pc'[w] = "exec", Alive
    PROVE  (ContainersAreHeld /\ ContainersAreRemoved)'
<1>1. ContainersAreHeld /\ ContainersAreRemoved
  BY DEF JobsInv
<1>2. Containers' = Containers
  BY DEF Containers, objectVars
<1> QED
  BY <1>1, <1>2 DEF ContainersAreHeld, ContainersAreRemoved, Alive, objectVars

(***************************************************************************)
(* A container is created by one goroutine, known to no other, and its run *)
(* returns only through the deferred removal (docker.go:111-117): when that *)
(* fails, or the answer to the create was lost, the repository is misled.  *)
(***************************************************************************)
LEMMA ContainerStep ==
    ASSUME JobsInv, [JobsNext]_allVars
    PROVE  (ContainersAreHeld /\ ContainersAreRemoved)'
<1>0. /\ TypeOK /\ JobsTypeOK /\ ExecutorKinds /\ ObjectKinds /\ JobsPhases
      /\ ContainersAreHeld /\ ContainersAreRemoved
      /\ Alive
  BY DEF JobsInv, JobsTypeOK, JobsPhases, Alive
<1>1. CASE PlainStep /\ UNCHANGED jobVars
  BY <1>0, <1>1, PlainFrame, ContainerFrame DEF jobVars, execVars
<1>2. CASE \/ unlisted = {} /\ found = {} /\ Serve /\ UNCHANGED jobVars
           \/ ShutdownPastDeadline
           \/ \E e \in Kube : KubeList(e)
  <2>1. UNCHANGED <<obj, via, step, objectVars, pc>> /\ misled \subseteq misled'
    BY <1>2 DEF Serve, ShutdownPastDeadline, KubeList, Mishap, jobVars, execVars, vars
  <2> QED
    BY <1>0, <2>1, ContainerFrame
<1>3. ASSUME NEW w \in Worker, JobsStart(w) PROVE (ContainersAreHeld /\ ContainersAreRemoved)'
  <2>1. Containers' = Containers
    BY <1>3 DEF JobsStart, Containers, objectVars
  <2> QED
    BY <1>0, <1>3, <2>1
    DEF JobsStart, RunStart, Goto, At, ContainersAreHeld, ContainersAreRemoved, JobsTypeOK,
        TypeOK, Alive, objectVars, Proc
<1>4. ASSUME NEW w \in Worker, ExecReturns(w)
      PROVE  (ContainersAreHeld /\ ContainersAreRemoved)'
  <2>1. Containers' = Containers /\ UNCHANGED <<owner, misled>> /\ Containers \subseteq Object
    BY <1>4 DEF ExecReturns, Containers, objectVars
  <2>2. ContainersAreHeld'
    BY <1>0, <1>4, <2>1, ObjectAssumption DEF ExecReturns, At, ContainersAreHeld, JobsTypeOK
  <2>3. ContainersAreRemoved'
    <3> SUFFICES ASSUME NEW o \in Containers, owner[o] \notin misled
                 PROVE  \E v \in Worker : pc'[v] = "exec" /\ obj'[v] = o
      BY <2>1 DEF ContainersAreRemoved
    <3>1. PICK v \in Worker : pc[v] = "exec" /\ obj[v] = o
      BY <1>0 DEF ContainersAreRemoved
    <3>2. v # w
      BY <1>0, <1>4, <3>1 DEF ExecReturns, InRun, ContainersAreHeld
    <3> QED
      BY <1>0, <1>4, <3>1, <3>2 DEF ExecReturns, RunReturns, Goto, JobsTypeOK, TypeOK, Proc
  <2> QED
    BY <2>2, <2>3
<1>5. ASSUME NEW w \in Worker, RunsNothing(w) \/ KubeWait(w) \/ DockerWait(w)
      PROVE  (ContainersAreHeld /\ ContainersAreRemoved)'
  <2>1. Containers' = Containers /\ misled \subseteq misled' /\ UNCHANGED <<pc, main, obj, via, owner>>
    BY <1>5 DEF RunsNothing, KubeWait, DockerWait, Mishap, Containers, objectVars, vars
  <2>2. step'[w] = "done" => obj[w] \notin Containers
    BY <1>0, <1>5, ObjectAssumption, PlaceAssumption
    DEF RunsNothing, KubeWait, DockerWait, InRun, At, ExecutorKinds, ObjectKinds, Containers,
        JobsTypeOK
  <2>3. \A v \in Worker \ {w} : step'[v] = step[v]
    BY <1>0, <1>5 DEF RunsNothing, KubeWait, DockerWait, At, JobsTypeOK
  <2> QED
    BY <1>0, <2>1, <2>2, <2>3 DEF ContainersAreHeld, ContainersAreRemoved, Alive
<1>6. ASSUME NEW w \in Worker, NEW e \in Executor, NEW o \in Object, Create(w, e, o)
      PROVE  (ContainersAreHeld /\ ContainersAreRemoved)'
  <2>1. /\ UNCHANGED <<pc, main, repo>>
        /\ misled \subseteq misled'
        /\ \A v \in Worker : obj[v] # o
        /\ pc[w] = "exec" /\ step[w] = "create" /\ obj[w] = NoObject
        /\ owner'[o] = repo[w]
        /\ \A v \in Worker \ {w} :
             obj'[v] = obj[v] /\ via'[v] = via[v] /\ step'[v] = step[v]
    BY <1>0, <1>6
    DEF Create, Fresh, InRun, Appears, At, Mishap, ExecutorKinds, JobsTypeOK, vars
  <2>2. \A n \in Object \ {o} :
          /\ n \in Containers' <=> n \in Containers
          /\ owner'[n] = owner[n]
    BY <1>0, <1>6 DEF Create, Appears, Containers, JobsTypeOK
  <2>3. \/ obj'[w] = o /\ step'[w] # "done"
        \/ obj'[w] = obj[w] /\ step'[w] = "done" /\ repo[w] \in misled'
    BY <1>0, <1>6 DEF Create, At, Mishap, JobsTypeOK
  <2>4. Containers \subseteq Object /\ Containers' \subseteq Object
    BY DEF Containers
  <2>5. ContainersAreHeld'
    BY <1>0, <2>1, <2>2, <2>3, <2>4, ObjectAssumption DEF ContainersAreHeld, JobsTypeOK
  <2>6. ContainersAreRemoved'
    <3> SUFFICES ASSUME NEW n \in Containers', owner'[n] \notin misled'
                 PROVE  \E v \in Worker : pc'[v] = "exec" /\ obj'[v] = n
      BY DEF ContainersAreRemoved
    <3>1. CASE n = o
      BY <2>1, <2>3, <3>1
    <3>2. CASE n # o
      BY <1>0, <2>1, <2>2, <2>4, <3>2, ObjectAssumption DEF ContainersAreRemoved
    <3> QED
      BY <3>1, <3>2
  <2> QED
    BY <2>5, <2>6
<1>7. ASSUME NEW w \in Worker, DockerStart(w)
      PROVE  (ContainersAreHeld /\ ContainersAreRemoved)'
  <2>1. Containers' = Containers
    BY <1>0, <1>7
    DEF DockerStart, InRun, Becomes, Containers, ExecutorKinds, JobsTypeOK, objectVars
  <2> QED
    BY <1>0, <1>7, <2>1
    DEF DockerStart, Becomes, At, ContainersAreHeld, ContainersAreRemoved, JobsTypeOK, Alive,
        objectVars, vars
<1>8. ASSUME NEW w \in Worker, DockerRemove(w)
      PROVE  (ContainersAreHeld /\ ContainersAreRemoved)'
  <2>1. /\ UNCHANGED <<pc, main, obj, via>>
        /\ misled \subseteq misled'
        /\ Containers' \subseteq Containers
        /\ Containers \subseteq Object
    BY <1>0, <1>8 DEF DockerRemove, Vanishes, Mishap, Containers, objectVars, JobsTypeOK, vars
  <2>2. \A n \in Containers' : owner'[n] = owner[n]
    BY <1>0, <1>8, <2>1 DEF DockerRemove, Vanishes, Containers, objectVars, JobsTypeOK
  <2>3. obj[w] \in Containers' => owner[obj[w]] \in misled'
    BY <1>0, <1>8
    DEF DockerRemove, InRun, Vanishes, Mishap, Containers, ExecutorKinds, ObjectKinds,
        objectVars, JobsTypeOK
  <2>4. \A v \in Worker \ {w} : step'[v] = step[v]
    BY <1>0, <1>8 DEF DockerRemove, At, JobsTypeOK
  <2> QED
    BY <1>0, <2>1, <2>2, <2>3, <2>4 DEF ContainersAreHeld, ContainersAreRemoved, Alive
<1>9. ASSUME NEW o \in Object, ObjectEnds(o) \/ JobExpires(o)
      PROVE  (ContainersAreHeld /\ ContainersAreRemoved)'
  <2>1. Containers' = Containers /\ \A n \in Containers : owner'[n] = owner[n]
    BY <1>0, <1>9 DEF ObjectEnds, JobExpires, Becomes, Vanishes, Containers, JobsTypeOK
  <2>2. UNCHANGED <<pc, main, execVars, misled>>
    BY <1>9 DEF ObjectEnds, JobExpires, vars
  <2> QED
    BY <1>0, <2>1, <2>2 DEF ContainersAreHeld, ContainersAreRemoved, Alive, execVars
<1>10. CASE Restart
  <2>1. Containers' = Containers /\ Containers \subseteq {o \in Object : owner[o] \in Repo}
    BY <1>0, <1>10 DEF Restart, Containers, ObjectKinds, objectVars
  <2> QED
    BY <1>10, <2>1, ObjectAssumption
    DEF Restart, ContainersAreHeld, ContainersAreRemoved, objectVars
<1>11. ASSUME NEW f \in found, NEW w \in Worker, AdoptJob(f, w)
       PROVE  (ContainersAreHeld /\ ContainersAreRemoved)'
  <2>1. Containers' = Containers /\ UNCHANGED <<owner, misled, main>>
    BY <1>11 DEF AdoptJob, Containers, objectVars
  <2>2. pc[w] # "exec" /\ via'[w] \notin Docker /\ main = "startup"
    BY <1>0, <1>11, ExecutorAssumption DEF AdoptJob, JobsTypeOK
  <2>3. /\ \A v \in Worker \ {w} :
             pc'[v] = pc[v] /\ via'[v] = via[v] /\ obj'[v] = obj[v] /\ step'[v] = step[v]
        /\ step'[w] = "wait"
    BY <1>0, <1>11 DEF AdoptJob, At, JobsTypeOK, TypeOK, Proc
  <2> QED
    BY <1>0, <2>1, <2>2, <2>3 DEF ContainersAreHeld, ContainersAreRemoved, JobsPhases, Alive
<1> QED
  BY <1>1, <1>2, <1>3, <1>4, <1>5, <1>6, <1>7, <1>8, <1>9, <1>10, <1>11, JobsSteps
  DEF OutsideStep

(***************************************************************************)
(* The first process, before it has found anything, is in order.           *)
(***************************************************************************)
LEMMA JobsInitInv == JobsInit => JobsInv
<1> SUFFICES ASSUME JobsInit PROVE JobsInv
  OBVIOUS
<1>1. TypeOK /\ GoroutineKinds /\ SlotsBounded
  BY InitIndInv DEF JobsInit, IndInv
<1>2. JobsTypeOK
  BY <1>1 DEF JobsInit, JobsTypeOK, Step
<1>3. ExecutorKinds /\ ObjectKinds /\ JobsPhases
  BY ObjectAssumption, ExecutorAssumption
  DEF JobsInit, Init, StoreInit, ExecutorKinds, ObjectKinds, JobsPhases, Proc, Executor
<1>4. ContainersAreHeld /\ ContainersAreRemoved
  BY ObjectAssumption DEF JobsInit, ContainersAreHeld, ContainersAreRemoved, Containers
<1> QED
  BY <1>1, <1>2, <1>3, <1>4 DEF JobsInv

(***************************************************************************)
(* Over any sequence of runs, failing calls, shutdowns, crashes and        *)
(* adoptions the executors' bookkeeping holds.                             *)
(***************************************************************************)
THEOREM JobsInvariance == JobsSpec => []JobsInv
<1>1. JobsInv /\ [JobsNext]_allVars => JobsInv'
  BY JobsDispatcherStep, JobsTypeStep, PhaseStep, ExecutorStep, ObjectStep, ContainerStep
  DEF JobsInv, RepoInv
<1> QED
  BY JobsInitInv, <1>1, PTL DEF JobsSpec

(***************************************************************************)
(* Every variable of the server, its Jobs and its containers keeps its     *)
(* type, over crashes and restarts too.                                    *)
(***************************************************************************)
THEOREM JobsTypeCorrect == JobsSpec => []JobsTypeOK
<1>1. JobsInv => JobsTypeOK
  BY DEF JobsInv
<1> QED
  BY JobsInvariance, <1>1, PTL

(***************************************************************************)
(* "the container is force-removed afterwards even on cancellation"        *)
(* (docker.go:74-75): no run returns and leaves its container behind,      *)
(* unless the removal itself or the answer to the create failed.           *)
(***************************************************************************)
THEOREM ContainersNeverLeak == JobsSpec => []ContainersAreRemoved
<1>1. JobsInv => ContainersAreRemoved
  BY DEF JobsInv
<1> QED
  BY JobsInvariance, <1>1, PTL

------------------------------------------------------------------------------
(***************************************************************************)
(* A step of the dispatcher keeps the lock of every repository, whatever   *)
(* has become of the locks of the others.                                  *)
(***************************************************************************)
LEMMA LockIsLocal ==
    ASSUME RepoInv, NEW r \in Repo, LockOf(r),
           PlainStep \/ Serve \/ \E w \in Worker : RunStart(w) \/ RunReturns(w)
    PROVE  LockOf(r)'
<1> USE DEF RepoInv
<1>1. ASSUME state'[r] = state[r],
             \A p \in Proc :
                 /\ Holds(p, r)' <=> Holds(p, r)
                 /\ Holds(p, r) =>
                      (pc'[p] \in {"exec", "finish"} <=> pc[p] \in {"exec", "finish"})
      PROVE  LockOf(r)'
  BY <1>1 DEF LockOf
<1>2. ASSUME NEW h \in Handler, NEW s \in Repo, HandlerEvent(h, s) PROVE LockOf(r)'
  BY <1>1, <1>2 DEF HandlerEvent, storeVars, Holds, HoldsPC, TypeOK, Proc, Caller
<1>3. ASSUME NEW p \in Proc, EnqueueRoute(p) PROVE LockOf(r)'
  BY <1>1, <1>3, AfterEnqueueKind
  DEF EnqueueRoute, Goto, Leave, storeVars, Holds, HoldsPC, TypeOK
<1>4. ASSUME NEW p \in Proc, EnqueueQueue(p) PROVE LockOf(r)'
  <2>0. repo[p] \in Repo /\ pc[p] = "queue"
    BY <1>4 DEF EnqueueQueue, GoroutineKinds
  <2>1. CASE state[repo[p]] = "absent"
    <3>1. /\ state' = [state EXCEPT ![repo[p]] = "queued"]
          /\ pc' = [pc EXCEPT ![p] = "spawn"]
          /\ repo' = repo
      BY <1>4, <2>1 DEF EnqueueQueue, Queue, QueueResult, Goto
    <3>2. CASE r = repo[p]
      BY <2>0, <2>1, <3>1, <3>2 DEF LockOf, Holds, HoldsPC, TypeOK, StoreTypeOK
    <3>3. CASE r # repo[p]
      BY <1>1, <2>0, <2>1, <3>1, <3>3 DEF Holds, HoldsPC, TypeOK, StoreTypeOK
    <3> QED
      BY <3>2, <3>3
  <2>2. CASE state[repo[p]] # "absent"
    <3>1. /\ state' = state
          /\ pc' = [pc EXCEPT ![p] = AfterEnqueue(p)]
          /\ repo' = [repo EXCEPT ![p] = NoRepo]
      BY <1>4, <2>2 DEF EnqueueQueue, Queue, QueueResult, Leave
    <3> QED
      BY <1>1, <2>0, <3>1, AfterEnqueueKind DEF Holds, HoldsPC, TypeOK
  <2> QED
    BY <2>1, <2>2
<1>5. ASSUME NEW p \in Proc, NEW w \in Worker, EnqueueSpawn(p, w) PROVE LockOf(r)'
  <2>0. p # w /\ w \in Proc /\ state' = state
    BY <1>5 DEF EnqueueSpawn, storeVars, Proc
  <2>1. \A q \in Proc : Holds(q, r)' <=> (Holds(q, r) /\ q # p) \/ (q = w /\ Holds(p, r))
    BY <1>5, <2>0, AfterEnqueueKind DEF EnqueueSpawn, Holds, HoldsPC, TypeOK
  <2>2. /\ \A q \in Proc \ {p, w} : pc'[q] = pc[q]
        /\ pc'[w] = "debounce" /\ pc[p] = "spawn"
        /\ ~Holds(w, r)
    BY <1>5, <2>0 DEF EnqueueSpawn, Holds, HoldsPC, TypeOK
  <2> QED
    BY <2>0, <2>1, <2>2 DEF LockOf
<1>6. ASSUME NEW w \in Worker,
             \/ RunDebounced(w) \/ RunAcquire(w) \/ RunCancelled(w) \/ RunReturns(w) \/ RunEnd(w)
      PROVE  LockOf(r)'
  BY <1>1, <1>6
  DEF RunDebounced, RunAcquire, RunCancelled, RunReturns, RunEnd, Goto, Leave, storeVars,
      Holds, HoldsPC, TypeOK, Proc
<1>7. ASSUME NEW w \in Worker, RunAbandon(w) \/ RunFinish(w) PROVE LockOf(r)'
  <2>0. w \in Proc /\ repo[w] \in Repo /\ pc[w] \in {"abandon", "finish"}
    BY <1>7 DEF RunAbandon, RunFinish, GoroutineKinds, Proc, HoldsPC
  <2>1. /\ state' = [state EXCEPT ![repo[w]] = "absent"]
        /\ pc'[w] \in {"free", "route", "return"}
        /\ \A q \in Proc \ {w} : pc'[q] = pc[q] /\ repo'[q] = repo[q]
    BY <1>7, <2>0 DEF RunAbandon, RunFinish, FinishRun, Goto, Leave, TypeOK
  <2>2. CASE r = repo[w]
    BY <2>0, <2>1, <2>2 DEF LockOf, Holds, HoldsPC, TypeOK, StoreTypeOK
  <2>3. CASE r # repo[w]
    BY <1>1, <2>0, <2>1, <2>3 DEF Holds, HoldsPC, TypeOK, StoreTypeOK
  <2> QED
    BY <2>2, <2>3
<1>8. ASSUME NEW w \in Worker, RunStart(w) PROVE LockOf(r)'
  <2>0. w \in Proc /\ repo[w] \in Repo /\ pc[w] = "start" /\ pc' = [pc EXCEPT ![w] = "exec"]
        /\ repo' = repo
    BY <1>8 DEF RunStart, Goto, GoroutineKinds, Proc, HoldsPC
  <2>1. CASE r = repo[w]
    BY <1>8, <2>0, <2>1 DEF RunStart, StartRun, LockOf, Holds, HoldsPC, TypeOK, StoreTypeOK
  <2>2. CASE r # repo[w]
    <3>1. state'[r] = state[r]
      BY <1>8, <2>0, <2>2 DEF RunStart, StartRun, TypeOK, StoreTypeOK
    <3> QED
      BY <1>1, <2>0, <2>2, <3>1 DEF Holds, HoldsPC, TypeOK
  <2> QED
    BY <2>1, <2>2
<1>9. CASE Serve \/ UNCHANGED vars
  BY <1>1, <1>9 DEF Serve, vars, storeVars, Holds
<1> QED
  BY <1>2, <1>3, <1>4, <1>5, <1>6, <1>7, <1>8, <1>9 DEF PlainStep

\* Goroutine w answers for object o.
WaitsFor(w, o) == obj[w] = o /\ step[w] \in {"start", "wait", "remove"}

(***************************************************************************)
(* A step that adds no object of r, reports and lists none, and lets no    *)
(* goroutine walk away from one that is left, keeps r in order.            *)
(***************************************************************************)
LEMMA OrderFrame ==
    ASSUME NEW r \in Repo, InOrder(r), JobsPhases', LockOf(r)',
           UNCHANGED <<unlisted, found>>,
           Pending(r)' \subseteq Pending(r),
           \A o \in Pending(r)' : place'[o] = place[o],
           main' = "startup" => state'[r] \in {state[r], "absent"},
           main' # "stopped" =>
               /\ main # "stopped"
               /\ \A w \in Worker, o \in Pending(r)' : WaitsFor(w, o) => WaitsFor(w, o)'
    PROVE  InOrder(r)'
<1>1. \A o \in Pending(r)' : ToBeListed(o)' <=> ToBeListed(o)
  BY DEF ToBeListed
<1>2. AdoptedOnce(r)'
  <2>1. CASE main' = "startup"
    BY <1>1, <2>1 DEF InOrder, AdoptedOnce
  <2>2. CASE main' # "startup"
    BY <2>2 DEF JobsPhases, AdoptedOnce, ToBeListed
  <2> QED
    BY <2>1, <2>2
<1>3. Accounted(r)'
  BY <1>1 DEF InOrder, Accounted, WaitsFor
<1> QED
  BY <1>2, <1>3 DEF InOrder

(***************************************************************************)
(* Two executors do not share a namespace.  (validate does not ask for it; *)
(* Jobs_namespace.cfg shows what happens otherwise.)                       *)
(***************************************************************************)
OwnNamespaces == \A e, k \in Kube : Namespace[e] = Namespace[k] => e = k

(***************************************************************************)
(* A goroutine that creates a Job or container has its repository to       *)
(* itself: nothing of the repository runs or can come to run.              *)
(***************************************************************************)
LEMMA CreateAlone ==
    ASSUME JobsInv, NEW w \in Worker, NEW e \in Executor, NEW o \in Object, Create(w, e, o),
           InOrder(repo[w])
    PROVE  Pending(repo[w]) = {}
<1>0. /\ pc[w] = "exec" /\ step[w] = "create" /\ main # "stopped"
      /\ ExecutorKinds /\ ObjectKinds /\ JobsPhases
  BY DEF Create, InRun, Cancelled, JobsInv
<1>1. unlisted = {} /\ found = {}
  BY <1>0 DEF JobsPhases
<1> SUFFICES ASSUME NEW n \in Pending(repo[w]) PROVE FALSE
  OBVIOUS
<1>2. PICK v \in Worker : obj[v] = n /\ step[v] \in {"start", "wait", "remove"}
  BY <1>0, <1>1 DEF InOrder, Accounted, ToBeListed
<1>3. pc[v] = "exec" /\ repo[v] = repo[w]
  BY <1>0, <1>2 DEF ExecutorKinds, ObjectKinds, Pending
<1>4. v = w
  BY <1>0, <1>3 DEF InOrder, LockOf, Holds, HoldsPC, Proc
<1> QED
  BY <1>0, <1>2, <1>4

(***************************************************************************)
(* A step of an executor or of the world outside keeps a repository in     *)
(* order, or misleads it.                                                  *)
(***************************************************************************)
LEMMA OutsideOrder ==
    ASSUME OwnNamespaces, JobsInv, JobsInv', NEW r \in Repo \ misled', r \notin misled,
           InOrder(r), OutsideStep
    PROVE  InOrder(r)'
<1>0. /\ JobsTypeOK /\ ExecutorKinds /\ ObjectKinds /\ JobsPhases /\ JobsPhases'
      /\ UNCHANGED vars
  BY DEF JobsInv, OutsideStep, RunsNothing, DockerStart, KubeWait, DockerWait, DockerRemove,
         Create, ObjectEnds, JobExpires, KubeList
<1>1. LockOf(r)'
  BY <1>0 DEF InOrder, LockOf, Holds, vars
<1>2. ASSUME NEW w \in Worker, RunsNothing(w) \/ KubeWait(w) \/ DockerWait(w)
      PROVE  InOrder(r)'
  <2>1. Pending(r)' = Pending(r) /\ UNCHANGED <<obj, place, adoptVars>>
    BY <1>2 DEF RunsNothing, KubeWait, DockerWait, Pending, objectVars
  <2>2. \A v \in Worker \ {w} : step'[v] = step[v]
    BY <1>0, <1>2 DEF RunsNothing, KubeWait, DockerWait, At, JobsTypeOK
  <2>3. CASE RunsNothing(w) \/ DockerWait(w)
    BY <1>0, <1>1, <2>1, <2>2, <2>3, OrderFrame
    DEF RunsNothing, DockerWait, InRun, At, WaitsFor, JobsTypeOK, vars, adoptVars
  <2>4. CASE KubeWait(w)
    <3>1. main # "stopped" => obj[w] \notin Pending(r)
      BY <1>0, <2>4, PlaceAssumption
      DEF KubeWait, InRun, Cancelled, Mishap, Pending, ExecutorKinds, ObjectKinds
    <3> QED
      BY <1>0, <1>1, <2>1, <2>2, <3>1, OrderFrame DEF WaitsFor, vars, adoptVars
  <2> QED
    BY <1>2, <2>3, <2>4
<1>3. ASSUME NEW w \in Worker, DockerStart(w) PROVE InOrder(r)'
  <2>1. Pending(r)' = Pending(r) /\ UNCHANGED <<obj, place, adoptVars>>
    BY <1>0, <1>3
    DEF DockerStart, InRun, Becomes, Pending, ExecutorKinds, JobsTypeOK, objectVars
  <2>2. \A v \in Worker : step'[v] = step[v] \/ step'[v] \in {"wait", "remove"}
    BY <1>0, <1>3 DEF DockerStart, At, JobsTypeOK
  <2> QED
    BY <1>0, <1>1, <2>1, <2>2, OrderFrame DEF WaitsFor, vars, adoptVars
<1>4. ASSUME NEW w \in Worker, DockerRemove(w) PROVE InOrder(r)'
  <2>1. /\ UNCHANGED <<obj, adoptVars>>
        /\ Pending(r)' \subseteq Pending(r)
        /\ \A o \in Pending(r)' : place'[o] = place[o]
        /\ \A v \in Worker \ {w} : step'[v] = step[v]
    BY <1>0, <1>4, RepoAssumption
    DEF DockerRemove, Vanishes, At, Pending, JobsTypeOK, objectVars
  <2>2. obj[w] \notin Pending(r)'
    BY <1>0, <1>4
    DEF DockerRemove, InRun, Vanishes, Mishap, Pending, ExecutorKinds, ObjectKinds, JobsTypeOK,
        objectVars
  <2> QED
    BY <1>0, <1>1, <2>1, <2>2, OrderFrame DEF WaitsFor, vars, adoptVars
<1>5. ASSUME NEW w \in Worker, NEW e \in Executor, NEW o \in Object, Create(w, e, o)
      PROVE  InOrder(r)'
  <2>1. /\ UNCHANGED adoptVars
        /\ step[w] = "create"
        /\ \A v \in Worker \ {w} : step'[v] = step[v] /\ obj'[v] = obj[v]
        /\ \A n \in Object \ {o} :
             status'[n] = status[n] /\ owner'[n] = owner[n] /\ place'[n] = place[n]
        /\ owner'[o] = repo[w]
        /\ main' # "startup" /\ main' = main
    BY <1>0, <1>5 DEF Create, InRun, Appears, At, JobsPhases, JobsTypeOK, vars
  <2>2. CASE r # repo[w]
    <3>1. Pending(r)' \subseteq Pending(r) /\ o \notin Pending(r)'
      BY <2>1, <2>2 DEF Pending
    <3> QED
      BY <1>0, <1>1, <2>1, <3>1, OrderFrame DEF WaitsFor, Pending, adoptVars
  <2>3. CASE r = repo[w]
    <3>1. Pending(r)' \subseteq {o}
      BY <1>5, <2>1, <2>3, CreateAlone DEF Pending
    <3>2. obj'[w] = o /\ step'[w] \in {"start", "wait"}
      BY <1>0, <1>5, <2>3 DEF Create, At, Mishap, JobsTypeOK
    <3>3. AdoptedOnce(r)'
      BY <1>0, <2>1 DEF AdoptedOnce, ToBeListed, JobsPhases
    <3>4. Accounted(r)'
      BY <3>1, <3>2 DEF Accounted
    <3> QED
      BY <1>1, <3>1, <3>3, <3>4 DEF InOrder
  <2> QED
    BY <2>2, <2>3
<1>6. ASSUME NEW o \in Object, ObjectEnds(o) \/ JobExpires(o) PROVE InOrder(r)'
  <2>1. /\ UNCHANGED <<execVars, adoptVars>>
        /\ Pending(r)' \subseteq Pending(r)
        /\ \A n \in Pending(r)' : place'[n] = place[n]
    BY <1>0, <1>6
    DEF ObjectEnds, JobExpires, Becomes, Vanishes, Pending, JobsTypeOK
  <2> QED
    BY <1>0, <1>1, <2>1, OrderFrame DEF WaitsFor, execVars, adoptVars, vars
<1>7. ASSUME NEW e \in Kube, KubeList(e) PROVE InOrder(r)'
  <2>1. /\ Pending(r)' = Pending(r) /\ UNCHANGED <<obj, step, place, state, main>>
        /\ found = {} /\ e \in unlisted /\ unlisted' = unlisted \ {e}
    BY <1>0, <1>7 DEF KubeList, Pending, objectVars, execVars, vars
  <2>2. \A n \in Pending(r) : place[n] = Namespace[e] => n \in Live
    BY <1>0, <1>7, PlaceAssumption DEF Pending, Live, ObjectKinds
  <2>3. CASE /\ found' = {}
             /\ misled' = misled \union {owner[o] : o \in {n \in Live : place[n] = Namespace[e]}}
    <3>1. \A n \in Pending(r) : place[n] # Namespace[e]
      BY <2>2, <2>3 DEF Pending
    <3>2. \A n \in Pending(r) : ToBeListed(n)' <=> ToBeListed(n)
      BY <2>1, <3>1 DEF ToBeListed
    <3> QED
      BY <1>1, <2>1, <2>3, <3>2 DEF InOrder, AdoptedOnce, Accounted
  <2>4. CASE found' = {<<e, o, owner[o]>> : o \in {n \in Live : place[n] = Namespace[e]}}
    <3>1. \A f \in found' :
            f[3] = r => f[2] \in Pending(r) /\ place[f[2]] = Namespace[e] /\ f = <<e, f[2], r>>
      BY <2>4 DEF Pending, Live
    <3>2. \A n \in Pending(r) : place[n] = Namespace[e] => <<e, n, r>> \in found'
      BY <2>2, <2>4 DEF Pending
    <3>3. \A n \in Pending(r) : place[n] = Namespace[e] => ToBeListed(n)
      BY <2>1 DEF ToBeListed
    <3>4. \A n \in Pending(r) : ToBeListed(n)' => ToBeListed(n) /\ place[n] # Namespace[e]
      BY <2>1 DEF ToBeListed, OwnNamespaces, JobsInv, JobsTypeOK
    <3>5. \A n \in Pending(r) : ToBeListed(n) => ToBeListed(n)' \/ place[n] = Namespace[e]
      BY <2>1 DEF ToBeListed
    <3>6. \A n, m \in Pending(r) : n = m
      BY DEF InOrder
    <3>7. AdoptedOnce(r)'
      <4>1. \A f, g \in found' : f[3] = r /\ g[3] = r => f = g
        BY <3>1, <3>6
      <4>2. \A f \in found' : f[3] = r => state'[r] = "absent"
        BY <2>1, <3>1, <3>3 DEF InOrder, AdoptedOnce
      <4>3. \A n \in Pending(r) :
              ToBeListed(n)' => state'[r] = "absent" /\ \A f \in found' : f[3] # r
        BY <2>1, <3>1, <3>4, <3>6 DEF InOrder, AdoptedOnce
      <4> QED
        BY <2>1, <4>1, <4>2, <4>3 DEF AdoptedOnce
    <3>8. Accounted(r)'
      <4> SUFFICES ASSUME main # "stopped", NEW n \in Pending(r)
                   PROVE  \/ ToBeListed(n)'
                          \/ \E f \in found' : f[2] = n
                          \/ \E w \in Worker : obj[w] = n /\ step[w] \in {"start", "wait", "remove"}
        BY <2>1 DEF Accounted
      <4>1. CASE place[n] = Namespace[e]
        <5>1. <<e, n, r>> \in found' /\ <<e, n, r>>[2] = n
          BY <3>2, <4>1
        <5> QED
          BY <5>1
      <4>2. CASE place[n] # Namespace[e]
        BY <2>1, <3>5, <4>2 DEF InOrder, Accounted
      <4> QED
        BY <4>1, <4>2
    <3> QED
      BY <1>1, <2>1, <3>6, <3>7, <3>8 DEF InOrder
  <2> QED
    BY <1>7, <2>3, <2>4 DEF KubeList, Mishap
<1> QED
  BY <1>2, <1>3, <1>4, <1>5, <1>6, <1>7 DEF OutsideStep

(***************************************************************************)
(* A restart finds a repository in order, or counts it as misled: what it  *)
(* has left behind is at most one active Job, which will be listed.        *)
(***************************************************************************)
LEMMA RestartOrder ==
    ASSUME JobsInv, NEW r \in Repo \ misled', Restart
    PROVE  InOrder(r)'
<1>0. JobsTypeOK /\ ObjectKinds /\ UNCHANGED objectVars
  BY DEF JobsInv, Restart
<1>1. LockOf(r)'
  BY DEF Restart, LockOf, Holds, HoldsPC, Proc
<1>2. Pending(r)' \subseteq LiveOf(r) /\ \A o \in Pending(r)' : place[o] # Daemon
  BY <1>0 DEF Restart, Pending, LiveOf, Live, Containers, ObjectKinds, objectVars
<1>3. \A o, n \in Pending(r)' : o = n
  <2>1. IsFiniteSet(LiveOf(r))
    BY ObjectAssumption, FS_Subset DEF LiveOf, Live
  <2>2. Cardinality(LiveOf(r)) \in Nat /\ ~(Cardinality(LiveOf(r)) > 1)
    BY <2>1, FS_CardinalityType DEF Restart
  <2> SUFFICES ASSUME NEW o \in LiveOf(r), NEW n \in LiveOf(r), o # n PROVE FALSE
    BY <1>2
  <2>3. IsFiniteSet({o, n}) /\ Cardinality({o, n}) = 2
    <3>1. IsFiniteSet({o}) /\ Cardinality({o}) = 1
      BY FS_Singleton
    <3>2. IsFiniteSet({o} \union {n}) /\ Cardinality({o} \union {n}) = Cardinality({o}) + 1
      BY <3>1, FS_AddElement
    <3>3. {o} \union {n} = {o, n}
      OBVIOUS
    <3> QED
      BY <3>1, <3>2, <3>3
  <2>4. Cardinality({o, n}) <= Cardinality(LiveOf(r))
    BY <2>1, FS_Subset
  <2> QED
    BY <2>2, <2>3, <2>4
<1>4. AdoptedOnce(r)'
  BY DEF Restart, AdoptedOnce
<1>5. Accounted(r)'
  <2>1. \A o \in Pending(r)' : \E e \in Kube : place[o] = Namespace[e]
    BY <1>0, <1>2 DEF ObjectKinds, LiveOf, Live
  <2> QED
    BY <1>0, <2>1 DEF Restart, Accounted, ToBeListed, objectVars
<1> QED
  BY <1>1, <1>3, <1>4, <1>5 DEF InOrder

(***************************************************************************)
(* Dispatcher.Adopt locks the repository of a Job that was reported once,  *)
(* for the goroutine that waits for it (dispatcher.go:116-127).            *)
(***************************************************************************)
LEMMA AdoptOrder ==
    ASSUME JobsInv, NEW r \in Repo \ misled, InOrder(r), NEW f \in found, NEW w \in Worker,
           AdoptJob(f, w)
    PROVE  InOrder(r)'
<1>0. /\ TypeOK /\ JobsTypeOK /\ ExecutorKinds
      /\ f[3] \in Repo /\ w \in Proc /\ pc[w] = "free" /\ step[w] = "none"
      /\ UNCHANGED <<unlisted, main, objectVars>> /\ found' = found \ {f}
  BY DEF AdoptJob, JobsInv, JobsTypeOK, ExecutorKinds, Proc
<1>1. /\ \A p \in Proc \ {w} : pc'[p] = pc[p] /\ repo'[p] = repo[p]
      /\ pc'[w] = "exec" /\ repo'[w] = f[3]
      /\ \A v \in Worker \ {w} : obj'[v] = obj[v] /\ step'[v] = step[v]
      /\ obj'[w] = f[2] /\ step'[w] = "wait"
  BY <1>0 DEF AdoptJob, At, JobsTypeOK, TypeOK
<1>2. Pending(r)' = Pending(r) /\ \A o \in Pending(r) : ToBeListed(o)' <=> ToBeListed(o)
  BY <1>0 DEF Pending, ToBeListed, objectVars
<1>3. Accounted(r)'
  BY <1>0, <1>1, <1>2 DEF InOrder, Accounted
<1>4. CASE f[3] = r
  <2>1. state[r] = "absent" /\ state'[r] = "running"
    BY <1>0, <1>4 DEF InOrder, AdoptedOnce, AdoptJob, Adopt, TypeOK, StoreTypeOK
  <2>2. LockOf(r)'
    BY <1>0, <1>1, <1>4, <2>1 DEF InOrder, LockOf, Holds, HoldsPC
  <2>3. AdoptedOnce(r)'
    BY <1>0, <1>2, <1>4 DEF InOrder, AdoptedOnce
  <2> QED
    BY <1>2, <1>3, <2>2, <2>3 DEF InOrder
<1>5. CASE f[3] # r
  <2>1. state'[r] = state[r]
    BY <1>0, <1>5 DEF AdoptJob, Adopt, TypeOK, StoreTypeOK
  <2>2. LockOf(r)'
    BY <1>0, <1>1, <1>5, <2>1 DEF InOrder, LockOf, Holds, HoldsPC
  <2>3. AdoptedOnce(r)'
    BY <1>0, <1>2, <2>1 DEF InOrder, AdoptedOnce
  <2> QED
    BY <1>2, <1>3, <2>2, <2>3 DEF InOrder
<1> QED
  BY <1>4, <1>5

(***************************************************************************)
(* The dispatcher's own steps keep a repository in order: the lock is      *)
(* local, and while main adopts the store only ever lets go.               *)
(***************************************************************************)
LEMMA OwnOrder ==
    ASSUME JobsInv, JobsInv', NEW r \in Repo, InOrder(r),
           \/ PlainStep /\ UNCHANGED jobVars
           \/ Serve /\ UNCHANGED jobVars
           \/ \E w \in Worker : JobsStart(w) \/ ExecReturns(w)
           \/ ShutdownPastDeadline
    PROVE  InOrder(r)'
<1>0. /\ RepoInv /\ JobsTypeOK /\ JobsPhases /\ JobsPhases' /\ ExecutorKinds
  BY DEF JobsInv, JobsTypeOK, RepoInv
<1>1. LockOf(r)'
  <2>1. CASE ShutdownPastDeadline
    BY <2>1 DEF ShutdownPastDeadline, InOrder, LockOf, Holds, storeVars
  <2>2. CASE \E w \in Worker : JobsStart(w) \/ ExecReturns(w)
    BY <1>0, <2>2, LockIsLocal DEF JobsStart, ExecReturns, InOrder
  <2> QED
    BY <1>0, <2>1, <2>2, LockIsLocal DEF InOrder
<1>2. UNCHANGED <<objectVars, adoptVars>>
  BY DEF JobsStart, ExecReturns, ShutdownPastDeadline, jobVars
<1>3. \A w \in Worker : step[w] \in {"start", "wait", "remove"} =>
                          obj'[w] = obj[w] /\ step'[w] = step[w]
  <2>1. ASSUME NEW w \in Worker, JobsStart(w)
        PROVE  /\ UNCHANGED obj /\ step[w] = "none"
               /\ \A v \in Worker \ {w} : step'[v] = step[v]
    BY <1>0, <2>1 DEF JobsStart, RunStart, At, ExecutorKinds, JobsTypeOK
  <2>2. ASSUME NEW w \in Worker, ExecReturns(w)
        PROVE  /\ step[w] = "done"
               /\ \A v \in Worker \ {w} : step'[v] = step[v] /\ obj'[v] = obj[v]
    BY <1>0, <2>2 DEF ExecReturns, InRun, At, JobsTypeOK
  <2>3. CASE UNCHANGED jobVars
    BY <2>3 DEF jobVars, execVars
  <2> QED
    BY <2>1, <2>2, <2>3 DEF ShutdownPastDeadline
<1>4. main' # "stopped" => main # "stopped"
  BY PlainFrame
  DEF Serve, JobsStart, RunStart, ExecReturns, RunReturns, ShutdownPastDeadline
<1>5. main' = "startup" => state'[r] \in {state[r], "absent"}
  <2> SUFFICES ASSUME main' = "startup" PROVE state'[r] \in {state[r], "absent"}
    OBVIOUS
  <2>1. CASE PlainStep
    <3>0. main = "startup"
      BY <2>1, PlainFrame
    <3>1. ASSUME NEW w \in Worker, RunFinish(w) PROVE state'[r] \in {state[r], "absent"}
      BY <1>0, <3>1 DEF RunFinish, FinishRun, RepoInv, TypeOK, StoreTypeOK
    <3>2. ASSUME NEW w \in Worker, RunEnd(w) PROVE state' = state
      BY <3>2 DEF RunEnd, storeVars
    <3> QED
      BY <1>0, <2>1, <3>0, <3>1, <3>2
      DEF PlainStep, HandlerEvent, EnqueueRoute, EnqueueQueue, EnqueueSpawn, RunDebounced,
          RunAcquire, RunCancelled, RunAbandon, JobsPhases, Proc, vars
  <2>2. CASE \E w \in Worker : JobsStart(w) \/ ExecReturns(w)
    BY <1>0, <2>2 DEF JobsStart, RunStart, ExecReturns, RunReturns, JobsPhases, storeVars, Proc
  <2>3. CASE Serve \/ ShutdownPastDeadline
    BY <2>3 DEF Serve, ShutdownPastDeadline
  <2> QED
    BY <2>1, <2>2, <2>3
<1>6. Pending(r)' = Pending(r)
  BY <1>2 DEF Pending, objectVars
<1> QED
  BY <1>0, <1>1, <1>2, <1>3, <1>4, <1>5, <1>6, OrderFrame DEF WaitsFor, objectVars, adoptVars

(***************************************************************************)
(* With a namespace of its own for every executor, all repositories are in *)
(* order that no mishap has hit since the last restart: whatever crashes,  *)
(* adoptions, cancelled shutdowns and changes of executor come between.    *)
(***************************************************************************)
THEOREM OrderInvariance ==
    ASSUME OwnNamespaces
    PROVE  JobsSpec => []ReposInOrder
<1>1. JobsInit => ReposInOrder
  BY DEF JobsInit, Init, StoreInit, ReposInOrder, InOrder, LockOf, Holds, HoldsPC, Pending,
         AdoptedOnce, Accounted, Proc
<1>2. JobsInv /\ JobsInv' /\ ReposInOrder /\ [JobsNext]_allVars => ReposInOrder'
  <2> SUFFICES ASSUME JobsInv, JobsInv', ReposInOrder, [JobsNext]_allVars,
                      NEW r \in Repo \ misled'
               PROVE  InOrder(r)'
    BY DEF ReposInOrder
  <2>1. CASE Restart
    BY <2>1, RestartOrder
  <2>2. CASE ~Restart
    <3>1. misled \subseteq misled'
      BY <2>2, JobsSteps
      DEF OutsideStep, RunsNothing, DockerStart, KubeWait, DockerWait, DockerRemove, Create,
          ObjectEnds, JobExpires, KubeList, Mishap, JobsStart, ExecReturns,
          ShutdownPastDeadline, AdoptJob, jobVars
    <3>2. r \notin misled /\ InOrder(r)
      BY <3>1 DEF ReposInOrder
    <3> QED
      BY <2>2, <3>1, <3>2, JobsSteps, OwnOrder, OutsideOrder, AdoptOrder
  <2> QED
    BY <2>1, <2>2
<1> QED
  BY JobsInvariance, <1>1, <1>2, PTL DEF JobsSpec

(***************************************************************************)
(* "guarantees a repository never has more than one run in flight"         *)
(* (README.md:6), told of Jobs and containers: two of one repository run   *)
(* at a time only after a mishap, and until a restart finds it in order.   *)
(***************************************************************************)
THEOREM AtMostOneLiveRun ==
    ASSUME OwnNamespaces
    PROVE  JobsSpec => []OneLiveRun
<1>1. ReposInOrder => OneLiveRun
  <2> SUFFICES ASSUME ReposInOrder, NEW r \in Repo \ misled
               PROVE  Cardinality(LiveOf(r)) <= 1
    BY DEF OneLiveRun
  <2>1. \A o, n \in LiveOf(r) : o = n
    BY DEF ReposInOrder, InOrder, Pending, LiveOf, Live
  <2>2. LiveOf(r) = {} \/ \E o \in LiveOf(r) : LiveOf(r) = {o}
    BY <2>1
  <2>3. CASE LiveOf(r) = {}
    BY <2>3, FS_EmptySet
  <2>4. ASSUME NEW o, LiveOf(r) = {o} PROVE Cardinality(LiveOf(r)) <= 1
    <3>1. Cardinality({o}) = 1
      BY FS_Singleton
    <3> QED
      BY <2>4, <3>1
  <2> QED
    BY <2>2, <2>3, <2>4
<1> QED
  BY OrderInvariance, <1>1, PTL

(***************************************************************************)
(* "Running Kubernetes Jobs are re-adopted on startup" (README.md:191): a  *)
(* server that serves has every live Job and container under its lock.     *)
(***************************************************************************)
THEOREM LiveRunsAreLocked ==
    ASSUME OwnNamespaces
    PROVE  JobsSpec => []LiveRunIsLocked
<1>1. JobsInv /\ ReposInOrder => LiveRunIsLocked
  <2> SUFFICES ASSUME JobsInv, ReposInOrder, main = "serving",
                      NEW o \in Live, owner[o] \notin misled
               PROVE  state[owner[o]] = "running"
    BY DEF LiveRunIsLocked
  <2>0. o \in Object /\ status[o] = "active"
    BY DEF Live
  <2>1. owner[o] \in Repo /\ InOrder(owner[o])
    BY <2>0 DEF JobsInv, ObjectKinds, ReposInOrder
  <2>2. o \in Pending(owner[o]) /\ unlisted = {} /\ found = {}
    BY <2>0 DEF Pending, JobsInv, JobsPhases
  <2>3. PICK w \in Worker : obj[w] = o /\ step[w] \in {"start", "wait", "remove"}
    BY <2>1, <2>2 DEF InOrder, Accounted, ToBeListed
  <2>4. pc[w] = "exec" /\ repo[w] = owner[o]
    BY <2>0, <2>3 DEF JobsInv, ExecutorKinds, ObjectKinds
  <2> QED
    BY <2>1, <2>4 DEF InOrder, LockOf, Holds, HoldsPC, Proc
<1> QED
  BY JobsInvariance, OrderInvariance, <1>1, PTL
================================================================================
