--------------------------- MODULE DispatcherProofs ---------------------------
(***************************************************************************)
(* Proofs about Dispatcher, for every number of repositories, handlers,    *)
(* cron jobs and goroutines and every capacity of the semaphore.           *)
(***************************************************************************)
EXTENDS Dispatcher, FiniteSetTheorems, TLAPS

(***************************************************************************)
(* What a goroutine does after Enqueue (dispatcher.go:94-111) depends on   *)
(* its kind only, and leaves it with no claim on a store entry.            *)
(***************************************************************************)
LEMMA AfterEnqueueKind ==
    ASSUME NEW p \in Proc
    PROVE  /\ AfterEnqueue(p) \in PC
           /\ p \in Worker => AfterEnqueue(p) = "return"
           /\ p \in Caller => AfterEnqueue(p) \in {"free", "loop"}
           /\ AfterEnqueue(p) \in {"free", "loop", "return"}
  BY ProcAssumption DEF AfterEnqueue, PC, Proc, Caller

(***************************************************************************)
(* The four store operations (memory.go:31-73) keep the table well typed.  *)
(***************************************************************************)
LEMMA StoreTypes ==
    ASSUME StoreTypeOK, NEW r \in Repo,
           Queue(r) \/ StartRun(r) \/ FinishRun(r) \/ Adopt(r)
    PROVE  StoreTypeOK'
  BY DEF StoreTypeOK, State, Queue, StartRun, FinishRun, Adopt

(***************************************************************************)
(* A goroutine that holds a slot keeps the semaphore from being empty, so  *)
(* the deferred receive of run (dispatcher.go:143) never underflows it.    *)
(***************************************************************************)
LEMMA HeldSlot ==
    ASSUME TypeOK, SlotsBounded, NEW w \in SlotHolders
    PROVE  sem - 1 \in Nat
<1>1. IsFiniteSet(SlotHolders)
  BY WorkerAssumption, FS_Subset DEF SlotHolders
<1>2. Cardinality(SlotHolders) \in Nat /\ Cardinality(SlotHolders) # 0
  BY <1>1, FS_CardinalityType, FS_EmptySet
<1> QED
  BY <1>2 DEF SlotsBounded

(***************************************************************************)
(* Type correctness needs two more facts: a goroutine inside Enqueue or    *)
(* with a claim on an entry has a repository, and the semaphore counts the *)
(* goroutines that hold a slot.                                            *)
(***************************************************************************)
RepoInv == TypeOK /\ GoroutineKinds

LEMMA TypeStep == RepoInv /\ SlotsBounded /\ [Next]_vars => RepoInv'
<1> SUFFICES ASSUME RepoInv, SlotsBounded, [Next]_vars PROVE RepoInv'
  OBVIOUS
<1> USE DEF RepoInv
<1>1. ASSUME NEW h \in Handler, NEW r \in Repo, HandlerEvent(h, r) PROVE RepoInv'
  BY <1>1, ProcAssumption
  DEF TypeOK, StoreTypeOK, GoroutineKinds, HandlerEvent, storeVars, Proc, Caller, PC, HoldsPC
<1>2. ASSUME NEW j \in CronJob, CronFire(j) PROVE RepoInv'
  BY <1>2, ProcAssumption
  DEF TypeOK, StoreTypeOK, GoroutineKinds, CronFire, Goto, storeVars, Proc, Caller, PC, HoldsPC
<1>3. ASSUME NEW j \in CronJob, CronDiscover(j) PROVE RepoInv'
  BY <1>3, ProcAssumption
  DEF TypeOK, StoreTypeOK, GoroutineKinds, CronDiscover, Goto, storeVars, Proc, Caller, PC, HoldsPC
<1>4. ASSUME NEW j \in CronJob, CronLoop(j) PROVE RepoInv'
  BY <1>4, ProcAssumption
  DEF TypeOK, StoreTypeOK, GoroutineKinds, CronLoop, Leave, storeVars, Proc, Caller, PC, HoldsPC
<1>5. ASSUME NEW p \in Proc, EnqueueRoute(p) PROVE RepoInv'
  BY <1>5, AfterEnqueueKind, ProcAssumption
  DEF TypeOK, StoreTypeOK, GoroutineKinds, EnqueueRoute, Leave, Goto, storeVars, Proc, PC, HoldsPC
<1>6. ASSUME NEW p \in Proc, EnqueueQueue(p) PROVE RepoInv'
  <2>1. repo[p] \in Repo
    BY <1>6 DEF EnqueueQueue, GoroutineKinds
  <2>2. StoreTypeOK'
    BY <1>6, <2>1, StoreTypes DEF EnqueueQueue, TypeOK
  <2> QED
    BY <1>6, <2>1, <2>2, AfterEnqueueKind, ProcAssumption
    DEF TypeOK, GoroutineKinds, EnqueueQueue, Leave, Goto, Proc, PC, HoldsPC
<1>7. ASSUME NEW p \in Proc, NEW w \in Worker, EnqueueSpawn(p, w) PROVE RepoInv'
  BY <1>7, AfterEnqueueKind, ProcAssumption
  DEF TypeOK, StoreTypeOK, GoroutineKinds, EnqueueSpawn, storeVars, Proc, PC, HoldsPC
<1>8. ASSUME NEW w \in Worker, RunDebounced(w) PROVE RepoInv'
  BY <1>8, ProcAssumption
  DEF TypeOK, StoreTypeOK, GoroutineKinds, RunDebounced, Goto, storeVars, Proc, PC, HoldsPC
<1>9. ASSUME NEW w \in Worker, RunAcquire(w) PROVE RepoInv'
  BY <1>9, ProcAssumption
  DEF TypeOK, StoreTypeOK, GoroutineKinds, RunAcquire, Goto, storeVars, Proc, PC, HoldsPC
<1>10. ASSUME NEW w \in Worker, RunCancelled(w) PROVE RepoInv'
  BY <1>10, ProcAssumption
  DEF TypeOK, StoreTypeOK, GoroutineKinds, RunCancelled, Cancelled, Goto, storeVars, Proc,
      PC, HoldsPC
<1>11. ASSUME NEW w \in Worker, RunAbandon(w) PROVE RepoInv'
  <2>1. repo[w] \in Repo
    BY <1>11 DEF RunAbandon, GoroutineKinds, Proc, HoldsPC
  <2>2. StoreTypeOK'
    BY <1>11, <2>1, StoreTypes DEF RunAbandon, TypeOK
  <2> QED
    BY <1>11, <2>1, <2>2, ProcAssumption
    DEF TypeOK, GoroutineKinds, RunAbandon, Leave, Proc, PC, HoldsPC
<1>12. ASSUME NEW w \in Worker, RunStart(w) PROVE RepoInv'
  <2>1. repo[w] \in Repo
    BY <1>12 DEF RunStart, GoroutineKinds, Proc, HoldsPC
  <2>2. StoreTypeOK'
    BY <1>12, <2>1, StoreTypes DEF RunStart, TypeOK
  <2> QED
    BY <1>12, <2>1, <2>2, ProcAssumption
    DEF TypeOK, GoroutineKinds, RunStart, Goto, Proc, PC, HoldsPC
<1>13. ASSUME NEW w \in Worker, RunReturns(w) PROVE RepoInv'
  BY <1>13, ProcAssumption
  DEF TypeOK, StoreTypeOK, GoroutineKinds, RunReturns, Goto, storeVars, Proc, PC, HoldsPC
<1>14. ASSUME NEW w \in Worker, RunFinish(w) PROVE RepoInv'
  <2>1. repo[w] \in Repo
    BY <1>14 DEF RunFinish, GoroutineKinds, Proc, HoldsPC
  <2>2. StoreTypeOK'
    BY <1>14, <2>1, StoreTypes DEF RunFinish, TypeOK
  <2> QED
    BY <1>14, <2>1, <2>2, ProcAssumption
    DEF TypeOK, GoroutineKinds, RunFinish, Leave, Goto, Proc, PC, HoldsPC
<1>15. ASSUME NEW w \in Worker, RunEnd(w) PROVE RepoInv'
  <2>1. CASE adopted[w]
    BY <1>15, <2>1, ProcAssumption
    DEF TypeOK, StoreTypeOK, GoroutineKinds, RunEnd, Leave, storeVars, Proc, PC, HoldsPC
  <2>2. CASE ~adopted[w]
    <3>1. sem - 1 \in Nat
      BY <1>15, <2>2, HeldSlot DEF RunEnd, SlotHolders, SlotPC
    <3> QED
      BY <1>15, <2>2, <3>1, ProcAssumption
      DEF TypeOK, StoreTypeOK, GoroutineKinds, RunEnd, Leave, storeVars, Proc, PC, HoldsPC
  <2> QED
    BY <2>1, <2>2
<1>16. ASSUME NEW r \in Repo, NEW w \in Worker, AdoptRun(r, w) PROVE RepoInv'
  <2>1. StoreTypeOK'
    BY <1>16, StoreTypes DEF AdoptRun, TypeOK
  <2> QED
    BY <1>16, <2>1, ProcAssumption
    DEF TypeOK, GoroutineKinds, AdoptRun, Proc, PC, HoldsPC
<1>17. CASE Serve \/ SetRouter \/ Sigterm \/ HttpStopped \/ Drained \/ ShutdownReturns
            \/ Deadline \/ Exit
  BY <1>17
  DEF TypeOK, StoreTypeOK, GoroutineKinds, storeVars, Phase, Serve, SetRouter, Sigterm,
      HttpStopped, Drained, ShutdownReturns, Deadline, Exit
<1>18. CASE UNCHANGED vars
  BY <1>18 DEF vars, TypeOK, StoreTypeOK, GoroutineKinds
<1> QED
  BY <1>1, <1>2, <1>3, <1>4, <1>5, <1>6, <1>7, <1>8, <1>9, <1>10, <1>11, <1>12, <1>13,
     <1>14, <1>15, <1>16, <1>17, <1>18
  DEF Next, CallerStep, WorkerStep, MainStep, Environment, Proc, Caller

(***************************************************************************)
(* A slot is taken by the send in run (dispatcher.go:138), given back by   *)
(* the deferred receive (dispatcher.go:143), and by nothing else: the      *)
(* semaphore keeps counting its holders and never exceeds its capacity.    *)
(***************************************************************************)
LEMMA SlotStep == RepoInv /\ SlotsBounded /\ [Next]_vars => SlotsBounded'
<1> SUFFICES ASSUME RepoInv, SlotsBounded, [Next]_vars PROVE SlotsBounded'
  OBVIOUS
<1> USE DEF RepoInv
<1>1. IsFiniteSet(SlotHolders)
  BY WorkerAssumption, FS_Subset DEF SlotHolders
<1>2. ASSUME NEW w \in Worker, RunAcquire(w) PROVE SlotsBounded'
  <2>1. SlotHolders' = SlotHolders \union {w} /\ w \notin SlotHolders
    BY <1>2 DEF RunAcquire, Goto, SlotHolders, SlotPC, TypeOK, GoroutineKinds, Proc
  <2>2. Cardinality(SlotHolders') = Cardinality(SlotHolders) + 1
    BY <1>1, <2>1, FS_AddElement
  <2> QED
    BY <1>2, <2>2, MaxConcurrentAssumption DEF RunAcquire, SlotsBounded, TypeOK
<1>3. ASSUME NEW w \in Worker, RunEnd(w) PROVE SlotsBounded'
  <2>1. CASE adopted[w]
    <3>1. SlotHolders' = SlotHolders
      BY <1>3, <2>1 DEF RunEnd, Leave, SlotHolders, SlotPC, TypeOK, Proc
    <3> QED
      BY <1>3, <2>1, <3>1 DEF RunEnd, SlotsBounded
  <2>2. CASE ~adopted[w]
    <3>1. SlotHolders' = SlotHolders \ {w} /\ w \in SlotHolders
      BY <1>3, <2>2 DEF RunEnd, Leave, SlotHolders, SlotPC, TypeOK, Proc
    <3>2. Cardinality(SlotHolders') = Cardinality(SlotHolders) - 1
      BY <1>1, <3>1, FS_RemoveElement
    <3> QED
      BY <1>3, <2>2, <3>2, MaxConcurrentAssumption DEF RunEnd, SlotsBounded, TypeOK
  <2> QED
    BY <2>1, <2>2
<1>4. ASSUME sem' = sem, SlotHolders' = SlotHolders PROVE SlotsBounded'
  BY <1>4 DEF SlotsBounded
<1>5. ASSUME NEW c \in Caller, CallerStep(c) PROVE SlotsBounded'
  <2>1. \A w \in Worker : (w \in SlotHolders)' <=> w \in SlotHolders
    BY <1>5, AfterEnqueueKind, ProcAssumption
    DEF CallerStep, CronDiscover, CronLoop, EnqueueRoute, EnqueueQueue, EnqueueSpawn,
        Goto, Leave, SlotHolders, SlotPC, TypeOK, GoroutineKinds, Proc
  <2>2. sem' = sem
    BY <1>5 DEF CallerStep, CronDiscover, CronLoop, EnqueueRoute, EnqueueQueue, EnqueueSpawn
  <2> QED
    BY <1>4, <2>1, <2>2 DEF SlotHolders
<1>6. ASSUME NEW w \in Worker, WorkerStep(w), ~RunAcquire(w), ~RunEnd(w) PROVE SlotsBounded'
  <2>1. \A v \in Worker : (v \in SlotHolders)' <=> v \in SlotHolders
    BY <1>6, AfterEnqueueKind, ProcAssumption
    DEF WorkerStep, EnqueueRoute, EnqueueQueue, EnqueueSpawn, RunDebounced, RunCancelled,
        RunAbandon, RunStart, RunReturns, RunFinish, Goto, Leave, SlotHolders, SlotPC,
        TypeOK, GoroutineKinds, Proc
  <2>2. sem' = sem
    BY <1>6
    DEF WorkerStep, EnqueueRoute, EnqueueQueue, EnqueueSpawn, RunDebounced, RunCancelled,
        RunAbandon, RunStart, RunReturns, RunFinish
  <2> QED
    BY <1>4, <2>1, <2>2 DEF SlotHolders
<1>7. ASSUME NEW r \in Repo, NEW w \in Worker, AdoptRun(r, w) PROVE SlotsBounded'
  <2>1. SlotHolders' = SlotHolders
    BY <1>7 DEF AdoptRun, SlotHolders, SlotPC, TypeOK, Proc
  <2> QED
    BY <1>4, <1>7, <2>1 DEF AdoptRun
<1>8. ASSUME NEW h \in Handler, NEW r \in Repo, HandlerEvent(h, r) PROVE SlotsBounded'
  <2>1. SlotHolders' = SlotHolders
    BY <1>8, ProcAssumption DEF HandlerEvent, SlotHolders, SlotPC, TypeOK, Proc, Caller
  <2> QED
    BY <1>4, <1>8, <2>1 DEF HandlerEvent
<1>9. ASSUME NEW j \in CronJob, CronFire(j) PROVE SlotsBounded'
  <2>1. SlotHolders' = SlotHolders
    BY <1>9, ProcAssumption DEF CronFire, Goto, SlotHolders, SlotPC, TypeOK, Proc, Caller
  <2> QED
    BY <1>4, <1>9, <2>1 DEF CronFire
<1>10. CASE \/ Serve \/ SetRouter \/ Sigterm \/ HttpStopped \/ Drained \/ ShutdownReturns
            \/ Deadline \/ Exit \/ UNCHANGED vars
  <2>1. UNCHANGED <<sem, pc, adopted>>
    BY <1>10
    DEF Serve, SetRouter, Sigterm, HttpStopped, Drained, ShutdownReturns, Deadline, Exit, vars
  <2> QED
    BY <1>4, <2>1 DEF SlotHolders
<1> QED
  BY <1>2, <1>3, <1>5, <1>6, <1>7, <1>8, <1>9, <1>10 DEF Next, MainStep, Environment

(***************************************************************************)
(* The lock discipline: what LockHasOneOwner needs to be inductive.        *)
(***************************************************************************)
LockInv == QuietStartup /\ RerunWhileRunning /\ LockHasOneOwner

(***************************************************************************)
(* A step that leaves the store, main and every claim on an entry alone    *)
(* preserves the lock discipline.                                          *)
(***************************************************************************)
LEMMA LockFrame ==
    ASSUME RepoInv, LockInv, UNCHANGED <<state, pendingRerun>>,
           \A p \in Proc :
               /\ (pc[p] \in HoldsPC)' <=> pc[p] \in HoldsPC
               /\ pc[p] \in HoldsPC => repo'[p] = repo[p]
               /\ (pc[p] \in {"exec", "finish"})' <=> pc[p] \in {"exec", "finish"},
           QuietStartup'
    PROVE  LockInv'
<1>1. RerunWhileRunning'
  BY DEF LockInv, RerunWhileRunning
<1>2. LockHasOneOwner'
  BY DEF LockInv, LockHasOneOwner, Holds
<1> QED
  BY <1>1, <1>2 DEF LockInv

(***************************************************************************)
(* Every step keeps one responsible goroutine per entry: Queue creates an  *)
(* entry only when there is none, wg.Go hands it to the new goroutine, and *)
(* only that goroutine deletes it (dispatcher.go:94-187).                  *)
(***************************************************************************)
LEMMA LockStep == RepoInv /\ LockInv /\ [Next]_vars => LockInv'
<1> SUFFICES ASSUME RepoInv, LockInv, [Next]_vars PROVE LockInv'
  OBVIOUS
<1>1. ASSUME NEW h \in Handler, NEW r \in Repo, HandlerEvent(h, r) PROVE LockInv'
  <2>1. QuietStartup'
    BY <1>1 DEF HandlerEvent, QuietStartup
  <2> QED
    BY <1>1, <2>1, LockFrame
    DEF HandlerEvent, storeVars, RepoInv, TypeOK, Proc, Caller, HoldsPC
<1>2. ASSUME NEW j \in CronJob, CronFire(j) PROVE LockInv'
  <2>1. QuietStartup'
    BY <1>2 DEF CronFire, QuietStartup
  <2> QED
    BY <1>2, <2>1, LockFrame
    DEF CronFire, Goto, storeVars, RepoInv, TypeOK, Proc, Caller, HoldsPC
<1>3. ASSUME NEW j \in CronJob, CronDiscover(j) \/ CronLoop(j) PROVE LockInv'
  <2>1. QuietStartup'
    BY <1>3 DEF CronDiscover, CronLoop, QuietStartup, LockInv, Proc, Caller
  <2> QED
    BY <1>3, <2>1, LockFrame
    DEF CronDiscover, CronLoop, Goto, Leave, storeVars, RepoInv, TypeOK, Proc, Caller, HoldsPC
<1>4. ASSUME NEW p \in Proc, EnqueueRoute(p) PROVE LockInv'
  <2>1. QuietStartup'
    BY <1>4 DEF EnqueueRoute, QuietStartup, LockInv
  <2> QED
    BY <1>4, <2>1, LockFrame, AfterEnqueueKind
    DEF EnqueueRoute, Goto, Leave, storeVars, RepoInv, TypeOK, HoldsPC
<1>5. ASSUME NEW p \in Proc, EnqueueQueue(p) PROVE LockInv'
  <2>0. repo[p] \in Repo /\ pc[p] = "queue"
    BY <1>5 DEF EnqueueQueue, RepoInv, GoroutineKinds
  <2>1. QuietStartup'
    BY <1>5 DEF EnqueueQueue, QuietStartup, LockInv
  <2>2. RerunWhileRunning'
    BY <1>5, <2>0
    DEF EnqueueQueue, Queue, RerunWhileRunning, LockInv, RepoInv, TypeOK, StoreTypeOK
  <2>3. LockHasOneOwner'
    <3>1. CASE state[repo[p]] = "absent"
      <4>1. /\ state' = [state EXCEPT ![repo[p]] = "queued"]
            /\ pc' = [pc EXCEPT ![p] = "spawn"]
            /\ repo' = repo
        BY <1>5, <3>1 DEF EnqueueQueue, Queue, QueueResult, Goto
      <4> QED
        BY <2>0, <3>1, <4>1
        DEF LockInv, LockHasOneOwner, Holds, HoldsPC, RepoInv, TypeOK, StoreTypeOK
    <3>2. CASE state[repo[p]] # "absent"
      <4>1. /\ state' = state
            /\ pc' = [pc EXCEPT ![p] = AfterEnqueue(p)]
            /\ repo' = [repo EXCEPT ![p] = NoRepo]
        BY <1>5, <3>2 DEF EnqueueQueue, Queue, QueueResult, Leave
      <4> QED
        BY <2>0, <3>2, <4>1, AfterEnqueueKind
        DEF LockInv, LockHasOneOwner, Holds, HoldsPC, RepoInv, TypeOK
    <3> QED
      BY <3>1, <3>2
  <2> QED
    BY <2>1, <2>2, <2>3 DEF LockInv
<1>6. ASSUME NEW p \in Proc, NEW w \in Worker, EnqueueSpawn(p, w) PROVE LockInv'
  <2>0. pc[p] = "spawn" /\ pc[w] = "free" /\ p # w /\ w \in Proc
    BY <1>6 DEF EnqueueSpawn, Proc
  <2>1. QuietStartup'
    BY <1>6 DEF EnqueueSpawn, QuietStartup, LockInv
  <2>2. RerunWhileRunning'
    BY <1>6 DEF EnqueueSpawn, storeVars, RerunWhileRunning, LockInv
  <2>3. LockHasOneOwner'
    BY <1>6, <2>0, AfterEnqueueKind
    DEF EnqueueSpawn, storeVars, LockInv, LockHasOneOwner, Holds, HoldsPC, RepoInv, TypeOK
  <2> QED
    BY <2>1, <2>2, <2>3 DEF LockInv
<1>7. ASSUME NEW w \in Worker, RunDebounced(w) \/ RunAcquire(w) \/ RunCancelled(w) \/ RunReturns(w)
      PROVE  LockInv'
  <2>1. QuietStartup'
    BY <1>7
    DEF RunDebounced, RunAcquire, RunCancelled, RunReturns, Cancelled, Goto, storeVars,
        QuietStartup, LockInv, RepoInv, TypeOK, Proc
  <2> QED
    BY <1>7, <2>1, LockFrame
    DEF RunDebounced, RunAcquire, RunCancelled, RunReturns, Goto, storeVars, RepoInv, TypeOK,
        Proc, HoldsPC
<1>8. ASSUME NEW w \in Worker, RunAbandon(w) PROVE LockInv'
  <2>0. w \in Proc /\ repo[w] \in Repo /\ pc[w] = "abandon"
    BY <1>8 DEF RunAbandon, RepoInv, GoroutineKinds, Proc, HoldsPC
  <2>1. QuietStartup'
    BY <1>8, <2>0 DEF RunAbandon, QuietStartup, LockInv
  <2>2. RerunWhileRunning'
    BY <1>8, <2>0
    DEF RunAbandon, FinishRun, RerunWhileRunning, LockInv, RepoInv, TypeOK, StoreTypeOK
  <2>3. LockHasOneOwner'
    BY <1>8, <2>0
    DEF RunAbandon, FinishRun, Leave, LockInv, LockHasOneOwner, Holds, HoldsPC, RepoInv,
        TypeOK, StoreTypeOK
  <2> QED
    BY <2>1, <2>2, <2>3 DEF LockInv
<1>9. ASSUME NEW w \in Worker, RunStart(w) PROVE LockInv'
  <2>0. w \in Proc /\ repo[w] \in Repo /\ pc[w] = "start" /\ state[repo[w]] = "queued"
    BY <1>9 DEF RunStart, RepoInv, GoroutineKinds, Proc, HoldsPC, LockInv, LockHasOneOwner
  <2>1. QuietStartup'
    BY <1>9, <2>0 DEF RunStart, QuietStartup, LockInv
  <2>2. RerunWhileRunning'
    BY <1>9, <2>0
    DEF RunStart, StartRun, RerunWhileRunning, LockInv, RepoInv, TypeOK, StoreTypeOK
  <2>3. LockHasOneOwner'
    BY <1>9, <2>0
    DEF RunStart, StartRun, Goto, LockInv, LockHasOneOwner, Holds, HoldsPC, RepoInv,
        TypeOK, StoreTypeOK
  <2> QED
    BY <2>1, <2>2, <2>3 DEF LockInv
<1>10. ASSUME NEW w \in Worker, RunFinish(w) PROVE LockInv'
  <2>0. w \in Proc /\ repo[w] \in Repo /\ pc[w] = "finish"
    BY <1>10 DEF RunFinish, RepoInv, GoroutineKinds, Proc, HoldsPC
  <2>1. QuietStartup'
    BY <1>10, <2>0
    DEF RunFinish, FinishRun, Goto, Leave, QuietStartup, LockInv, RepoInv, TypeOK, StoreTypeOK
  <2>2. RerunWhileRunning'
    BY <1>10, <2>0
    DEF RunFinish, FinishRun, RerunWhileRunning, LockInv, RepoInv, TypeOK, StoreTypeOK
  <2>3. LockHasOneOwner'
    BY <1>10, <2>0
    DEF RunFinish, FinishRun, Goto, Leave, LockInv, LockHasOneOwner, Holds, HoldsPC, RepoInv,
        TypeOK, StoreTypeOK
  <2> QED
    BY <2>1, <2>2, <2>3 DEF LockInv
<1>11. ASSUME NEW w \in Worker, RunEnd(w) PROVE LockInv'
  <2>1. QuietStartup'
    BY <1>11 DEF RunEnd, Leave, storeVars, QuietStartup, LockInv, RepoInv, TypeOK, Proc
  <2> QED
    BY <1>11, <2>1, LockFrame
    DEF RunEnd, Leave, storeVars, RepoInv, TypeOK, Proc, HoldsPC
<1>12. ASSUME NEW r \in Repo, NEW w \in Worker, AdoptRun(r, w) PROVE LockInv'
  <2>0. w \in Proc /\ pc[w] = "free" /\ state[r] = "absent"
    BY <1>12 DEF AdoptRun, Proc, LockInv, QuietStartup
  <2>1. QuietStartup'
    BY <1>12, <2>0
    DEF AdoptRun, Adopt, QuietStartup, LockInv, RepoInv, TypeOK, StoreTypeOK
  <2>2. RerunWhileRunning'
    BY <1>12, <2>0 DEF AdoptRun, Adopt, RerunWhileRunning, LockInv, RepoInv, TypeOK, StoreTypeOK
  <2>3. LockHasOneOwner'
    BY <1>12, <2>0
    DEF AdoptRun, Adopt, LockInv, LockHasOneOwner, Holds, HoldsPC, RepoInv, TypeOK, StoreTypeOK
  <2> QED
    BY <2>1, <2>2, <2>3 DEF LockInv
<1>13. CASE \/ Serve \/ SetRouter \/ Sigterm \/ HttpStopped \/ Drained \/ ShutdownReturns
            \/ Deadline \/ Exit \/ UNCHANGED vars
  <2>1. /\ UNCHANGED <<state, pendingRerun, pc, repo, toAdopt, wanted>>
        /\ main' = "startup" => main = "startup"
    BY <1>13
    DEF Serve, SetRouter, Sigterm, HttpStopped, Drained, ShutdownReturns, Deadline, Exit,
        vars, storeVars
  <2>2. QuietStartup'
    BY <2>1 DEF QuietStartup, LockInv
  <2> QED
    BY <2>1, <2>2, LockFrame
<1> QED
  BY <1>1, <1>2, <1>3, <1>4, <1>5, <1>6, <1>7, <1>8, <1>9, <1>10, <1>11, <1>12, <1>13
  DEF Next, CallerStep, WorkerStep, MainStep, Environment, Proc, Caller

(***************************************************************************)
(* A step that leaves the store and the accepted events alone and lets no  *)
(* goroutine forget a rerun loses no event.                                *)
(***************************************************************************)
LEMMA TriggerFrame ==
    ASSUME NoLostTrigger, UNCHANGED <<state, pendingRerun, wanted>>,
           \A w \in Worker : \A r \in Repo : Requeues(w, r) => Requeues(w, r)'
    PROVE  NoLostTrigger'
  BY DEF NoLostTrigger

(***************************************************************************)
(* No step loses an accepted event.  The delicate one is FinishRun: it     *)
(* deletes the entry, and the goroutine itself becomes the only trace of   *)
(* the pending rerun until it has called Queue (dispatcher.go:183-186).    *)
(***************************************************************************)
LEMMA TriggerStep ==
    RepoInv /\ LockInv /\ NoLostTrigger /\ [Next]_vars => NoLostTrigger'
<1> SUFFICES ASSUME RepoInv, LockInv, NoLostTrigger, [Next]_vars PROVE NoLostTrigger'
  OBVIOUS
<1>1. ASSUME NEW p \in Proc, EnqueueRoute(p) PROVE NoLostTrigger'
  <2>0. pc[p] = "route" /\ repo[p] \in Repo
    BY <1>1 DEF EnqueueRoute, RepoInv, GoroutineKinds
  <2>1. CASE enabled[repo[p]]
    BY <1>1, <2>0, <2>1, TriggerFrame
    DEF EnqueueRoute, Goto, storeVars, Requeues, RepoInv, TypeOK, Proc
  <2>2. CASE ~enabled[repo[p]] /\ p \in Worker
    <3> SUFFICES ASSUME NEW r \in Repo, wanted'[r]
                 PROVE  \/ state[r] = "queued"
                        \/ state[r] = "running" /\ pendingRerun[r]
                        \/ state[r] = "absent" /\ \E w \in Worker : Requeues(w, r)'
      BY <1>1 DEF EnqueueRoute, storeVars, NoLostTrigger, Requeues
    <3>1. wanted[r] /\ (r = repo[p] => state[r] # "absent")
      BY <1>1, <2>0, <2>2 DEF EnqueueRoute, RepoInv, TypeOK
    <3>2. \A w \in Worker : Requeues(w, r) /\ r # repo[p] => Requeues(w, r)'
      BY <1>1, <2>0, <2>2 DEF EnqueueRoute, Leave, Requeues, RepoInv, TypeOK, Proc
    <3> QED
      BY <3>1, <3>2 DEF NoLostTrigger
  <2>3. CASE ~enabled[repo[p]] /\ p \notin Worker
    <3>1. UNCHANGED <<state, pendingRerun, wanted>>
      BY <1>1, <2>0, <2>3 DEF EnqueueRoute, storeVars, RepoInv, TypeOK
    <3> QED
      BY <1>1, <2>0, <2>3, <3>1, TriggerFrame
      DEF EnqueueRoute, Leave, Requeues, RepoInv, TypeOK, Proc
  <2> QED
    BY <2>1, <2>2, <2>3
<1>2. ASSUME NEW p \in Proc, EnqueueQueue(p) PROVE NoLostTrigger'
  <2>0. pc[p] = "queue" /\ repo[p] \in Repo
    BY <1>2 DEF EnqueueQueue, RepoInv, GoroutineKinds
  <2> SUFFICES ASSUME NEW r \in Repo, wanted'[r]
               PROVE  \/ state'[r] = "queued"
                      \/ state'[r] = "running" /\ pendingRerun'[r]
                      \/ state'[r] = "absent" /\ \E w \in Worker : Requeues(w, r)'
    BY DEF NoLostTrigger, Requeues
  <2>1. CASE r = repo[p]
    BY <1>2, <2>0, <2>1 DEF EnqueueQueue, Queue, RepoInv, TypeOK, StoreTypeOK, State
  <2>2. CASE r # repo[p]
    <3>1. wanted[r] /\ state'[r] = state[r] /\ pendingRerun'[r] = pendingRerun[r]
      BY <1>2, <2>0, <2>2 DEF EnqueueQueue, Queue, RepoInv, TypeOK, StoreTypeOK
    <3>2. \A w \in Worker : Requeues(w, r) => Requeues(w, r)'
      BY <1>2, <2>0, <2>2 DEF EnqueueQueue, Goto, Leave, Requeues, RepoInv, TypeOK, Proc
    <3> QED
      BY <3>1, <3>2 DEF NoLostTrigger
  <2> QED
    BY <2>1, <2>2
<1>3. ASSUME NEW p \in Proc, NEW w \in Worker, EnqueueSpawn(p, w) PROVE NoLostTrigger'
  BY <1>3, TriggerFrame DEF EnqueueSpawn, storeVars, Requeues, RepoInv, TypeOK, Proc
<1>4. ASSUME NEW w \in Worker,
             RunDebounced(w) \/ RunAcquire(w) \/ RunCancelled(w) \/ RunReturns(w) \/ RunEnd(w)
      PROVE  NoLostTrigger'
  BY <1>4, TriggerFrame
  DEF RunDebounced, RunAcquire, RunCancelled, RunReturns, RunEnd, Goto, Leave, storeVars,
      Requeues, RepoInv, TypeOK, Proc
<1>5. ASSUME NEW w \in Worker, RunAbandon(w) \/ RunStart(w) PROVE NoLostTrigger'
  <2>0. pc[w] \in {"abandon", "start"} /\ repo[w] \in Repo
    BY <1>5 DEF RunAbandon, RunStart, RepoInv, GoroutineKinds, Proc, HoldsPC
  <2> SUFFICES ASSUME NEW r \in Repo, wanted'[r]
               PROVE  \/ state'[r] = "queued"
                      \/ state'[r] = "running" /\ pendingRerun'[r]
                      \/ state'[r] = "absent" /\ \E v \in Worker : Requeues(v, r)'
    BY DEF NoLostTrigger, Requeues
  <2>1. r # repo[w] /\ wanted[r]
    BY <1>5, <2>0 DEF RunAbandon, RunStart, RepoInv, TypeOK
  <2>2. state'[r] = state[r] /\ pendingRerun'[r] = pendingRerun[r]
    BY <1>5, <2>0, <2>1
    DEF RunAbandon, RunStart, FinishRun, StartRun, RepoInv, TypeOK, StoreTypeOK
  <2>3. \A v \in Worker : Requeues(v, r) => Requeues(v, r)'
    BY <1>5, <2>0 DEF RunAbandon, RunStart, Goto, Leave, Requeues, RepoInv, TypeOK, Proc
  <2> QED
    BY <2>1, <2>2, <2>3 DEF NoLostTrigger
<1>6. ASSUME NEW w \in Worker, RunFinish(w) PROVE NoLostTrigger'
  <2>0. pc[w] = "finish" /\ repo[w] \in Repo /\ state[repo[w]] = "running"
    BY <1>6
    DEF RunFinish, RepoInv, GoroutineKinds, Proc, HoldsPC, LockInv, LockHasOneOwner
  <2> SUFFICES ASSUME NEW r \in Repo, wanted'[r]
               PROVE  \/ state'[r] = "queued"
                      \/ state'[r] = "running" /\ pendingRerun'[r]
                      \/ state'[r] = "absent" /\ \E v \in Worker : Requeues(v, r)'
    BY DEF NoLostTrigger, Requeues
  <2>1. wanted[r]
    BY <1>6 DEF RunFinish
  <2>2. CASE r = repo[w]
    <3>1. pendingRerun[r]
      BY <2>0, <2>1, <2>2 DEF NoLostTrigger
    <3>2. state'[r] = "absent" /\ Requeues(w, r)'
      BY <1>6, <2>0, <2>2, <3>1
      DEF RunFinish, FinishRun, Goto, Requeues, RepoInv, TypeOK, StoreTypeOK, Proc
    <3> QED
      BY <3>2
  <2>3. CASE r # repo[w]
    <3>1. state'[r] = state[r] /\ pendingRerun'[r] = pendingRerun[r]
      BY <1>6, <2>0, <2>3 DEF RunFinish, FinishRun, RepoInv, TypeOK, StoreTypeOK
    <3>2. \A v \in Worker : Requeues(v, r) => Requeues(v, r)'
      BY <1>6, <2>0 DEF RunFinish, Goto, Leave, Requeues, RepoInv, TypeOK, Proc
    <3> QED
      BY <2>1, <3>1, <3>2 DEF NoLostTrigger
  <2> QED
    BY <2>2, <2>3
<1>7. ASSUME NEW r \in Repo, NEW w \in Worker, AdoptRun(r, w) PROVE NoLostTrigger'
  BY <1>7 DEF AdoptRun, LockInv, QuietStartup, NoLostTrigger
<1>8. ASSUME NEW h \in Handler, NEW r \in Repo, HandlerEvent(h, r) PROVE NoLostTrigger'
  BY <1>8, TriggerFrame, ProcAssumption
  DEF HandlerEvent, storeVars, Requeues, RepoInv, TypeOK, Proc, Caller
<1>9. ASSUME NEW j \in CronJob, CronFire(j) \/ CronDiscover(j) \/ CronLoop(j)
      PROVE  NoLostTrigger'
  BY <1>9, TriggerFrame, ProcAssumption
  DEF CronFire, CronDiscover, CronLoop, Goto, Leave, storeVars, Requeues, RepoInv, TypeOK,
      Proc, Caller
<1>10. CASE \/ Serve \/ SetRouter \/ Sigterm \/ HttpStopped \/ Drained \/ ShutdownReturns
            \/ Deadline \/ Exit \/ UNCHANGED vars
  BY <1>10, TriggerFrame
  DEF Serve, SetRouter, Sigterm, HttpStopped, Drained, ShutdownReturns, Deadline, Exit,
      vars, storeVars, Requeues
<1> QED
  BY <1>1, <1>2, <1>3, <1>4, <1>5, <1>6, <1>7, <1>8, <1>9, <1>10
  DEF Next, CallerStep, WorkerStep, MainStep, Environment, Proc, Caller

------------------------------------------------------------------------------
(***************************************************************************)
(* A process that has just started satisfies the inductive invariant.      *)
(***************************************************************************)
LEMMA InitIndInv == Init => IndInv
<1> SUFFICES ASSUME Init PROVE IndInv
  OBVIOUS
<1>1. TypeOK /\ GoroutineKinds
  BY DEF Init, StoreInit, TypeOK, StoreTypeOK, State, PC, Phase, GoroutineKinds, HoldsPC,
         Proc, Caller
<1>2. QuietStartup /\ RerunWhileRunning
  BY DEF Init, StoreInit, QuietStartup, RerunWhileRunning
<1>3. LockHasOneOwner
  BY DEF Init, StoreInit, LockHasOneOwner, HoldsPC
<1>4. NoLostTrigger
  BY DEF Init, NoLostTrigger
<1>5. SlotsBounded
  <2>1. SlotHolders = {}
    BY DEF Init, SlotHolders, SlotPC, Proc
  <2> QED
    BY <2>1, FS_EmptySet, MaxConcurrentAssumption DEF Init, SlotsBounded
<1> QED
  BY <1>1, <1>2, <1>3, <1>4, <1>5 DEF IndInv

(***************************************************************************)
(* The inductive invariant holds in every reachable state: Enqueue, run,   *)
(* finish, Adopt and Shutdown preserve it whatever they interleave with.   *)
(***************************************************************************)
THEOREM Invariance == Spec => []IndInv
<1>1. IndInv /\ [Next]_vars => IndInv'
  BY TypeStep, SlotStep, LockStep, TriggerStep DEF IndInv, RepoInv, LockInv
<1> QED
  BY InitIndInv, <1>1, PTL DEF Spec

(***************************************************************************)
(* Every variable of the dispatcher keeps its type; in particular the      *)
(* semaphore channel is never received from when it is empty.              *)
(***************************************************************************)
THEOREM TypeCorrect == Spec => []TypeOK
<1>1. IndInv => TypeOK
  BY DEF IndInv
<1> QED
  BY Invariance, <1>1, PTL

(***************************************************************************)
(* A repository never has more than one run in flight (README.md:6), for   *)
(* any number of repositories, event sources and goroutines.               *)
(***************************************************************************)
THEOREM AtMostOneRun == Spec => []MutualExclusion
<1>1. IndInv => MutualExclusion
  BY DEF IndInv, LockHasOneOwner, HoldsPC, MutualExclusion, Proc
<1> QED
  BY Invariance, <1>1, PTL

(***************************************************************************)
(* Every store entry has exactly one responsible goroutine, from the Queue *)
(* that created it to the FinishRun that deletes it.                       *)
(***************************************************************************)
THEOREM LocksAreOwned == Spec => []LockHasOneOwner
<1>1. IndInv => LockHasOneOwner
  BY DEF IndInv
<1> QED
  BY Invariance, <1>1, PTL

(***************************************************************************)
(* No accepted event is forgotten before a run that starts after it.       *)
(***************************************************************************)
THEOREM TriggersSurvive == Spec => []NoLostTrigger
<1>1. IndInv => NoLostTrigger
  BY DEF IndInv
<1> QED
  BY Invariance, <1>1, PTL

(***************************************************************************)
(* The runs that went through the semaphore never exceed its capacity, and *)
(* no slot leaks.                                                          *)
(***************************************************************************)
THEOREM SemaphoreIsExact == Spec => []SlotsBounded
<1>1. IndInv => SlotsBounded
  BY DEF IndInv
<1> QED
  BY Invariance, <1>1, PTL

------------------------------------------------------------------------------
(***************************************************************************)
(* Shutdown without its deadline: once httpServer.Shutdown has returned no *)
(* handler is active, and once wg.Wait has returned no goroutine of a run  *)
(* is left (main.go:275-285, dispatcher.go:190-203).  Both stay true for   *)
(* want of anyone who could start a new one.                               *)
(***************************************************************************)
ShutdownInOrder ==
    ~expired =>
        /\ main \in {"draining", "drained", "stopped"} => \A h \in Handler : pc[h] = "free"
        /\ main \in {"drained", "stopped"} => \A w \in Worker : pc[w] = "free"

(***************************************************************************)
(* On a server without crontabs every step keeps the shutdown in order.    *)
(***************************************************************************)
LEMMA ShutdownStep ==
    ASSUME CronJob = {}, RepoInv, ShutdownInOrder, [Next]_vars
    PROVE  ShutdownInOrder'
<1>1. ASSUME NEW p \in Proc, pc[p] # "free",
             EnqueueRoute(p) \/ EnqueueQueue(p) \/ (\E w \in Worker : EnqueueSpawn(p, w))
      PROVE  ShutdownInOrder'
  <2>1. UNCHANGED <<main, expired>>
    BY <1>1 DEF EnqueueRoute, EnqueueQueue, EnqueueSpawn
  <2>2. CASE p \in Handler
    BY <1>1, <2>1, <2>2 DEF ShutdownInOrder
  <2>3. CASE p \in Worker
    <3>1. \A h \in Handler : pc'[h] = pc[h]
      BY <1>1, <2>3, ProcAssumption
      DEF EnqueueRoute, EnqueueQueue, EnqueueSpawn, Goto, Leave, RepoInv, TypeOK, Proc, Caller
    <3> QED
      BY <1>1, <2>1, <2>3, <3>1 DEF ShutdownInOrder
  <2> QED
    BY <2>2, <2>3 DEF Proc, Caller
<1>2. ASSUME NEW w \in Worker, pc[w] # "free",
             \/ RunDebounced(w) \/ RunAcquire(w) \/ RunCancelled(w) \/ RunAbandon(w)
             \/ RunStart(w) \/ RunReturns(w) \/ RunFinish(w) \/ RunEnd(w)
      PROVE  ShutdownInOrder'
  <2>1. UNCHANGED <<main, expired>> /\ \A h \in Handler : pc'[h] = pc[h]
    BY <1>2, ProcAssumption
    DEF RunDebounced, RunAcquire, RunCancelled, RunAbandon, RunStart, RunReturns, RunFinish,
        RunEnd, Goto, Leave, RepoInv, TypeOK, Proc, Caller
  <2> QED
    BY <1>2, <2>1 DEF ShutdownInOrder
<1>3. ASSUME NEW p \in Proc,
             \/ EnqueueRoute(p) \/ EnqueueQueue(p) \/ (\E w \in Worker : EnqueueSpawn(p, w))
             \/ RunDebounced(p) \/ RunAcquire(p) \/ RunCancelled(p) \/ RunAbandon(p)
             \/ RunStart(p) \/ RunReturns(p) \/ RunFinish(p) \/ RunEnd(p)
      PROVE  pc[p] # "free"
  BY <1>3
  DEF EnqueueRoute, EnqueueQueue, EnqueueSpawn, RunDebounced, RunAcquire, RunCancelled,
      RunAbandon, RunStart, RunReturns, RunFinish, RunEnd
<1>4. CASE \/ \E h \in Handler, r \in Repo : HandlerEvent(h, r)
           \/ \E r \in Repo, w \in Worker : AdoptRun(r, w)
  BY <1>4 DEF HandlerEvent, AdoptRun, ShutdownInOrder
<1>5. CASE \/ Serve \/ SetRouter \/ Sigterm \/ HttpStopped \/ Drained \/ ShutdownReturns
           \/ Deadline \/ Exit \/ UNCHANGED vars
  BY <1>5
  DEF Serve, SetRouter, Sigterm, HttpStopped, Drained, ShutdownReturns, Deadline, Exit, vars,
      ShutdownInOrder, RepoInv, TypeOK
<1> QED
  BY <1>1, <1>2, <1>3, <1>4, <1>5
  DEF Next, CallerStep, WorkerStep, MainStep, Environment, Proc, Caller

(***************************************************************************)
(* A server without crontabs that shuts down within its deadline has       *)
(* served every event it accepted: no goroutine is left, so by             *)
(* LockHasOneOwner no entry is, and by NoLostTrigger no event is.          *)
(***************************************************************************)
THEOREM ShutdownIsClean ==
    ASSUME CronJob = {}
    PROVE  Spec => []CleanShutdown
<1>1. Init => ShutdownInOrder
  BY DEF Init, ShutdownInOrder
<1>2. IndInv /\ ShutdownInOrder /\ [Next]_vars => ShutdownInOrder'
  BY ShutdownStep DEF IndInv, RepoInv
<1>3. IndInv /\ ShutdownInOrder => CleanShutdown
  <2> SUFFICES ASSUME IndInv, ShutdownInOrder, main = "stopped", ~expired, NEW r \in Repo
               PROVE  ~wanted[r] /\ r \notin InFlight
    BY DEF CleanShutdown
  <2>1. \A p \in Proc : pc[p] = "free"
    BY DEF ShutdownInOrder, Proc, Caller
  <2>2. state[r] = "absent"
    BY <2>1 DEF IndInv, LockHasOneOwner, Holds, HoldsPC
  <2>3. ~wanted[r]
    BY <2>1, <2>2 DEF IndInv, NoLostTrigger, Requeues, Proc
  <2>4. r \notin InFlight
    BY <2>1 DEF InFlight, Proc
  <2> QED
    BY <2>3, <2>4
<1> QED
  BY Invariance, <1>1, <1>2, <1>3, PTL DEF Spec
===============================================================================
