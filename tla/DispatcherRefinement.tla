------------------------- MODULE DispatcherRefinement -------------------------
(***************************************************************************)
(* Dispatcher implements RepoRuns, for every value of the constants.       *)
(***************************************************************************)
EXTENDS DispatcherProofs

\* The phase of RepoRuns that main's progress stands for.
AbsPhase ==
    CASE main = "startup" -> "starting"
      [] main = "stopped" -> "cancelled"
      [] main = "exited"  -> "over"
      [] OTHER            -> "up"

(***************************************************************************)
(* A step that changes neither the phase, the rules, the accepted events   *)
(* nor the runs in flight is invisible to the senders of events.           *)
(***************************************************************************)
LEMMA Invisible ==
    ASSUME UNCHANGED <<enabled, wanted>>, AbsPhase' = AbsPhase, InFlight' = InFlight
    PROVE  [Runs!Next]_(Runs!vars)
  BY DEF Runs!vars, AbsPhase

(***************************************************************************)
(* The two ways the accepted events change: Queue adds one repository,     *)
(* the start or the end of its goroutine removes one.                      *)
(***************************************************************************)
LEMMA PendingStep ==
    ASSUME wanted \in [Repo -> BOOLEAN], NEW r \in Repo
    PROVE  /\ wanted' = [wanted EXCEPT ![r] = TRUE] =>
                {s \in Repo : wanted'[s]} = {s \in Repo : wanted[s]} \union {r}
           /\ wanted' = [wanted EXCEPT ![r] = FALSE] =>
                {s \in Repo : wanted'[s]} = {s \in Repo : wanted[s]} \ {r}
  OBVIOUS

(***************************************************************************)
(* A repository with a run in flight has a running entry (StartRun or      *)
(* Adopt came first), so a goroutine whose entry says otherwise knows that *)
(* no run of its repository is in flight.                                  *)
(***************************************************************************)
LEMMA InFlightIsRunning ==
    ASSUME IndInv, NEW r \in InFlight
    PROVE  state[r] = "running"
  BY DEF IndInv, LockHasOneOwner, InFlight, HoldsPC, Proc

(***************************************************************************)
(* Every step of the dispatcher is a step of RepoRuns, or invisible.       *)
(***************************************************************************)
LEMMA RefinementStep == IndInv /\ [Next]_vars => [Runs!Next]_(Runs!vars)
<1> SUFFICES ASSUME IndInv, [Next]_vars PROVE [Runs!Next]_(Runs!vars)
  OBVIOUS
<1>a. TypeOK /\ GoroutineKinds
  BY DEF IndInv
<1>1. ASSUME NEW h \in Handler, NEW r \in Repo, HandlerEvent(h, r)
      PROVE  [Runs!Next]_(Runs!vars)
  <2>1. InFlight' = InFlight
    BY <1>1, <1>a, ProcAssumption DEF HandlerEvent, InFlight, TypeOK, Proc, Caller
  <2> QED
    BY <1>1, <2>1, Invisible DEF HandlerEvent, AbsPhase
<1>2. ASSUME NEW j \in CronJob, CronFire(j) \/ CronDiscover(j) \/ CronLoop(j)
      PROVE  [Runs!Next]_(Runs!vars)
  <2>1. InFlight' = InFlight
    BY <1>2, <1>a, ProcAssumption
    DEF CronFire, CronDiscover, CronLoop, Goto, Leave, InFlight, TypeOK, Proc, Caller
  <2> QED
    BY <1>2, <2>1, Invisible DEF CronFire, CronDiscover, CronLoop, AbsPhase
<1>3. ASSUME NEW p \in Proc, EnqueueRoute(p) PROVE [Runs!Next]_(Runs!vars)
  <2>0. pc[p] = "route" /\ repo[p] \in Repo
    BY <1>3, <1>a DEF EnqueueRoute, GoroutineKinds
  <2>r. PICK r \in Repo : r = repo[p]
    BY <2>0
  <2>1. InFlight' = InFlight
    BY <1>3, <2>0, <1>a, AfterEnqueueKind
    DEF EnqueueRoute, Goto, Leave, InFlight, TypeOK, Proc
  <2>2. UNCHANGED <<main, enabled>>
    BY <1>3 DEF EnqueueRoute
  <2>3. CASE wanted' = wanted
    BY <2>1, <2>2, <2>3, Invisible DEF AbsPhase
  <2>4. CASE wanted' # wanted
    <3>1. /\ wanted[repo[p]] /\ ~enabled[repo[p]] /\ state[repo[p]] = "absent"
          /\ wanted' = [wanted EXCEPT ![repo[p]] = FALSE]
      BY <1>3, <2>0, <2>4, <1>a DEF EnqueueRoute, TypeOK
    <3>2. repo[p] \notin InFlight
      BY <3>1, InFlightIsRunning
    <3>3. {s \in Repo : wanted'[s]} = {s \in Repo : wanted[s]} \ {repo[p]}
      BY <2>0, <3>1, <1>a, PendingStep DEF TypeOK
    <3>4. main # "exited"
      BY <1>3 DEF EnqueueRoute, Alive
    <3>5. Runs!Drop(r)
      BY <2>r, <2>0, <2>1, <2>2, <3>1, <3>2, <3>3, <3>4 DEF Runs!Drop
    <3> QED
      BY <2>r, <3>5 DEF Runs!Next
  <2> QED
    BY <2>3, <2>4
<1>4. ASSUME NEW p \in Proc, EnqueueQueue(p) PROVE [Runs!Next]_(Runs!vars)
  <2>0. pc[p] = "queue" /\ repo[p] \in Repo
    BY <1>4, <1>a DEF EnqueueQueue, GoroutineKinds
  <2>r. PICK r \in Repo : r = repo[p]
    BY <2>0
  <2>1. InFlight' = InFlight
    BY <1>4, <2>0, <1>a, AfterEnqueueKind
    DEF EnqueueQueue, Goto, Leave, InFlight, TypeOK, Proc
  <2>2. UNCHANGED <<main, enabled>>
    BY <1>4 DEF EnqueueQueue
  <2>3. CASE p \in Caller
    <3>1. wanted' = [wanted EXCEPT ![repo[p]] = TRUE] /\ main # "exited"
      BY <1>4, <2>3 DEF EnqueueQueue, Alive
    <3>2. {s \in Repo : wanted'[s]} = {s \in Repo : wanted[s]} \union {repo[p]}
      BY <2>0, <3>1, <1>a, PendingStep DEF TypeOK
    <3>3. Runs!Request(r)
      BY <2>r, <2>1, <2>2, <3>1, <3>2 DEF Runs!Request
    <3> QED
      BY <2>r, <3>3 DEF Runs!Next
  <2>4. CASE p \notin Caller
    <3>1. wanted' = wanted
      BY <1>4, <2>0, <2>4, <1>a DEF EnqueueQueue, TypeOK
    <3> QED
      BY <2>1, <2>2, <3>1, Invisible DEF AbsPhase
  <2> QED
    BY <2>3, <2>4
<1>5. ASSUME NEW p \in Proc, NEW w \in Worker, EnqueueSpawn(p, w) PROVE [Runs!Next]_(Runs!vars)
  <2>1. InFlight' = InFlight
    BY <1>5, <1>a, AfterEnqueueKind DEF EnqueueSpawn, InFlight, TypeOK, Proc
  <2> QED
    BY <1>5, <2>1, Invisible DEF EnqueueSpawn, AbsPhase
<1>6. ASSUME NEW w \in Worker,
             RunDebounced(w) \/ RunAcquire(w) \/ RunCancelled(w) \/ RunFinish(w) \/ RunEnd(w)
      PROVE  [Runs!Next]_(Runs!vars)
  <2>1. InFlight' = InFlight
    BY <1>6, <1>a
    DEF RunDebounced, RunAcquire, RunCancelled, RunFinish, RunEnd, Goto, Leave, InFlight,
        TypeOK, Proc
  <2> QED
    BY <1>6, <2>1, Invisible
    DEF RunDebounced, RunAcquire, RunCancelled, RunFinish, RunEnd, AbsPhase
<1>7. ASSUME NEW w \in Worker, RunAbandon(w) PROVE [Runs!Next]_(Runs!vars)
  <2>0. /\ pc[w] = "abandon" /\ repo[w] \in Repo /\ state[repo[w]] = "queued"
        /\ main = "stopped"
    BY <1>7, <1>a
    DEF RunAbandon, Alive, GoroutineKinds, Proc, HoldsPC, IndInv, LockHasOneOwner
  <2>r. PICK r \in Repo : r = repo[w]
    BY <2>0
  <2>1. InFlight' = InFlight
    BY <1>7, <2>0, <1>a DEF RunAbandon, Leave, InFlight, TypeOK, Proc
  <2>2. UNCHANGED <<main, enabled>> /\ wanted' = [wanted EXCEPT ![repo[w]] = FALSE]
    BY <1>7 DEF RunAbandon
  <2>3. CASE ~wanted[repo[w]]
    <3>1. wanted' = wanted
      BY <2>0, <2>2, <2>3, <1>a DEF TypeOK
    <3> QED
      BY <2>1, <2>2, <3>1, Invisible DEF AbsPhase
  <2>4. CASE wanted[repo[w]]
    <3>1. repo[w] \notin InFlight
      BY <2>0, InFlightIsRunning
    <3>2. {s \in Repo : wanted'[s]} = {s \in Repo : wanted[s]} \ {repo[w]}
      BY <2>0, <2>2, <1>a, PendingStep DEF TypeOK
    <3>3. Runs!Drop(r)
      BY <2>r, <2>0, <2>1, <2>2, <2>4, <3>1, <3>2 DEF Runs!Drop
    <3> QED
      BY <2>r, <3>3 DEF Runs!Next
  <2> QED
    BY <2>3, <2>4
<1>8. ASSUME NEW w \in Worker, RunStart(w) PROVE [Runs!Next]_(Runs!vars)
  <2>0. pc[w] = "start" /\ repo[w] \in Repo /\ state[repo[w]] = "queued"
    BY <1>8, <1>a DEF RunStart, GoroutineKinds, Proc, HoldsPC, IndInv, LockHasOneOwner
  <2>r. PICK r \in Repo : r = repo[w]
    BY <2>0
  <2>1. InFlight' = InFlight \union {repo[w]}
    BY <1>8, <2>0, <1>a DEF RunStart, Goto, InFlight, TypeOK, Proc
  <2>2. repo[w] \notin InFlight
    BY <2>0, InFlightIsRunning
  <2>3. /\ UNCHANGED <<main, enabled>> /\ main # "exited"
        /\ wanted' = [wanted EXCEPT ![repo[w]] = FALSE]
    BY <1>8 DEF RunStart, Alive
  <2>4. {s \in Repo : wanted'[s]} = {s \in Repo : wanted[s]} \ {repo[w]}
    BY <2>0, <2>3, <1>a, PendingStep DEF TypeOK
  <2>5. Runs!Start(r)
    BY <2>r, <2>1, <2>2, <2>3, <2>4 DEF Runs!Start
  <2> QED
    BY <2>r, <2>5 DEF Runs!Next
<1>9. ASSUME NEW w \in Worker, RunReturns(w) PROVE [Runs!Next]_(Runs!vars)
  <2>0. pc[w] = "exec" /\ repo[w] \in Repo /\ repo[w] \in InFlight
    BY <1>9, <1>a DEF RunReturns, GoroutineKinds, Proc, HoldsPC, InFlight
  <2>1. \A v \in Worker : pc[v] = "exec" /\ repo[v] = repo[w] => v = w
    BY <2>0 DEF IndInv, LockHasOneOwner, HoldsPC, Proc
  <2>2. InFlight' = InFlight \ {repo[w]}
    BY <1>9, <2>0, <2>1, <1>a DEF RunReturns, Goto, InFlight, TypeOK, Proc
  <2>3. Runs!Finish(repo[w])
    BY <1>9, <2>0, <2>2, <1>a DEF RunReturns, Alive, Runs!Finish, TypeOK, Phase
  <2> QED
    BY <2>0, <2>3 DEF Runs!Next
<1>10. ASSUME NEW r \in Repo, NEW w \in Worker, AdoptRun(r, w) PROVE [Runs!Next]_(Runs!vars)
  <2>0. pc[w] = "free" /\ state[r] = "absent"
    BY <1>10 DEF AdoptRun, IndInv, QuietStartup
  <2>1. InFlight' = InFlight \union {r}
    BY <1>10, <2>0, <1>a DEF AdoptRun, InFlight, TypeOK, Proc
  <2>2. r \notin InFlight
    BY <2>0, InFlightIsRunning
  <2>3. Runs!TakeOver(r)
    BY <1>10, <2>1, <2>2 DEF AdoptRun, Runs!TakeOver
  <2> QED
    BY <2>3 DEF Runs!Next
<1>11. CASE SetRouter
  <2>1. InFlight' = InFlight /\ UNCHANGED <<main, wanted>>
    BY <1>11 DEF SetRouter, InFlight
  <2>2. Runs!Configure
    BY <1>11, <2>1, <1>a DEF SetRouter, Runs!Configure, TypeOK, Phase
  <2> QED
    BY <2>2 DEF Runs!Next
<1>12. CASE Serve \/ ShutdownReturns \/ Exit
  <2>1. InFlight' = InFlight /\ UNCHANGED <<enabled, wanted>>
    BY <1>12 DEF Serve, ShutdownReturns, Exit, InFlight
  <2>2. Runs!Advance
    BY <1>12, <2>1 DEF Serve, ShutdownReturns, Exit, Runs!Advance
  <2> QED
    BY <2>2 DEF Runs!Next
<1>13. CASE Sigterm \/ HttpStopped \/ Drained \/ Deadline \/ UNCHANGED vars
  <2>1. InFlight' = InFlight /\ UNCHANGED <<enabled, wanted>>
    BY <1>13 DEF Sigterm, HttpStopped, Drained, Deadline, vars, InFlight
  <2>2. AbsPhase' = AbsPhase
    BY <1>13 DEF Sigterm, HttpStopped, Drained, Deadline, vars, AbsPhase
  <2> QED
    BY <2>1, <2>2, Invisible
<1> QED
  BY <1>1, <1>2, <1>3, <1>4, <1>5, <1>6, <1>7, <1>8, <1>9, <1>10, <1>11, <1>12, <1>13
  DEF Next, CallerStep, WorkerStep, MainStep, Environment, Proc, Caller

(***************************************************************************)
(* The dispatcher keeps the promise of RepoRuns: one run per repository at *)
(* a time, and an accepted event is given up only when the rules disable   *)
(* its repository or Shutdown has cancelled the base context.              *)
(***************************************************************************)
THEOREM Refinement == Spec => ImplementsRepoRuns
<1>1. Init => Runs!Init
  <2> SUFFICES ASSUME Init PROVE Runs!Init
    OBVIOUS
  <2>1. InFlight = {}
    BY DEF Init, InFlight, Proc
  <2> QED
    BY <2>1 DEF Init, Runs!Init
<1> QED
  BY <1>1, RefinementStep, Invariance, PTL DEF Spec, ImplementsRepoRuns, Runs!Safe
===============================================================================
