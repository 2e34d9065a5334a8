------------------------------ MODULE Dispatcher ------------------------------
(***************************************************************************)
(* The run lifecycle of internal/dispatch/dispatcher.go over the memory    *)
(* store, driven by the goroutines that cmd/renovate-server/main.go and    *)
(* internal/server start: HTTP handlers and cron jobs call Enqueue, every  *)
(* queued run has a goroutine of its own, and main adopts the runs found   *)
(* in flight at startup and later shuts the server down.                   *)
(*                                                                         *)
(* One step is one store operation, one channel operation or one atomic    *)
(* pointer access: between two of them every other goroutine may run.      *)
(* Logging, metrics and the history record are local to the step that      *)
(* makes them.  Time is abstract: the debounce timer, the run timeout and  *)
(* the shutdown deadline may fire at any moment after they are armed.      *)
(***************************************************************************)
EXTENDS Store, Integers, FiniteSets

CONSTANTS
    NoRepo,         \* the repository of a goroutine that handles none
    Handler,        \* HTTP goroutines: webhookHandler, triggerHandler
    CronJob,        \* cron goroutines: discover repositories, enqueue each
    Worker,         \* goroutines started by wg.Go in Enqueue and Adopt
    MaxConcurrent   \* capacity of the semaphore channel

Caller == Handler \union CronJob
Proc == Caller \union Worker

ASSUME MaxConcurrentAssumption == MaxConcurrent \in Nat \ {0}
ASSUME WorkerAssumption == IsFiniteSet(Worker)
ASSUME ProcAssumption ==
    /\ Handler \intersect CronJob = {}
    /\ Caller \intersect Worker = {}
ASSUME RepoAssumption == NoRepo \notin Repo

VARIABLES
    enabled,   \* the router: enabled[r] iff r's first matching rule is not disabled
    sem,       \* number of elements in the semaphore channel
    pc,        \* where each goroutine is
    repo,      \* the repository each goroutine is handling
    todo,      \* repositories a cron job still has to enqueue
    adopted,   \* goroutines started by Adopt: they hold no semaphore slot
    toAdopt,   \* in-flight runs the executors report at startup
    main,      \* progress of main.run
    expired,   \* the 30s shutdown context is done
    wanted     \* history variable: an event was accepted after the last run of r started

dispVars == <<enabled, sem, pc, repo, todo, adopted, toAdopt, main, expired, wanted>>
vars == <<state, pendingRerun, enabled, sem, pc, repo, todo, adopted, toAdopt,
          main, expired, wanted>>

(***************************************************************************)
(* Program counters.                                                       *)
(*   Enqueue, by any goroutine: route, queue, spawn                        *)
(*   run, by a worker:          debounce, acquire, start, exec, finish,    *)
(*                              abandon (a select saw the cancelled        *)
(*                              context), return (the deferred receive)    *)
(*   a cron job:                discover, loop                             *)
(***************************************************************************)
PC == {"free", "discover", "loop", "route", "queue", "spawn", "debounce",
       "acquire", "start", "exec", "finish", "abandon", "return"}

Phase == {"startup", "serving", "httpstop", "draining", "drained", "stopped", "exited"}

TypeOK ==
    /\ StoreTypeOK
    /\ enabled \in [Repo -> BOOLEAN]
    /\ sem \in Nat
    /\ pc \in [Proc -> PC]
    /\ repo \in [Proc -> Repo \union {NoRepo}]
    /\ todo \in [CronJob -> SUBSET Repo]
    /\ adopted \in [Worker -> BOOLEAN]
    /\ toAdopt \in SUBSET Repo
    /\ main \in Phase
    /\ expired \in BOOLEAN
    /\ wanted \in [Repo -> BOOLEAN]

(***************************************************************************)
(* The process has just built its router, an empty memory store and an     *)
(* empty semaphore; AdoptRunning reports at most one run per repository.   *)
(***************************************************************************)
Init ==
    /\ StoreInit
    /\ enabled \in [Repo -> BOOLEAN]
    /\ sem = 0
    /\ pc = [p \in Proc |-> "free"]
    /\ repo = [p \in Proc |-> NoRepo]
    /\ todo = [j \in CronJob |-> {}]
    /\ adopted = [w \in Worker |-> FALSE]
    /\ toAdopt \in SUBSET Repo
    /\ main = "startup"
    /\ expired = FALSE
    /\ wanted = [r \in Repo |-> FALSE]

\* Mutation: Shutdown cancels baseCtx before it waits.
CancelledWhileDraining == main \in {"draining", "drained", "stopped"}

\* baseCtx is done: Shutdown has called cancel.
Cancelled == main = "stopped"

\* The goroutines of the process still run.
Alive == main # "exited"

Goto(p, l) == pc' = [pc EXCEPT ![p] = l]

\* What a goroutine does after Enqueue: a handler answers and ends, a cron job
\* goes on with its list, the goroutine of a finished run returns.
AfterEnqueue(p) ==
    CASE p \in Handler -> "free"
      [] p \in CronJob -> "loop"
      [] OTHER         -> "return"

\* Goroutine p is at l and done with its repository.
Leave(p, l) ==
    /\ pc' = [pc EXCEPT ![p] = l]
    /\ repo' = [repo EXCEPT ![p] = NoRepo]

------------------------------------------------------------------------------
(***************************************************************************)
(* The callers of Enqueue.                                                 *)
(***************************************************************************)

(***************************************************************************)
(* A webhook that parsed to an event, or an authorised manual trigger.     *)
(***************************************************************************)
HandlerEvent(h, r) ==
    /\ main = "serving"
    /\ pc[h] = "free"
    /\ pc' = [pc EXCEPT ![h] = "route"]
    /\ repo' = [repo EXCEPT ![h] = r]
    /\ UNCHANGED <<storeVars, enabled, sem, todo, adopted, toAdopt, main, expired, wanted>>

(***************************************************************************)
(* A crontab fires; sched.Stop keeps new ones from firing.                 *)
(***************************************************************************)
CronFire(j) ==
    /\ main = "serving"
    /\ pc[j] = "free"
    /\ Goto(j, "discover")
    /\ UNCHANGED <<storeVars, enabled, sem, repo, todo, adopted, toAdopt, main, expired, wanted>>

(***************************************************************************)
(* DiscoverRepos fails (an error of the platform, or the signal context is *)
(* done) and the job ends, or it returns the repositories to enqueue.      *)
(***************************************************************************)
CronDiscover(j) ==
    /\ Alive
    /\ pc[j] = "discover"
    /\ \/ Goto(j, "free") /\ UNCHANGED todo
       \/ Goto(j, "loop") /\ \E rs \in SUBSET Repo : todo' = [todo EXCEPT ![j] = rs]
    /\ UNCHANGED <<storeVars, enabled, sem, repo, adopted, toAdopt, main, expired, wanted>>

(***************************************************************************)
(* The next iteration of the cron job's loop, or its end.                  *)
(***************************************************************************)
CronLoop(j) ==
    /\ Alive
    /\ pc[j] = "loop"
    /\ \/ \E r \in todo[j] :
            /\ pc' = [pc EXCEPT ![j] = "route"]
            /\ repo' = [repo EXCEPT ![j] = r]
            /\ todo' = [todo EXCEPT ![j] = @ \ {r}]
       \/ /\ todo[j] = {}
          /\ Leave(j, "free")
          /\ UNCHANGED todo
    /\ UNCHANGED <<storeVars, enabled, sem, adopted, toAdopt, main, expired, wanted>>

------------------------------------------------------------------------------
(***************************************************************************)
(* Enqueue: route, queue, start a goroutine.                               *)
(***************************************************************************)

\* Mutation: the route's Disabled field is not looked at.
EnqueueRouteIgnoresRules(p) ==
    /\ Alive
    /\ pc[p] = "route"
    /\ Goto(p, "queue")
    /\ UNCHANGED <<storeVars, enabled, sem, repo, todo, adopted, toAdopt, main, expired, wanted>>

(***************************************************************************)
(* Load the router and match the repository; a disabled one is ignored.    *)
(* When the ignored event is a deferred rerun, the events it stood for are *)
(* given up with it, unless another caller has queued the repository.      *)
(***************************************************************************)
EnqueueRoute(p) ==
    /\ Alive
    /\ pc[p] = "route"
    /\ LET r == repo[p] IN
         \/ /\ enabled[r]
            /\ Goto(p, "queue")
            /\ UNCHANGED <<repo, wanted>>
         \/ /\ ~enabled[r]
            /\ Leave(p, AfterEnqueue(p))
            /\ wanted' = [wanted EXCEPT ![r] =
                            @ /\ ~(p \in Worker /\ state[r] = "absent")]
    /\ UNCHANGED <<storeVars, enabled, sem, todo, adopted, toAdopt, main, expired>>

(***************************************************************************)
(* store.Queue: only a Queued answer leads to a new goroutine.             *)
(***************************************************************************)
EnqueueQueue(p) ==
    /\ Alive
    /\ pc[p] = "queue"
    /\ LET r == repo[p] IN
         /\ Queue(r)
         /\ IF QueueResult(state[r]) = "Queued"
              THEN Goto(p, "spawn") /\ UNCHANGED repo
              ELSE Leave(p, AfterEnqueue(p))
         /\ wanted' = [wanted EXCEPT ![r] = @ \/ p \in Caller]
    /\ UNCHANGED <<enabled, sem, todo, adopted, toAdopt, main, expired>>

(***************************************************************************)
(* wg.Go: a new goroutine runs the repository.                             *)
(***************************************************************************)
EnqueueSpawn(p, w) ==
    /\ Alive
    /\ pc[p] = "spawn"
    /\ pc[w] = "free"
    /\ pc' = [pc EXCEPT ![p] = AfterEnqueue(p), ![w] = "debounce"]
    /\ repo' = [repo EXCEPT ![p] = NoRepo, ![w] = repo[p]]
    /\ adopted' = [adopted EXCEPT ![w] = FALSE]
    /\ UNCHANGED <<storeVars, enabled, sem, todo, toAdopt, main, expired, wanted>>

------------------------------------------------------------------------------
(***************************************************************************)
(* run: the goroutine of one run.                                          *)
(***************************************************************************)

\* time.After(Debounce) fired.
RunDebounced(w) ==
    /\ Alive
    /\ pc[w] = "debounce"
    /\ Goto(w, "acquire")
    /\ UNCHANGED <<storeVars, enabled, sem, repo, todo, adopted, toAdopt, main, expired, wanted>>

\* d.sem <- struct{}{} went through.
RunAcquire(w) ==
    /\ Alive
    /\ pc[w] = "acquire"
    /\ sem < MaxConcurrent
    /\ sem' = sem + 1
    /\ Goto(w, "start")
    /\ UNCHANGED <<storeVars, enabled, repo, todo, adopted, toAdopt, main, expired, wanted>>

\* Either select took <-baseCtx.Done(); with both cases ready Go picks any.
RunCancelled(w) ==
    /\ Cancelled
    /\ pc[w] \in {"debounce", "acquire"}
    /\ Goto(w, "abandon")
    /\ UNCHANGED <<storeVars, enabled, sem, repo, todo, adopted, toAdopt, main, expired, wanted>>

\* Mutation: a cancelled select returns without FinishRun.
RunAbandonKeepsLock(w) ==
    /\ Alive
    /\ pc[w] = "abandon"
    /\ wanted' = [wanted EXCEPT ![repo[w]] = FALSE]
    /\ Leave(w, "free")
    /\ UNCHANGED <<storeVars, enabled, sem, todo, adopted, toAdopt, main, expired>>

\* The FinishRun and return of a cancelled select.
RunAbandon(w) ==
    /\ Alive
    /\ pc[w] = "abandon"
    /\ FinishRun(repo[w])
    /\ wanted' = [wanted EXCEPT ![repo[w]] = FALSE]
    /\ Leave(w, "free")
    /\ UNCHANGED <<enabled, sem, todo, adopted, toAdopt, main, expired>>

\* store.StartRun and the call of exec.Run: from here on the run is in flight.
RunStart(w) ==
    /\ Alive
    /\ pc[w] = "start"
    /\ StartRun(repo[w])
    /\ wanted' = [wanted EXCEPT ![repo[w]] = FALSE]
    /\ Goto(w, "exec")
    /\ UNCHANGED <<enabled, sem, repo, todo, adopted, toAdopt, main, expired>>

\* exec.Run (or an adopted run's Wait) returned: success, failure, run timeout
\* or cancellation.  finish then updates the metrics and the run history.
RunReturns(w) ==
    /\ Alive
    /\ pc[w] = "exec"
    /\ Goto(w, "finish")
    /\ UNCHANGED <<storeVars, enabled, sem, repo, todo, adopted, toAdopt, main, expired, wanted>>

\* Mutation: the answer of FinishRun is ignored.
RunFinishIgnoresRerun(w) ==
    /\ Alive
    /\ pc[w] = "finish"
    /\ FinishRun(repo[w])
    /\ Leave(w, "return")
    /\ UNCHANGED <<enabled, sem, todo, adopted, toAdopt, main, expired, wanted>>

\* store.FinishRun in finish: a pending rerun goes through Enqueue again.
RunFinish(w) ==
    /\ Alive
    /\ pc[w] = "finish"
    /\ FinishRun(repo[w])
    /\ IF pendingRerun[repo[w]]
         THEN Goto(w, "route") /\ UNCHANGED repo
         ELSE Leave(w, "return")
    /\ UNCHANGED <<enabled, sem, todo, adopted, toAdopt, main, expired, wanted>>

\* Mutations: the deferred receive is missing; adopted goroutines receive too.
RunEndKeepsSlot(w) ==
    /\ Alive
    /\ pc[w] = "return"
    /\ adopted' = [adopted EXCEPT ![w] = FALSE]
    /\ Leave(w, "free")
    /\ UNCHANGED <<storeVars, enabled, sem, todo, toAdopt, main, expired, wanted>>

RunEndAlwaysReceives(w) ==
    /\ Alive
    /\ pc[w] = "return"
    /\ sem' = sem - 1
    /\ adopted' = [adopted EXCEPT ![w] = FALSE]
    /\ Leave(w, "free")
    /\ UNCHANGED <<storeVars, enabled, todo, toAdopt, main, expired, wanted>>

\* The goroutine ends; run's deferred receive frees its semaphore slot.
RunEnd(w) ==
    /\ Alive
    /\ pc[w] = "return"
    /\ sem' = IF adopted[w] THEN sem ELSE sem - 1
    /\ adopted' = [adopted EXCEPT ![w] = FALSE]
    /\ Leave(w, "free")
    /\ UNCHANGED <<storeVars, enabled, todo, toAdopt, main, expired, wanted>>

------------------------------------------------------------------------------
(***************************************************************************)
(* main.run: adoption, serving, reload, shutdown.                          *)
(***************************************************************************)

(***************************************************************************)
(* Adopt: lock the repository and wait for its run in a goroutine that     *)
(* takes no semaphore slot.                                                *)
(***************************************************************************)
AdoptRun(r, w) ==
    /\ main = "startup"
    /\ r \in toAdopt
    /\ pc[w] = "free"
    /\ Adopt(r)
    /\ toAdopt' = toAdopt \ {r}
    /\ pc' = [pc EXCEPT ![w] = "exec"]
    /\ repo' = [repo EXCEPT ![w] = r]
    /\ adopted' = [adopted EXCEPT ![w] = TRUE]
    /\ UNCHANGED <<enabled, sem, todo, main, expired, wanted>>

\* sched.Start, ListenAndServe.
Serve ==
    /\ main = "startup"
    /\ toAdopt = {}
    /\ main' = "serving"
    /\ UNCHANGED <<storeVars, enabled, sem, pc, repo, todo, adopted, toAdopt, expired, wanted>>

\* SIGHUP with a valid new configuration: SetRouter, at any time while main serves
\* or shuts down.
SetRouter ==
    /\ main \notin {"startup", "exited"}
    /\ enabled' \in [Repo -> BOOLEAN]
    /\ UNCHANGED <<storeVars, sem, pc, repo, todo, adopted, toAdopt, main, expired, wanted>>

\* SIGTERM: sched.Stop, then httpServer.Shutdown stops listening.
Sigterm ==
    /\ main = "serving"
    /\ main' = "httpstop"
    /\ UNCHANGED <<storeVars, enabled, sem, pc, repo, todo, adopted, toAdopt, expired, wanted>>

\* httpServer.Shutdown returns: no handler is active, or the deadline has passed.
HttpStopped ==
    /\ main = "httpstop"
    /\ expired \/ \A h \in Handler : pc[h] = "free"
    /\ main' = "draining"
    /\ UNCHANGED <<storeVars, enabled, sem, pc, repo, todo, adopted, toAdopt, expired, wanted>>

\* Mutation: a goroutine counts as done before it has enqueued its rerun.
DrainedBeforeReruns ==
    /\ main = "draining"
    /\ \A w \in Worker : pc[w] \in {"free", "route", "queue", "spawn", "return"}
    /\ main' = "drained"
    /\ UNCHANGED <<storeVars, enabled, sem, pc, repo, todo, adopted, toAdopt, expired, wanted>>

\* wg.Wait returns in Dispatcher.Shutdown: no goroutine it counts is left.
Drained ==
    /\ main = "draining"
    /\ \A w \in Worker : pc[w] = "free"
    /\ main' = "drained"
    /\ UNCHANGED <<storeVars, enabled, sem, pc, repo, todo, adopted, toAdopt, expired, wanted>>

\* The select in Dispatcher.Shutdown took a case, and cancel was called.
ShutdownReturns ==
    /\ main = "drained" \/ (main = "draining" /\ expired)
    /\ main' = "stopped"
    /\ UNCHANGED <<storeVars, enabled, sem, pc, repo, todo, adopted, toAdopt, expired, wanted>>

\* The 30 seconds of the shutdown context are over.
Deadline ==
    /\ main \in {"httpstop", "draining", "drained"}
    /\ ~expired
    /\ expired' = TRUE
    /\ UNCHANGED <<storeVars, enabled, sem, pc, repo, todo, adopted, toAdopt, main, wanted>>

\* main returns, after Shutdown or because ListenAndServe failed: the process
\* ends with all its goroutines, and the memory store with it.
Exit ==
    /\ main \in {"serving", "stopped"}
    /\ main' = "exited"
    /\ UNCHANGED <<storeVars, enabled, sem, pc, repo, todo, adopted, toAdopt, expired, wanted>>

------------------------------------------------------------------------------
CallerStep(c) ==
    \/ c \in CronJob /\ (CronDiscover(c) \/ CronLoop(c))
    \/ EnqueueRoute(c)
    \/ EnqueueQueue(c)
    \/ \E w \in Worker : EnqueueSpawn(c, w)

WorkerStep(w) ==
    \/ EnqueueRoute(w)
    \/ EnqueueQueue(w)
    \/ \E v \in Worker : EnqueueSpawn(w, v)
    \/ RunDebounced(w)
    \/ RunAcquire(w)
    \/ RunCancelled(w)
    \/ RunAbandon(w)
    \/ RunStart(w)
    \/ RunReturns(w)
    \/ RunFinish(w)
    \/ RunEnd(w)

MainStep ==
    \/ \E r \in Repo, w \in Worker : AdoptRun(r, w)
    \/ Serve
    \/ HttpStopped
    \/ Drained
    \/ ShutdownReturns
    \/ Deadline

Environment ==
    \/ \E h \in Handler, r \in Repo : HandlerEvent(h, r)
    \/ \E j \in CronJob : CronFire(j)
    \/ SetRouter
    \/ Sigterm
    \/ Exit

Next ==
    \/ \E c \in Caller : CallerStep(c)
    \/ \E w \in Worker : WorkerStep(w)
    \/ MainStep
    \/ Environment

Spec == Init /\ [][Next]_vars

(***************************************************************************)
(* Fairness.  A goroutine that can go on does (the Go scheduler is fair,   *)
(* timers fire, an executor returns at the run timeout at the latest).     *)
(* Blocked senders of a Go channel are served first come first served, so  *)
(* a goroutine waiting for the semaphore is not overtaken for ever: its    *)
(* acquisition is strongly fair.  Events, reloads and signals are not      *)
(* fair.                                                                   *)
(***************************************************************************)
Fairness ==
    /\ \A c \in Caller : WF_vars(CallerStep(c))
    /\ \A w \in Worker : WF_vars(WorkerStep(w)) /\ SF_vars(RunAcquire(w))
    /\ WF_vars(MainStep)

FairSpec == Spec /\ Fairness

------------------------------------------------------------------------------
(***************************************************************************)
(* Properties.                                                             *)
(***************************************************************************)

\* Goroutine p answers for the store entry of repository r.
HoldsPC == {"spawn", "debounce", "acquire", "start", "exec", "finish", "abandon"}
Holds(p, r) == pc[p] \in HoldsPC /\ repo[p] = r

\* Goroutine w has removed r's entry and is about to enqueue its deferred rerun.
Requeues(w, r) == pc[w] \in {"route", "queue"} /\ repo[w] = r

\* Goroutines that have sent to the semaphore channel and not yet received from it.
SlotPC == {"start", "exec", "finish", "route", "queue", "spawn", "return"}
SlotHolders == {w \in Worker : ~adopted[w] /\ pc[w] \in SlotPC}

InFlight == {r \in Repo : \E w \in Worker : pc[w] = "exec" /\ repo[w] = r}

(***************************************************************************)
(* "guarantees a repository never has more than one run in flight"         *)
(* (README.md:6): no two goroutines are inside exec.Run or Wait for the    *)
(* same repository, whatever webhooks, cron jobs, reruns and adopted runs  *)
(* interleave.                                                             *)
(***************************************************************************)
MutualExclusion ==
    \A v, w \in Worker :
        pc[v] = "exec" /\ pc[w] = "exec" /\ repo[v] = repo[w] => v = w

(***************************************************************************)
(* A store entry is a lock with exactly one responsible goroutine, from    *)
(* the Queue that answered Queued (or Adopt) to the FinishRun that deletes *)
(* it: no entry is orphaned (it would swallow every later event) and none  *)
(* is shared (its run could be doubled), and the entry says "running"      *)
(* exactly while its goroutine is between StartRun and FinishRun.          *)
(***************************************************************************)
LockHasOneOwner ==
    /\ \A r \in Repo : state[r] # "absent" => \E p \in Proc : Holds(p, r)
    /\ \A p, q \in Proc :
         pc[p] \in HoldsPC /\ pc[q] \in HoldsPC /\ repo[p] = repo[q] => p = q
    /\ \A p \in Proc :
         pc[p] \in HoldsPC =>
           state[repo[p]] = IF pc[p] \in {"exec", "finish"} THEN "running" ELSE "queued"

(***************************************************************************)
(* An event accepted by Queue is never forgotten: until a run that starts  *)
(* after it, either the repository is queued, or the run in flight carries *)
(* a pending rerun, or the goroutine of a finished run is on its way to    *)
(* enqueue that rerun (finish calls FinishRun and Enqueue in two steps).   *)
(***************************************************************************)
NoLostTrigger ==
    \A r \in Repo :
        wanted[r] =>
            \/ state[r] = "queued"
            \/ state[r] = "running" /\ pendingRerun[r]
            \/ state[r] = "absent" /\ \E w \in Worker : Requeues(w, r)

(***************************************************************************)
(* The semaphore counts the goroutines that hold a slot, and never exceeds *)
(* maxConcurrentRuns: run's deferred receive is paired with its send on    *)
(* every path, also through the rerun of finish.                           *)
(***************************************************************************)
SlotsBounded ==
    /\ sem = Cardinality(SlotHolders)
    /\ sem <= MaxConcurrent

(***************************************************************************)
(* When Shutdown returns without hitting its deadline, every accepted      *)
(* event has been served: the reruns enqueued while wg.Wait was waiting    *)
(* were waited for too.  It is a property of servers without crontabs:     *)
(* sched.Stop does not wait for a running cron job, which may enqueue      *)
(* after wg.Wait has returned.                                             *)
(***************************************************************************)
CleanShutdown ==
    main = "stopped" /\ ~expired => \A r \in Repo : ~wanted[r] /\ r \notin InFlight

(***************************************************************************)
(* Once the rules disable a repository for good, its runs cease: neither   *)
(* deferred reruns nor events that were routed by the old rules keep it    *)
(* running for ever.                                                       *)
(***************************************************************************)
DisabledRepoGoesQuiet ==
    \A r \in Repo : <>[](~enabled[r]) => <>[](r \notin InFlight \/ main = "exited")

(***************************************************************************)
(* "Global cap on parallel runs" (README.md:78): maxConcurrentRuns bounds  *)
(* the runs in flight, however they came about.                            *)
(***************************************************************************)
GlobalCap == Cardinality({w \in Worker : pc[w] = "exec"}) <= MaxConcurrent

------------------------------------------------------------------------------
(***************************************************************************)
(* The inductive invariant behind the safety properties.                   *)
(***************************************************************************)

\* Which goroutine can be where, and when its repository and its adopted flag count;
\* a run is abandoned only after Shutdown has cancelled the base context.
GoroutineKinds ==
    /\ \A c \in Caller : pc[c] \in {"free", "discover", "loop", "route", "queue", "spawn"}
    /\ \A p \in Proc : pc[p] \in HoldsPC \union {"route", "queue"} => repo[p] \in Repo
    /\ \A w \in Worker :
         pc[w] \in {"free", "debounce", "acquire", "start", "abandon"} => ~adopted[w]
    /\ \A w \in Worker : pc[w] = "abandon" => main \in {"stopped", "exited"}

\* While main adopts, no event has been accepted, so nothing is queued or
\* rerun and a run still to be adopted finds no entry of its repository.
QuietStartup ==
    main = "startup" =>
        /\ \A p \in Proc : pc[p] \in {"free", "exec", "finish", "return"}
        /\ \A r \in Repo : ~wanted[r] /\ ~pendingRerun[r]
        /\ \A r \in toAdopt : state[r] = "absent"

\* Only a running entry carries a pending rerun.
RerunWhileRunning == \A r \in Repo : pendingRerun[r] => state[r] = "running"

(***************************************************************************)
(* The conjunction that every step of Enqueue, run, finish, Adopt and      *)
(* Shutdown preserves; MutualExclusion follows from it.                    *)
(***************************************************************************)
IndInv ==
    /\ TypeOK
    /\ GoroutineKinds
    /\ QuietStartup
    /\ RerunWhileRunning
    /\ LockHasOneOwner
    /\ NoLostTrigger
    /\ SlotsBounded

------------------------------------------------------------------------------
(***************************************************************************)
(* The dispatcher implements RepoRuns: the accepted events are wanted, the *)
(* runs in flight are the goroutines at exec, and the shutdown of main is  *)
(* cut down to the moments that matter to a sender of events.              *)
(***************************************************************************)
Runs == INSTANCE RepoRuns WITH
    phase   <- CASE main = "startup" -> "starting"
                 [] main = "stopped" -> "cancelled"
                 [] main = "exited"  -> "over"
                 [] OTHER            -> "up",
    enabled <- {r \in Repo : enabled[r]},
    pending <- {r \in Repo : wanted[r]},
    running <- InFlight

(***************************************************************************)
(* Every step of every goroutine is a step RepoRuns allows, or none.       *)
(***************************************************************************)
ImplementsRepoRuns == Runs!Safe

(***************************************************************************)
(* Under the fairness of the Go runtime every accepted event is served or  *)
(* given up for a stated reason, and every run ends.                       *)
(***************************************************************************)
EveryEventIsServed == Runs!Live
===============================================================================
