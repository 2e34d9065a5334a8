---------------------------------- MODULE Jobs ----------------------------------
(***************************************************************************)
(* The server with the memory store and the kubernetes, docker and noop    *)
(* executors, over the end of its process and its restart.  The dispatcher *)
(* is Dispatcher's, step for step; added to it are                         *)
(*   - the Jobs and containers of the runs, which live outside the process *)
(*     and may go on after it, or for ever;                                *)
(*   - the calls that kubernetes.go and docker.go make inside a run, each  *)
(*     of which may fail;                                                  *)
(*   - a new process that adopts the active Jobs it lists (main.go:163).   *)
(*                                                                         *)
(* Whether a Job or container succeeded is only reported, so both ends are *)
(* "finished".                                                             *)
(***************************************************************************)
EXTENDS Dispatcher

CONSTANTS
    Kube,          \* the executors of type kubernetes, ...
    Docker,        \* ... of type docker ...
    Noop,          \* ... and of type noop
    Namespace,     \* Namespace[e]: the namespace of kubernetes executor e
    Daemon,        \* the place of the containers: the local docker daemon
    Object,        \* Jobs and containers (bound: those that exist at one time)
    NoObject,
    NoExecutor

Executor == Kube \union Docker \union Noop

ASSUME ExecutorAssumption ==
    /\ Kube \intersect (Docker \union Noop) = {}
    /\ Docker \intersect Noop = {}
    /\ NoExecutor \notin Executor
ASSUME ObjectAssumption == IsFiniteSet(Object) /\ NoObject \notin Object
ASSUME PlaceAssumption == \A e \in Kube : Namespace[e] # Daemon

VARIABLES
    via,        \* via[w]: the executor of the Job or container worker w waits for
    step,       \* where a worker at "exec" is in its executor
    obj,        \* the Job or container it waits for
    owner,      \* owner[o]: the repository that Job or container o is about ...
    place,      \* ... the namespace or the daemon that it is in ...
    status,     \* ... and how it does
    unlisted,   \* kubernetes executors whose AdoptRunning is still to be called
    found,      \* what the last AdoptRunning returned and main has not adopted yet
    misled      \* history variable: see Mishap

objectVars == <<owner, place, status>>
execVars == <<via, step, obj>>
adoptVars == <<unlisted, found>>
jobVars == <<execVars, objectVars, adoptVars, misled>>
allVars == <<vars, jobVars>>

Step == {"none", "create", "start", "wait", "remove", "done"}

JobsTypeOK ==
    /\ TypeOK
    /\ via \in [Worker -> Executor \union {NoExecutor}]
    /\ step \in [Worker -> Step]
    /\ obj \in [Worker -> Object \union {NoObject}]
    /\ owner \in [Object -> Repo \union {NoRepo}]
    /\ place \in [Object -> {Namespace[e] : e \in Kube} \union {Daemon, NoObject}]
    /\ status \in [Object -> {"none", "created", "active", "finished"}]
    /\ unlisted \subseteq Kube
    /\ found \subseteq Kube \X Object \X Repo
    /\ misled \subseteq Repo

\* The Jobs and containers that use their repository now.
Live == {o \in Object : status[o] = "active"}
Containers == {o \in Object : status[o] # "none" /\ place[o] = Daemon}
LiveOf(r) == {o \in Live : owner[o] = r}

JobsInit ==
    /\ Init
    /\ toAdopt = {}
    /\ enabled = [r \in Repo |-> TRUE]
    /\ via = [w \in Worker |-> NoExecutor]
    /\ step = [w \in Worker |-> "none"]
    /\ obj = [w \in Worker |-> NoObject]
    /\ owner = [o \in Object |-> NoRepo]
    /\ place = [o \in Object |-> NoObject]
    /\ status = [o \in Object |-> "none"]
    /\ unlisted = Kube
    /\ found = {}
    /\ misled = {}

(***************************************************************************)
(* A mishap leaves a Job or container of r behind that the process does    *)
(* not wait for: the answer to a create was lost, a poll failed, the run   *)
(* timeout passed under an active Job, a list failed, a removal failed.    *)
(* The properties about r pause until a restart finds r in order.          *)
(***************************************************************************)
Mishap(rs) == misled' = misled \union rs

------------------------------------------------------------------------------
(***************************************************************************)
(* exec.Run, and the Wait of an adopted run.                               *)
(***************************************************************************)
InRun(w, s) == Alive /\ pc[w] = "exec" /\ step[w] = s

Becomes(o, s) == status' = [status EXCEPT ![o] = s] /\ UNCHANGED <<owner, place>>
Vanishes(o) ==
    /\ status' = [status EXCEPT ![o] = "none"]
    /\ owner' = [owner EXCEPT ![o] = NoRepo]
    /\ place' = [place EXCEPT ![o] = NoObject]
Appears(o, r, l, s) ==
    /\ status' = [status EXCEPT ![o] = s]
    /\ owner' = [owner EXCEPT ![o] = r]
    /\ place' = [place EXCEPT ![o] = l]
At(w, s) == step' = [step EXCEPT ![w] = s]

\* An id that nothing refers to any more.
Fresh(o) ==
    /\ status[o] = "none"
    /\ \A w \in Worker : obj[w] # o
    /\ \A f \in found : f[2] # o

\* exec.Run is called.
JobsStart(w) ==
    /\ RunStart(w)
    /\ At(w, "create")
    /\ UNCHANGED <<via, obj, objectVars, adoptVars, misled>>

\* Run of noop.go, of kubernetes.go when Create fails, and of docker.go when the
\* pull or ContainerCreate fails, as they do once the context is done.
RunsNothing(w) ==
    /\ InRun(w, "create")
    /\ At(w, "done")
    /\ UNCHANGED <<vars, via, obj, objectVars, adoptVars, misled>>

(***************************************************************************)
(* Run of kubernetes.go up to the answer of Create, Run of docker.go up to *)
(* the answer of ContainerCreate: the Job (active from here on) or the     *)
(* container exists, and the caller knows it or got an error.  The         *)
(* executor is the one that the rules named when the run was enqueued:     *)
(* any, since SIGHUP and a restart bring other rules.                      *)
(***************************************************************************)
Create(w, e, o) ==
    /\ InRun(w, "create")
    /\ ~Cancelled
    /\ Fresh(o)
    /\ \/ e \in Kube /\ Appears(o, repo[w], Namespace[e], "active")
       \/ e \in Docker /\ Appears(o, repo[w], Daemon, "created")
    /\ \/ /\ At(w, IF e \in Kube THEN "wait" ELSE "start")
          /\ via' = [via EXCEPT ![w] = e]
          /\ obj' = [obj EXCEPT ![w] = o]
          /\ UNCHANGED misled
       \/ /\ At(w, "done")
          /\ Mishap({repo[w]})
          /\ UNCHANGED <<via, obj>>
    /\ UNCHANGED <<vars, adoptVars>>

\* ContainerStart; when it fails, the container runs or not, and Run returns
\* through the deferred removal.
DockerStart(w) ==
    /\ InRun(w, "start")
    /\ \/ At(w, "wait") /\ ~Cancelled /\ Becomes(obj[w], "active")
       \/ At(w, "remove") /\ UNCHANGED objectVars
       \/ At(w, "remove") /\ ~Cancelled /\ Becomes(obj[w], "active")
    /\ UNCHANGED <<vars, via, obj, adoptVars, misled>>

\* Mutations: waitForJob returns while the Job is active; the run has no timeout.
KubeWaitReturnsEarly(w) ==
    /\ InRun(w, "wait") /\ via[w] \in Kube
    /\ At(w, "done")
    /\ UNCHANGED <<vars, via, obj, objectVars, adoptVars, misled>>

KubeWaitWithoutTimeout(w) ==
    /\ InRun(w, "wait") /\ via[w] \in Kube
    /\ status[obj[w]] # "active" \/ Cancelled
    /\ At(w, "done")
    /\ UNCHANGED <<vars, via, obj, objectVars, adoptVars, misled>>

(***************************************************************************)
(* waitForJob returns: the Job is finished or was removed, or Shutdown has *)
(* cancelled; or, under an active Job, the run timeout has passed or a     *)
(* single Get has failed.                                                  *)
(***************************************************************************)
KubeWait(w) ==
    /\ InRun(w, "wait") /\ via[w] \in Kube
    /\ At(w, "done")
    /\ IF status[obj[w]] = "active" /\ ~Cancelled
         THEN Mishap({repo[w]})
         ELSE UNCHANGED misled
    /\ UNCHANGED <<vars, via, obj, objectVars, adoptVars>>

\* ContainerWait answers or fails, or the context is done: the deferred removal
\* runs in every case.
DockerWait(w) ==
    /\ InRun(w, "wait") /\ via[w] \in Docker
    /\ At(w, "remove")
    /\ UNCHANGED <<vars, via, obj, objectVars, adoptVars, misled>>

\* Mutation: the removal uses the context of the run, which Shutdown has cancelled.
DockerRemoveInRunContext(w) ==
    /\ InRun(w, "remove")
    /\ At(w, "done")
    /\ IF Cancelled THEN UNCHANGED objectVars ELSE Vanishes(obj[w])
    /\ UNCHANGED <<vars, via, obj, adoptVars, misled>>

\* The forced ContainerRemove of the defer, in a context of its own.
DockerRemove(w) ==
    /\ InRun(w, "remove")
    /\ At(w, "done")
    /\ \/ Vanishes(obj[w]) /\ UNCHANGED misled
       \/ Mishap({repo[w]}) /\ UNCHANGED objectVars
    /\ UNCHANGED <<vars, via, obj, adoptVars>>

ExecReturns(w) ==
    /\ InRun(w, "done")
    /\ RunReturns(w)
    /\ At(w, "none")
    /\ via' = [via EXCEPT ![w] = NoExecutor]
    /\ obj' = [obj EXCEPT ![w] = NoObject]
    /\ UNCHANGED <<objectVars, adoptVars, misled>>

------------------------------------------------------------------------------
(***************************************************************************)
(* The cluster and the daemon.                                             *)
(***************************************************************************)

\* A Job or container ends by itself, or the cluster ends the Job at its
\* activeDeadlineSeconds.  It may also never end.
ObjectEnds(o) ==
    /\ status[o] = "active"
    /\ Becomes(o, "finished")
    /\ UNCHANGED <<vars, execVars, adoptVars, misled>>

\* ttlSecondsAfterFinished: the cluster removes a finished Job, waited for or not.
JobExpires(o) ==
    /\ status[o] = "finished" /\ place[o] # Daemon
    /\ Vanishes(o)
    /\ UNCHANGED <<vars, execVars, adoptVars, misled>>

------------------------------------------------------------------------------
(***************************************************************************)
(* The process ends and another one takes over.                            *)
(***************************************************************************)

\* SIGTERM, and 30 seconds later a cancel under the runs still in flight: the
\* phases of Dispatcher's shutdown up to there differ from serving only in the
\* events that no longer come.
ShutdownPastDeadline ==
    /\ main = "serving"
    /\ main' = "stopped"
    /\ expired' = TRUE
    /\ UNCHANGED <<storeVars, enabled, sem, pc, repo, todo, adopted, toAdopt, wanted, jobVars>>

(***************************************************************************)
(* The process ends, wherever its goroutines are, and a new one starts     *)
(* with an empty store.  It finds a repository in order unless containers  *)
(* of it are left, which nothing adopts, or more than one active Job.      *)
(***************************************************************************)
Restart ==
    /\ main' = "startup"
    /\ state' = [r \in Repo |-> "absent"]
    /\ pendingRerun' = [r \in Repo |-> FALSE]
    /\ sem' = 0
    /\ pc' = [p \in Proc |-> "free"]
    /\ repo' = [p \in Proc |-> NoRepo]
    /\ todo' = [j \in CronJob |-> {}]
    /\ adopted' = [w \in Worker |-> FALSE]
    /\ expired' = FALSE
    /\ wanted' = [r \in Repo |-> FALSE]
    /\ via' = [w \in Worker |-> NoExecutor]
    /\ step' = [w \in Worker |-> "none"]
    /\ obj' = [w \in Worker |-> NoObject]
    /\ unlisted' = Kube
    /\ found' = {}
    /\ misled' = {r \in Repo : \/ \E o \in Containers : owner[o] = r
                               \/ Cardinality(LiveOf(r)) > 1}
    /\ UNCHANGED <<enabled, toAdopt, objectVars>>

\* AdoptRunning of one executor: the active Jobs of its namespace, whichever
\* executor created them; or a failure, after which they are not waited for.
KubeList(e) ==
    /\ main = "startup" /\ found = {} /\ e \in unlisted
    /\ unlisted' = unlisted \ {e}
    /\ LET active == {o \in Live : place[o] = Namespace[e]} IN
         \/ found' = {<<e, o, owner[o]>> : o \in active} /\ UNCHANGED misled
         \/ found' = {} /\ Mishap({owner[o] : o \in active})
    /\ UNCHANGED <<vars, execVars, objectVars>>

\* Mutation: Adopt does not lock the repository.
AdoptJobUnlocked(f, w) ==
    /\ main = "startup"
    /\ f \in found
    /\ pc[w] = "free"
    /\ found' = found \ {f}
    /\ pc' = [pc EXCEPT ![w] = "exec"]
    /\ repo' = [repo EXCEPT ![w] = f[3]]
    /\ adopted' = [adopted EXCEPT ![w] = TRUE]
    /\ via' = [via EXCEPT ![w] = f[1]]
    /\ obj' = [obj EXCEPT ![w] = f[2]]
    /\ At(w, "wait")
    /\ UNCHANGED <<storeVars, enabled, sem, todo, toAdopt, main, expired, wanted,
                   objectVars, unlisted, misled>>

\* Dispatcher.Adopt of one of them.
AdoptJob(f, w) ==
    /\ main = "startup"
    /\ f \in found
    /\ pc[w] = "free"
    /\ found' = found \ {f}
    /\ Adopt(f[3])
    /\ pc' = [pc EXCEPT ![w] = "exec"]
    /\ repo' = [repo EXCEPT ![w] = f[3]]
    /\ adopted' = [adopted EXCEPT ![w] = TRUE]
    /\ via' = [via EXCEPT ![w] = f[1]]
    /\ obj' = [obj EXCEPT ![w] = f[2]]
    /\ At(w, "wait")
    /\ UNCHANGED <<enabled, sem, todo, toAdopt, main, expired, wanted,
                   objectVars, unlisted, misled>>

------------------------------------------------------------------------------
\* Steps of the dispatcher that touch neither a route nor an executor.
Plain(A) == A /\ UNCHANGED jobVars

JobsProcStep(p) ==
    \/ Plain(EnqueueRoute(p))
    \/ Plain(EnqueueQueue(p))
    \/ \E w \in Worker : Plain(EnqueueSpawn(p, w))

JobsWorkerStep(w) ==
    \/ JobsProcStep(w)
    \/ Plain(RunDebounced(w))
    \/ Plain(RunAcquire(w))
    \/ Plain(RunCancelled(w))
    \/ Plain(RunAbandon(w))
    \/ JobsStart(w)
    \/ RunsNothing(w)
    \/ \E e \in Executor, o \in Object : Create(w, e, o)
    \/ DockerStart(w)
    \/ KubeWait(w)
    \/ DockerWait(w)
    \/ DockerRemove(w)
    \/ ExecReturns(w)
    \/ Plain(RunFinish(w))
    \/ Plain(RunEnd(w))

JobsMainStep ==
    \/ \E e \in Kube : KubeList(e)
    \/ \E f \in found, w \in Worker : AdoptJob(f, w)
    \/ unlisted = {} /\ found = {} /\ Plain(Serve)

JobsEnvironment ==
    \/ \E h \in Handler, r \in Repo : Plain(HandlerEvent(h, r))
    \/ ShutdownPastDeadline
    \/ Restart
    \/ \E o \in Object : ObjectEnds(o) \/ JobExpires(o)

JobsNext ==
    \/ \E h \in Handler : JobsProcStep(h)
    \/ \E w \in Worker : JobsWorkerStep(w)
    \/ JobsMainStep
    \/ JobsEnvironment

JobsSpec == JobsInit /\ [][JobsNext]_allVars

(***************************************************************************)
(* Fairness: a goroutine that can go on does; a goroutine that waits for a *)
(* Job or container is woken by the timer of its run timeout at the        *)
(* latest.  Blocked senders of the semaphore channel take turns.  Nothing  *)
(* is assumed of the Jobs and containers: they may run for ever.           *)
(***************************************************************************)
JobsFairness ==
    /\ \A h \in Handler : WF_allVars(JobsProcStep(h))
    /\ \A w \in Worker : WF_allVars(JobsWorkerStep(w)) /\ SF_allVars(Plain(RunAcquire(w)))
    /\ WF_allVars(JobsMainStep)

JobsFairSpec == JobsSpec /\ JobsFairness

------------------------------------------------------------------------------
(***************************************************************************)
(* Properties.                                                             *)
(***************************************************************************)

(***************************************************************************)
(* "guarantees a repository never has more than one run in flight"         *)
(* (README.md:6), told of the Jobs and containers themselves: over         *)
(* crashes, restarts, shutdowns past their deadline and rules that move    *)
(* the repository to another executor in between.  A mishap costs this     *)
(* guarantee for the repository it hits only, and only until a restart     *)
(* that finds that repository in order.                                    *)
(***************************************************************************)
OneLiveRun ==
    \A r \in Repo \ misled : Cardinality(LiveOf(r)) <= 1

(***************************************************************************)
(* A server that accepts events has every live Job and container under its *)
(* lock, also the Jobs of the process before it: "Running Kubernetes Jobs  *)
(* are re-adopted on startup" (README.md:191).                             *)
(***************************************************************************)
LiveRunIsLocked ==
    main = "serving" =>
        \A o \in Live : owner[o] \notin misled => state[owner[o]] = "running"

(***************************************************************************)
(* "the container is force-removed afterwards even on cancellation"        *)
(* (docker.go:74-75): whatever failed and whoever cancelled, a container   *)
(* is gone before its run returns.                                         *)
(***************************************************************************)
ContainersAreRemoved ==
    Alive => \A o \in Containers :
        owner[o] \in misled \/ \E w \in Worker : pc[w] = "exec" /\ obj[w] = o

(***************************************************************************)
(* "a stuck run cannot hold a repo lock forever" (README.md:34-35): with   *)
(* Jobs and containers that never end, failing calls, restarts that adopt  *)
(* the stuck Job again and duplicates that unlock each other, every lock   *)
(* is released time and again.                                             *)
(***************************************************************************)
StuckRunsLetGo ==
    \A r \in Repo : []<>(state[r] # "running")

------------------------------------------------------------------------------
(***************************************************************************)
(* The inductive invariant behind them.                                    *)
(***************************************************************************)

\* Where a goroutine is in its executor, and that it has a Job or container
\* exactly from the answer to its create on.
ExecutorKinds ==
    \A w \in Worker :
        /\ pc[w] = "exec" <=> step[w] # "none"
        /\ step[w] \in {"none", "create"} => obj[w] = NoObject
        /\ step[w] \in {"start", "wait", "remove"} => obj[w] \in Object
        /\ step[w] \in {"start", "remove"} => via[w] \in Docker
        /\ step[w] = "start" => status[obj[w]] = "created"
        /\ obj[w] \in Object => via[w] \in Kube \union Docker

\* What exists belongs to a repository and is in a namespace or the daemon; who
\* waits for it, or is about to, knows which.
ObjectKinds ==
    /\ \A o \in Object :
         /\ status[o] # "none" =>
              /\ owner[o] \in Repo
              /\ place[o] \in {Namespace[e] : e \in Kube} \union {Daemon}
         /\ status[o] = "created" => place[o] = Daemon
    /\ \A w \in Worker :
         obj[w] \in Object /\ status[obj[w]] # "none" =>
             /\ owner[obj[w]] = repo[w]
             /\ place[obj[w]] = IF via[w] \in Kube THEN Namespace[via[w]] ELSE Daemon
    /\ \A f \in found :
         status[f[2]] # "none" => owner[f[2]] = f[3] /\ place[f[2]] = Namespace[f[1]]

\* Until main serves, the only goroutines are those of adopted Jobs, and
\* afterwards nothing is left to adopt.
JobsPhases ==
    /\ main \in {"startup", "serving", "stopped"}
    /\ main # "startup" => unlisted = {} /\ found = {}
    /\ main = "startup" =>
         /\ \A p \in Proc : pc[p] \in {"free", "exec", "finish", "return"}
         /\ \A r \in Repo : ~pendingRerun[r]
         /\ \A w \in Worker : step[w] \in {"none", "wait", "done"} /\ via[w] \notin Docker

\* A container has one goroutine, which does not pass the removal without it.
ContainersAreHeld ==
    /\ \A v, w \in Worker : obj[v] \in Object /\ obj[v] = obj[w] /\ via[v] \in Docker => v = w
    /\ \A w \in Worker :
         step[w] = "done" /\ obj[w] \in Containers => owner[obj[w]] \in misled

JobsInv ==
    /\ JobsTypeOK
    /\ GoroutineKinds
    /\ SlotsBounded
    /\ ExecutorKinds
    /\ ObjectKinds
    /\ JobsPhases
    /\ ContainersAreHeld
    /\ ContainersAreRemoved

\* LockHasOneOwner, told of one repository.
LockOf(r) ==
    /\ state[r] # "absent" => \E p \in Proc : Holds(p, r)
    /\ \A p, q \in Proc : Holds(p, r) /\ Holds(q, r) => p = q
    /\ \A p \in Proc :
         Holds(p, r) => state[r] = IF pc[p] \in {"exec", "finish"} THEN "running" ELSE "queued"

\* The Jobs and containers of r that run or can still come to run.
Pending(r) == {o \in Object : status[o] \in {"created", "active"} /\ owner[o] = r}

\* An executor that is still to be asked will report o.
ToBeListed(o) == \E e \in unlisted : place[o] = Namespace[e]

\* Of r, at most one Job is adopted, was reported, or will be.
AdoptedOnce(r) ==
    /\ \A f, g \in found : f[3] = r /\ g[3] = r => f = g
    /\ \A f \in found : f[3] = r => state[r] = "absent"
    /\ \A o \in Pending(r) :
         ToBeListed(o) => state[r] = "absent" /\ \A f \in found : f[3] # r

\* Whatever runs for r, or can come to, is or will be waited for.
Accounted(r) ==
    main # "stopped" =>
        \A o \in Pending(r) :
            \/ ToBeListed(o)
            \/ \E f \in found : f[2] = o
            \/ \E w \in Worker : obj[w] = o /\ step[w] \in {"start", "wait", "remove"}

InOrder(r) ==
    /\ LockOf(r)
    /\ \A o, n \in Pending(r) : o = n
    /\ AdoptedOnce(r)
    /\ Accounted(r)

(***************************************************************************)
(* With a namespace of its own for every executor, a repository that no    *)
(* mishap has hit since the last restart is in order.                      *)
(***************************************************************************)
ReposInOrder == \A r \in Repo \ misled : InOrder(r)
================================================================================
