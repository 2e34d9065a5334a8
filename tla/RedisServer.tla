------------------------------ MODULE RedisServer ------------------------------
(***************************************************************************)
(* The server with the redis store and the gitlabPipeline executor, over   *)
(* crashes and restarts.  The dispatcher is Dispatcher's, step for step;   *)
(* added to it are                                                         *)
(*   - the lifetime of the redis keys (redis.go): every script refreshes   *)
(*     the expiry of the entry it touches, a run handle keeps the one it   *)
(*     was saved with;                                                     *)
(*   - redis calls that fail, before or after they took effect;            *)
(*   - the steps of gitlabci.go inside a run: trigger the pipeline, save   *)
(*     its handle, poll it, delete the handle;                             *)
(*   - the end of the process at any moment, and a new process that adopts *)
(*     saved handles and re-enqueues queued entries (main.go:162-199).     *)
(*                                                                         *)
(* Time passes in Ticks, and only during waits: for the semaphore, for a   *)
(* pipeline, and for the process to be started again.                      *)
(***************************************************************************)
EXTENDS Dispatcher

CONSTANTS
    Pipeline,     \* pipelines of the runner project
    NoPipeline,
    Recovery,     \* main's store recovery loop, a member of CronJob
    TTL,          \* store.redis.ttl, in ticks
    RunTimeout,   \* server.runTimeout, in ticks
    Failing,      \* the calls that may fail: "queue", "start", "finish", "adopt",
                  \* "load", "snapshot", "trigger", "save", "poll", "delete"
    LongRuns,     \* TRUE: a pipeline may run longer than RunTimeout
    LongQueue,    \* TRUE: the runs of other repositories may crowd the semaphore
    LongOutage,   \* TRUE: ticks may pass while no process runs
    FastPoll,     \* TRUE: an adopted run may end before the recovery loop has
    Stops,        \* TRUE: the process may be asked to stop (SIGTERM)
    MaxCrashes    \* bound on the number of crashes

ASSUME TimeAssumption ==
    /\ RunTimeout \in Nat
    /\ TTL \in Nat
    /\ RunTimeout < TTL
ASSUME RecoveryAssumption == Recovery \in CronJob
ASSUME PipelineAssumption == NoPipeline \notin Pipeline
ASSUME CrashAssumption == MaxCrashes \in Nat

VARIABLES
    ttl,         \* ttl[r]: ticks until r's entry expires, 0 when there is none
    handle,      \* handle[r]: the pipeline of r's saved run handle
    handleTtl,   \* ticks until the handle expires
    step,        \* where a worker at "exec" is in gitlabci's Run or in an adopted Wait
    pipe,        \* the pipeline it waits for
    live,        \* live[i]: the repository pipeline i is running for
    runtime,     \* ticks since pipeline i was triggered, up to RunTimeout
    waited,      \* waited[w]: ticks since the context of w's run was made
    crowded,     \* repositories outside the instance use the slots, and are first in line
    recovered,   \* main has been through the store recovery
    crashes

redisVars == <<ttl, handle, handleTtl>>
execVars == <<step, pipe, live, runtime, waited>>
ctlVars == <<crowded, recovered, crashes>>
allVars == <<vars, redisVars, execVars, ctlVars>>

Step == {"none", "trigger", "save", "poll", "delete", "done"}

RedisTypeOK ==
    /\ TypeOK
    /\ ttl \in [Repo -> 0..TTL]
    /\ handle \in [Repo -> Pipeline \union {NoPipeline}]
    /\ handleTtl \in [Repo -> 0..TTL]
    /\ step \in [Worker -> Step]
    /\ pipe \in [Worker -> Pipeline \union {NoPipeline}]
    /\ live \in [Pipeline -> Repo \union {NoRepo}]
    /\ runtime \in [Pipeline -> 0..RunTimeout]
    /\ waited \in [Worker -> 0..RunTimeout]
    /\ crowded \in BOOLEAN
    /\ recovered \in BOOLEAN
    /\ crashes \in 0..MaxCrashes

\* The first process, on an empty redis; the rules disable nothing and are not
\* reloaded (Dispatcher is about that).
RedisInit ==
    /\ Init
    /\ toAdopt = {}
    /\ enabled = [r \in Repo |-> TRUE]
    /\ ttl = [r \in Repo |-> 0]
    /\ handle = [r \in Repo |-> NoPipeline]
    /\ handleTtl = [r \in Repo |-> 0]
    /\ step = [w \in Worker |-> "none"]
    /\ pipe = [w \in Worker |-> NoPipeline]
    /\ live = [i \in Pipeline |-> NoRepo]
    /\ runtime = [i \in Pipeline |-> 0]
    /\ waited = [w \in Worker |-> 0]
    /\ crowded = FALSE
    /\ recovered = FALSE
    /\ crashes = 0

\* Mutation: entries live only as long as the longest run.
TouchForOneRun(r) == ttl' = [ttl EXCEPT ![r] = RunTimeout]

\* EXPIRE on r's entry, and DEL of it.
Touch(r) == ttl' = [ttl EXCEPT ![r] = TTL]
Forget(r) == ttl' = [ttl EXCEPT ![r] = 0]

\* SaveRunHandle, DeleteRunHandle and LoadRunHandles.
PutHandle(r, i) ==
    /\ handle' = [handle EXCEPT ![r] = i]
    /\ handleTtl' = [handleTtl EXCEPT ![r] = TTL]
DropHandle(r) ==
    /\ handle' = [handle EXCEPT ![r] = NoPipeline]
    /\ handleTtl' = [handleTtl EXCEPT ![r] = 0]
SavedHandles == {r \in Repo : handle[r] # NoPipeline}
KeepHandles == UNCHANGED <<handle, handleTtl>>

------------------------------------------------------------------------------
(***************************************************************************)
(* Enqueue against redis.                                                  *)
(***************************************************************************)

\* queueScript: all three outcomes refresh the expiry.
RedisQueue(p) ==
    /\ EnqueueQueue(p)
    /\ Touch(repo[p])
    /\ KeepHandles
    /\ UNCHANGED <<execVars, ctlVars>>

\* The call fails: Queue answers Coalesced, whether or not the script ran.
RedisQueueFails(p) ==
    /\ Alive
    /\ "queue" \in Failing
    /\ pc[p] = "queue"
    /\ \/ UNCHANGED <<storeVars, ttl>>
       \/ Queue(repo[p]) /\ Touch(repo[p])
    /\ Leave(p, AfterEnqueue(p))
    /\ KeepHandles
    /\ UNCHANGED <<enabled, sem, todo, adopted, toAdopt, main, expired, wanted, execVars, ctlVars>>

------------------------------------------------------------------------------
(***************************************************************************)
(* run and finish against redis.                                           *)
(***************************************************************************)

\* startRunScript refreshes the expiry of an entry that exists; then exec.Run.
RedisStart(w) ==
    /\ RunStart(w)
    /\ IF state[repo[w]] = "absent" THEN UNCHANGED ttl ELSE Touch(repo[w])
    /\ step' = [step EXCEPT ![w] = "trigger"]
    /\ KeepHandles
    /\ UNCHANGED <<pipe, live, runtime, waited, ctlVars>>

\* StartRun logs the failure, and the run goes on.  (When the script ran and
\* only its answer was lost, this is RedisStart.)
RedisStartFails(w) ==
    /\ Alive
    /\ "start" \in Failing
    /\ pc[w] = "start"
    /\ wanted' = [wanted EXCEPT ![repo[w]] = FALSE]
    /\ Goto(w, "exec")
    /\ step' = [step EXCEPT ![w] = "trigger"]
    /\ UNCHANGED <<storeVars, enabled, sem, repo, todo, adopted, toAdopt, main, expired,
                   redisVars, pipe, live, runtime, waited, ctlVars>>

RedisFinish(w) ==
    /\ RunFinish(w) \/ RunAbandon(w)
    /\ Forget(repo[w])
    /\ KeepHandles
    /\ UNCHANGED <<execVars, ctlVars>>

\* FinishRun answers FALSE, whether or not the script ran.
RedisFinishFails(w) ==
    /\ Alive
    /\ "finish" \in Failing
    /\ pc[w] \in {"finish", "abandon"}
    /\ \/ UNCHANGED <<storeVars, ttl>>
       \/ FinishRun(repo[w]) /\ Forget(repo[w])
    /\ Leave(w, IF pc[w] = "finish" THEN "return" ELSE "free")
    /\ KeepHandles
    /\ UNCHANGED <<enabled, sem, todo, adopted, toAdopt, main, expired, wanted, execVars, ctlVars>>

------------------------------------------------------------------------------
(***************************************************************************)
(* gitlabci.Executor.Run, and the Wait of an adopted run.                  *)
(***************************************************************************)
InRun(w, s) == Alive /\ pc[w] = "exec" /\ step[w] = s

\* A pipeline id that nothing refers to any more.
Fresh(i) ==
    /\ live[i] = NoRepo
    /\ \A w \in Worker : pipe[w] # i
    /\ \A r \in Repo : handle[r] # i

\* RunPipelineTrigger: the pipeline exists; or the call failed without one (as it
\* does when the context is done already); or its answer was lost and nobody
\* knows the pipeline.
Trigger(w) ==
    /\ InRun(w, "trigger")
    /\ \/ \E i \in Pipeline :
            /\ Fresh(i)
            /\ ~Cancelled
            /\ live' = [live EXCEPT ![i] = repo[w]]
            /\ runtime' = [runtime EXCEPT ![i] = 0]
            /\ \/ /\ pipe' = [pipe EXCEPT ![w] = i]
                  /\ step' = [step EXCEPT ![w] = "save"]
               \/ /\ "trigger" \in Failing
                  /\ step' = [step EXCEPT ![w] = "done"]
                  /\ UNCHANGED pipe
       \/ /\ step' = [step EXCEPT ![w] = "done"]
          /\ UNCHANGED <<pipe, live, runtime>>
    /\ UNCHANGED <<vars, redisVars, waited, ctlVars>>

\* SaveRunHandle: SET with the TTL, or a logged failure.
SaveHandle(w) ==
    /\ InRun(w, "save")
    /\ step' = [step EXCEPT ![w] = "poll"]
    /\ \/ PutHandle(repo[w], pipe[w])
       \/ "save" \in Failing /\ KeepHandles
    /\ UNCHANGED <<vars, ttl, pipe, live, runtime, waited, ctlVars>>

\* pollPipeline returns: the pipeline is over, the context is done (it was
\* cancelled, or RunTimeout has passed since the run or the adopted wait began),
\* or the last of maxConsecutivePollErrors polls failed.
PollReturns(w) ==
    /\ InRun(w, "poll")
    /\ \/ live[pipe[w]] = NoRepo
       \/ Cancelled
       \/ LongRuns /\ waited[w] = RunTimeout
       \/ "poll" \in Failing
    /\ step' = [step EXCEPT ![w] = "delete"]
    /\ UNCHANGED <<vars, redisVars, pipe, live, runtime, waited, ctlVars>>

\* The deferred DeleteRunHandle.
DeleteHandle(w) ==
    /\ InRun(w, "delete")
    /\ step' = [step EXCEPT ![w] = "done"]
    /\ \/ DropHandle(repo[w])
       \/ "delete" \in Failing /\ KeepHandles
    /\ UNCHANGED <<vars, ttl, pipe, live, runtime, waited, ctlVars>>

ExecReturns(w) ==
    /\ InRun(w, "done")
    /\ main = "startup" => FastPoll
    /\ RunReturns(w)
    /\ step' = [step EXCEPT ![w] = "none"]
    /\ pipe' = [pipe EXCEPT ![w] = NoPipeline]
    /\ waited' = [waited EXCEPT ![w] = 0]
    /\ UNCHANGED <<live, runtime, redisVars, ctlVars>>

\* GitLab finishes a pipeline.
PipelineEnds(i) ==
    /\ live[i] # NoRepo
    /\ live' = [live EXCEPT ![i] = NoRepo]
    /\ runtime' = [runtime EXCEPT ![i] = 0]
    /\ UNCHANGED <<vars, redisVars, step, pipe, waited, ctlVars>>

------------------------------------------------------------------------------
(***************************************************************************)
(* The process ends and another one takes over.                            *)
(***************************************************************************)

\* The process is killed, whatever its goroutines were doing.
Crash ==
    /\ Alive
    /\ crashes < MaxCrashes
    /\ crashes' = crashes + 1
    /\ main' = "exited"
    /\ UNCHANGED <<storeVars, enabled, sem, pc, repo, todo, adopted, toAdopt, expired, wanted,
                   redisVars, execVars, crowded, recovered>>

\* A new process: everything but redis, GitLab and the configuration is new.
\* Between them the AdoptRunning of its executors find the saved handles (each
\* skips those of the others), or some of them when the scan or a GET of
\* LoadRunHandles fails, or the configuration has lost the executor a handle
\* names.  Both count as "load".  No handle is corrupt: SaveHandle wrote it.
Restart ==
    /\ main = "exited"
    /\ main' = "startup"
    /\ \/ toAdopt' = SavedHandles
       \/ "load" \in Failing /\ toAdopt' \in SUBSET SavedHandles
    /\ sem' = 0
    /\ pc' = [p \in Proc |-> "free"]
    /\ repo' = [p \in Proc |-> NoRepo]
    /\ todo' = [j \in CronJob |-> {}]
    /\ adopted' = [w \in Worker |-> FALSE]
    /\ expired' = FALSE
    /\ step' = [w \in Worker |-> "none"]
    /\ pipe' = [w \in Worker |-> NoPipeline]
    /\ waited' = [w \in Worker |-> 0]
    /\ crowded' = FALSE
    /\ recovered' = FALSE
    /\ UNCHANGED <<storeVars, enabled, wanted, redisVars, live, runtime, crashes>>

\* adoptScript creates a missing entry, keeps an existing one as it is, and
\* refreshes the expiry of either; the goroutine resumes polling.
RedisAdopt(r, w) ==
    /\ AdoptRun(r, w)
    /\ Touch(r)
    /\ KeepHandles
    /\ step' = [step EXCEPT ![w] = "poll"]
    /\ pipe' = [pipe EXCEPT ![w] = handle[r]]
    /\ UNCHANGED <<live, runtime, waited, ctlVars>>

\* Adopt logs the failure and waits for the run all the same.
RedisAdoptFails(r, w) ==
    /\ "adopt" \in Failing
    /\ main = "startup"
    /\ r \in toAdopt
    /\ pc[w] = "free"
    /\ toAdopt' = toAdopt \ {r}
    /\ pc' = [pc EXCEPT ![w] = "exec"]
    /\ repo' = [repo EXCEPT ![w] = r]
    /\ adopted' = [adopted EXCEPT ![w] = TRUE]
    /\ step' = [step EXCEPT ![w] = "poll"]
    /\ pipe' = [pipe EXCEPT ![w] = handle[r]]
    /\ UNCHANGED <<storeVars, enabled, sem, todo, main, expired, wanted, redisVars,
                   live, runtime, waited, ctlVars>>

\* Mutation: running entries are recovered too.
RecoverSnapshotTakesRunning ==
    /\ main = "startup" /\ toAdopt = {} /\ ~recovered
    /\ pc[Recovery] = "free"
    /\ Goto(Recovery, "loop")
    /\ todo' = [todo EXCEPT ![Recovery] = {r \in Repo : state[r] # "absent"}]
    /\ UNCHANGED <<storeVars, enabled, sem, repo, adopted, toAdopt, main, expired, wanted,
                   redisVars, execVars, ctlVars>>

\* The recovery loop: a Snapshot, which misses the entries it fails to read, ...
RecoverSnapshot ==
    /\ main = "startup" /\ toAdopt = {} /\ ~recovered
    /\ pc[Recovery] = "free"
    /\ Goto(Recovery, "loop")
    /\ LET queued == {r \in Repo : state[r] = "queued"} IN
         \/ todo' = [todo EXCEPT ![Recovery] = queued]
         \/ /\ "snapshot" \in Failing
            /\ \E rs \in SUBSET queued : todo' = [todo EXCEPT ![Recovery] = rs]
    /\ UNCHANGED <<storeVars, enabled, sem, repo, adopted, toAdopt, main, expired, wanted,
                   redisVars, execVars, ctlVars>>

\* Mutation: the stale entry is not cleared, so that Enqueue coalesces with it.
RecoverNextKeepsEntry(r) ==
    /\ main = "startup"
    /\ pc[Recovery] = "loop"
    /\ r \in todo[Recovery]
    /\ todo' = [todo EXCEPT ![Recovery] = @ \ {r}]
    /\ pc' = [pc EXCEPT ![Recovery] = "route"]
    /\ repo' = [repo EXCEPT ![Recovery] = r]
    /\ UNCHANGED <<storeVars, enabled, sem, adopted, toAdopt, main, expired, wanted,
                   redisVars, execVars, ctlVars>>

\* ... for every queued entry a FinishRun (its answer is ignored) and an Enqueue, ...
RecoverNext(r) ==
    /\ main = "startup"
    /\ pc[Recovery] = "loop"
    /\ r \in todo[Recovery]
    /\ todo' = [todo EXCEPT ![Recovery] = @ \ {r}]
    /\ pc' = [pc EXCEPT ![Recovery] = "route"]
    /\ repo' = [repo EXCEPT ![Recovery] = r]
    /\ \/ FinishRun(r) /\ Forget(r)
       \/ "finish" \in Failing /\ UNCHANGED <<storeVars, ttl>>
    /\ KeepHandles
    /\ UNCHANGED <<enabled, sem, adopted, toAdopt, main, expired, wanted, execVars, ctlVars>>

\* ... and on to the cron schedules and the HTTP server.
RecoverDone ==
    /\ main = "startup"
    /\ pc[Recovery] = "loop"
    /\ todo[Recovery] = {}
    /\ Goto(Recovery, "free")
    /\ recovered' = TRUE
    /\ UNCHANGED <<storeVars, enabled, sem, repo, todo, adopted, toAdopt, main, expired, wanted,
                   redisVars, execVars, crowded, crashes>>

------------------------------------------------------------------------------
(***************************************************************************)
(* Time.                                                                   *)
(***************************************************************************)

\* No goroutine has anything to do but to wait for a slot or for a pipeline.
Waiting ==
    /\ main = "serving" \/ (main = "exited" /\ LongOutage)
    /\ main = "serving" =>
         /\ \A p \in Proc : pc[p] \in {"free", "acquire", "exec"}
         /\ \A w \in Worker : pc[w] = "acquire" => crowded \/ sem = MaxConcurrent
         /\ \A w \in Worker :
              pc[w] = "exec" =>
                step[w] = "poll" /\ live[pipe[w]] # NoRepo /\ waited[w] < RunTimeout

\* The wait of every run, and every pipeline, gets older.
Age ==
    /\ waited' = [w \in Worker |-> IF Alive /\ pc[w] = "exec" THEN waited[w] + 1 ELSE waited[w]]
    /\ runtime' = [i \in Pipeline |->
                     IF live[i] # NoRepo /\ runtime[i] < RunTimeout THEN runtime[i] + 1 ELSE runtime[i]]

\* Mutation: entries do not expire.
TickKeepsEntries ==
    /\ Waiting
    /\ LongRuns \/ \A i \in Pipeline : live[i] # NoRepo => runtime[i] < RunTimeout
    /\ handleTtl' = [r \in Repo |-> IF handleTtl[r] = 0 THEN 0 ELSE handleTtl[r] - 1]
    /\ handle' = [r \in Repo |-> IF handleTtl[r] <= 1 THEN NoPipeline ELSE handle[r]]
    /\ Age
    /\ UNCHANGED <<storeVars, dispVars, ttl, step, pipe, live, ctlVars>>

\* Expiries come closer.  Without LongRuns no pipeline gets older than RunTimeout.
Tick ==
    /\ Waiting
    /\ LongRuns \/ \A i \in Pipeline : live[i] # NoRepo => runtime[i] < RunTimeout
    /\ ttl' = [r \in Repo |-> IF ttl[r] = 0 THEN 0 ELSE ttl[r] - 1]
    /\ state' = [r \in Repo |-> IF ttl[r] <= 1 THEN "absent" ELSE state[r]]
    /\ pendingRerun' = [r \in Repo |-> pendingRerun[r] /\ ttl[r] > 1]
    /\ handleTtl' = [r \in Repo |-> IF handleTtl[r] = 0 THEN 0 ELSE handleTtl[r] - 1]
    /\ handle' = [r \in Repo |-> IF handleTtl[r] <= 1 THEN NoPipeline ELSE handle[r]]
    /\ Age
    /\ UNCHANGED <<dispVars, step, pipe, live, ctlVars>>

------------------------------------------------------------------------------
\* Steps of the dispatcher that touch neither redis nor the executor.
Plain(A) == A /\ UNCHANGED <<redisVars, execVars, ctlVars>>

RedisProcStep(p) ==
    \/ Plain(EnqueueRoute(p))
    \/ RedisQueue(p)
    \/ RedisQueueFails(p)
    \/ \E w \in Worker : Plain(EnqueueSpawn(p, w))

RedisWorkerStep(w) ==
    \/ RedisProcStep(w)
    \/ Plain(RunDebounced(w))
    \/ ~crowded /\ Plain(RunAcquire(w))
    \/ Plain(RunCancelled(w))
    \/ RedisStart(w)
    \/ RedisStartFails(w)
    \/ Trigger(w)
    \/ SaveHandle(w)
    \/ PollReturns(w)
    \/ DeleteHandle(w)
    \/ ExecReturns(w)
    \/ RedisFinish(w)
    \/ RedisFinishFails(w)
    \/ Plain(RunEnd(w))

RedisMainStep ==
    \/ Restart
    \/ \E r \in Repo, w \in Worker : RedisAdopt(r, w) \/ RedisAdoptFails(r, w)
    \/ RecoverSnapshot
    \/ \E r \in Repo : RecoverNext(r)
    \/ RecoverDone
    \/ recovered /\ Plain(Serve)
    \/ Plain(HttpStopped)
    \/ Plain(Drained)
    \/ Plain(ShutdownReturns)
    \/ Plain(Deadline)

(***************************************************************************)
(* Outside the instance: other repositories have been enqueued, and theirs *)
(* are the next turns at the semaphore, or no longer.  It matters when a   *)
(* goroutine waits.                                                        *)
(***************************************************************************)
Crowd ==
    /\ LongQueue
    /\ Alive
    /\ \E w \in Worker : pc[w] = "acquire"
    /\ crowded' = ~crowded
    /\ UNCHANGED <<vars, redisVars, execVars, recovered, crashes>>

RedisEvent == \E h \in Handler, r \in Repo : Plain(HandlerEvent(h, r))

RedisNext ==
    \/ \E c \in Caller : RedisProcStep(c)
    \/ \E w \in Worker : RedisWorkerStep(w)
    \/ RedisMainStep
    \/ RedisEvent
    \/ Crowd
    \/ Stops /\ Plain(Sigterm)
    \/ main = "stopped" /\ Plain(Exit)
    \/ Crash
    \/ \E i \in Pipeline : PipelineEnds(i)
    \/ Tick

RedisSpec == RedisInit /\ [][RedisNext]_allVars

(***************************************************************************)
(* Fairness: a goroutine that can go on does, time passes, pipelines end,  *)
(* and a process that has ended is started again by its supervisor.        *)
(* Crashes, failures, signals and events are not fair.                     *)
(***************************************************************************)
RedisFairness ==
    /\ \A c \in Caller : WF_allVars(RedisProcStep(c))
    /\ \A w \in Worker : WF_allVars(RedisWorkerStep(w))
    /\ WF_allVars(RedisMainStep)
    /\ \A i \in Pipeline : WF_allVars(PipelineEnds(i))
    /\ WF_allVars(crowded /\ Crowd)
    /\ WF_allVars(Tick)

RedisFairSpec == RedisSpec /\ RedisFairness

------------------------------------------------------------------------------
(***************************************************************************)
(* Properties.                                                             *)
(***************************************************************************)

(***************************************************************************)
(* "guarantees a repository never has more than one run in flight"         *)
(* (README.md:6), told of the pipelines GitLab runs and not of goroutines: *)
(* also when the process that triggered the first one is gone.             *)
(***************************************************************************)
OneRunInFlight ==
    \A i, j \in Pipeline : live[i] # NoRepo /\ live[i] = live[j] => i = j

(***************************************************************************)
(* While a pipeline runs, its repository is locked: a crash does not open  *)
(* the lock, adoption and the recovery loop do not, and an entry nobody    *)
(* looks after expires later than the pipeline ends.                       *)
(***************************************************************************)
LiveRunIsLocked ==
    \A i \in Pipeline : live[i] # NoRepo => state[live[i]] # "absent"

\* An entry that no goroutine of the running process answers for.
Stale(r) ==
    /\ main = "serving"
    /\ state[r] # "absent"
    /\ \A p \in Proc : ~Holds(p, r)

(***************************************************************************)
(* "Every write refreshes the key TTL so stale entries (e.g. after an      *)
(* unclean shutdown) self-heal" (redis.go:17-18), "stale locks self-heal   *)
(* after it" (README.md:85).                                               *)
(***************************************************************************)
StaleEntriesHeal == \A r \in Repo : Stale(r) ~> ~Stale(r)

(***************************************************************************)
(* What the expiry of the entries does give: an entry that no goroutine    *)
(* answers for, for whatever reason (a crash, a failed FinishRun, a Queue  *)
(* whose answer was lost), goes away once its repository has no events.    *)
(***************************************************************************)
StaleEntriesHealWhenQuiet ==
    \A r \in Repo : []<>(~Stale(r)) \/ []<>(\E h \in Handler : repo[h] = r)

(***************************************************************************)
(* "queued repos are re-enqueued at startup" (README.md:193): an accepted  *)
(* event whose repository is queued is served, however often the process   *)
(* crashes.                                                                *)
(***************************************************************************)
QueuedIsReenqueued ==
    \A r \in Repo : (wanted[r] /\ state[r] = "queued") ~> ~wanted[r]

\* The process ended after the recovery loop had removed r's entry (main.go:191)
\* and before the Enqueue that follows had put a new one in its place.
LostInRecovery(r) ==
    /\ main = "exited"
    /\ pc[Recovery] \in {"route", "queue"} /\ repo[Recovery] = r

(***************************************************************************)
(* What the recovery loop does give: a queued event is served over crashes *)
(* at any moment, those of a process that is recovering from the last one  *)
(* included, except in the one window that LostInRecovery names.           *)
(***************************************************************************)
QueuedSurvivesCrash ==
    \A r \in Repo : (wanted[r] /\ state[r] = "queued") ~> (~wanted[r] \/ LostInRecovery(r))

------------------------------------------------------------------------------
(***************************************************************************)
(* The inductive invariants: RedisInv whatever fails, and RedisSafe, which *)
(* is behind OneRunInFlight and LiveRunIsLocked, in favourable conditions. *)
(***************************************************************************)
RedisInv == RedisTypeOK /\ GoroutineKinds /\ SlotsBounded

(***************************************************************************)
(* The conditions under which they hold: StartRun, the trigger, the polls  *)
(* and DeleteRunHandle do not fail, no pipeline outlasts the run timeout,  *)
(* every repository can have a slot, an adopted run outlasts the recovery  *)
(* loop, and the process ends by a crash and not by a shutdown past its    *)
(* deadline.                                                               *)
(***************************************************************************)
Favourable ==
    /\ Failing \intersect {"start", "trigger", "poll", "delete"} = {}
    /\ ~LongRuns /\ ~LongQueue /\ ~FastPoll /\ ~Stops
    /\ IsFiniteSet(Repo) /\ Cardinality(Repo) <= MaxConcurrent

\* Before the recovery loop takes its snapshot only adopted runs are there, and
\* they do not return; once it has taken it nothing is left to adopt, and once
\* main serves nothing is left to recover.
RedisPhases ==
    /\ main \in {"startup", "serving", "exited"}
    /\ ~crowded
    /\ \A w \in Worker : pc[w] = "exec" <=> step[w] # "none"
    /\ \A j \in CronJob \ {Recovery} : pc[j] = "free"
    /\ main = "startup" =>
         /\ \A h \in Handler : pc[h] = "free"
         /\ \A w \in Worker : pc[w] \in {"free", "debounce", "acquire", "start", "exec"}
         /\ IF ~recovered /\ pc[Recovery] = "free"
              THEN \A w \in Worker :
                     pc[w] \in {"free", "exec"} /\ step[w] \in {"none", "poll", "delete", "done"}
              ELSE toAdopt = {}
    /\ main = "serving" => toAdopt = {} /\ recovered
    /\ main # "exited" /\ (recovered \/ pc[Recovery] = "free") => todo[Recovery] = {}
    /\ main # "exited" /\ recovered => pc[Recovery] = "free"

\* What redis and GitLab know of r, whether or not a process runs: a pipeline is
\* the only one, its entry is running and outlives it; a handle is that of the
\* pipeline and does not outlive the entry.
Kept(r) ==
    /\ \A i \in Pipeline :
         live[i] = r => state[r] = "running" /\ ttl[r] + runtime[i] >= TTL
    /\ \A i, j \in Pipeline : live[i] = r /\ live[j] = r => i = j
    /\ handle[r] # NoPipeline =>
         /\ state[r] = "running"
         /\ 1 <= handleTtl[r] /\ handleTtl[r] <= ttl[r]
         /\ live[handle[r]] \in {r, NoRepo}
         /\ \A i \in Pipeline : live[i] = r => handle[r] = i

\* What worker w, in its executor for r, can rely on.
Executes(w, r) ==
    /\ step[w] \in {"trigger", "save"} => handle[r] = NoPipeline /\ ttl[r] = TTL
    /\ step[w] = "done" => handle[r] = NoPipeline
    /\ step[w] \in {"save", "poll"} => pipe[w] \in Pipeline /\ live[pipe[w]] \in {r, NoRepo}

\* Where the process has got to with r: one goroutine at most answers for it, and
\* when a pipeline of r runs, that goroutine knows it.
Answered(r) ==
    /\ \A p, q \in Proc : Holds(p, r) /\ Holds(q, r) => p = q
    /\ \A p \in Proc :
         Holds(p, r) =>
           /\ state[r] = IF pc[p] \in {"exec", "finish"} THEN "running" ELSE "queued"
           /\ \A i \in Pipeline :
                live[i] = r => pc[p] = "exec" /\ step[p] \in {"save", "poll"} /\ pipe[p] = i
           /\ pc[p] = "exec" => Executes(p, r)
           /\ pc[p] = "finish" => handle[r] = NoPipeline
    /\ r \in toAdopt => handle[r] # NoPipeline /\ \A p \in Proc : ~Holds(p, r)
    /\ r \in todo[Recovery] => state[r] = "queued" /\ \A p \in Proc : ~Holds(p, r)

RedisSafe ==
    /\ RedisPhases
    /\ \A r \in Repo : Kept(r) /\ (Alive => Answered(r))
================================================================================
