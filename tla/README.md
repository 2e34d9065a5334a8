# renovate-server in TLA+

renovate-server turns webhooks, crontabs and manual triggers into Renovate runs: a
repository is debounced, queued, run by an executor (a GitLab pipeline, a Kubernetes job, a
Docker container) and unlocked again, with at most one run of a repository in flight. This
directory holds TLA+ models of all its parts but the metrics, the TLC runs that check them on
small instances, and TLAPS proofs, for instances of any size, of every safety property the
passing runs check; what needs fairness is model-checked only.

## The system

| Part | State | Operations | Correct when |
|---|---|---|---|
| `internal/store` (memory, redis) | per repository: absent, queued or running, a rerun flag; run handles; with redis a TTL on each key | `Queue`, `StartRun`, `FinishRun`, `Adopt`, handles, `Snapshot` | an entry is a lock with one owner; a stale one goes away |
| `internal/dispatch` dispatcher | semaphore channel, wait group, router pointer, base context | `Enqueue`, `run`, `finish`, `Adopt`, `SetRouter`, `Shutdown` | one run per repository, no accepted event lost, cap on runs, clean shutdown |
| `internal/dispatch` router | ordered rules | `NewRouter`, `Route` | first match wins, a disabled repository is not run |
| `cmd/renovate-server` main | the process | construction, adoption, recovery, serving, SIGHUP, SIGTERM | a restart neither loses nor doubles runs |
| `internal/executor/*` | a pipeline, job or container outside the process | `Run`, `AdoptRunning` | returns when the run is over; a run is found again after a restart |
| `internal/platform/*` | username cache | `ParseWebhook`, `DiscoverRepos`, `RepoAllowed` | ticks and pushes become events, renovate's own edits do not |
| `internal/server` | readiness | webhook, trigger, status endpoints | only authenticated requests reach `Enqueue` |
| `internal/schedule` | crontabs | `AddPlatform`, `Start`, `Stop` | fires the discovery job |
| `internal/history`, `internal/metrics` | ring of finished runs, counters | `Record`, `Entries` | the newest n runs, newest first |
| `internal/config` | the configuration | `Load`, defaults, `validate` | what passes is safe to run with |

Handlers, cron jobs, run goroutines and main call each other directly and share the store,
the semaphore, the router pointer and the base context. What is hard: callers that enqueue
the same repository at once; the two-step release in `finish`; shutdown against running
goroutines and cron jobs; and, with redis and GitLab, a lock, a handle and a pipeline that
live in three places while the process between them may end at any moment; Jobs and
containers that outlive the process, or never end; a configuration file that changes while it
is reloaded; a platform that changes while it is listed. PROJECT.json lists each hazard at
its line.

## Modules

* `Store`: the run table and its four atomic operations, shared by both stores.
* `RepoRuns`: what senders of events are promised, without queue, semaphore or goroutine:
  a repository runs at most once at a time, and an accepted event is followed by a run
  that starts after it, unless the rules disable the repository or the process stops.
* `Dispatcher`: `dispatcher.go` over `Store`, with the goroutines of `main.go` around it.
  One action is one store call, one channel operation or one atomic pointer access.
  `pc[p]` is where goroutine `p` is, `repo[p]` what it handles. `Enqueue` is `EnqueueRoute`,
  `EnqueueQueue`, `EnqueueSpawn`; `run` is `RunDebounced` ... `RunStart`; `finish` is
  `RunReturns` and `RunFinish`; `RunEnd` is the deferred receive. `main` walks through
  startup (adoption), serving, and the stages of shutdown. `enabled` is the router.
  `wanted` is a history variable: an event was accepted that no run has started after.
* `DispatcherProofs`, `DispatcherRefinement`: the theorems.
* `RedisServer`: the same dispatcher over the redis store and the `gitlabPipeline`
  executor, across crashes and restarts. It conjoins `Dispatcher`'s actions with the expiry
  of keys, adds the steps inside a run (`Trigger`, `SaveHandle`, `PollReturns`,
  `DeleteHandle`), the failure of each call, `Crash`, `Restart`, main's recovery loop (as a
  caller of `Enqueue`) and time (`Tick`).
* `Webhooks`: `ParseWebhook` of both adapters and the HTTP handlers, between people and
  renovate, who edit and push, and the dispatcher, which is represented by `RepoRuns`.
* `Jobs`: the same dispatcher over the memory store and the `kubernetes`, `docker` and `noop`
  executors, across the end of the process. A Job or container is an `Object` with an `owner`
  (the annotations of `buildJob`), a `place` (its namespace, or the docker daemon) and a
  `status`. A worker at `exec` walks through `create`, `start`, `wait`, `remove`, `done`
  (`step`), for the object `obj` through the executor `via`. `KubeWait` is the return of
  `waitForJob`, for whatever reason; `DockerRemove` the deferred removal. `Restart` ends the
  process anywhere, `KubeList` and `AdoptJob` are main's adoption loop.
* `Config`: pure operators for `applyDefaults`, `validate`, `NewRouter` and `Route`, and
  `StartError`, the first thing that `main.run` finds wrong in a configuration that `Load`
  accepted.
* `Reload`: the file, SIGHUP, start and end of the process, and the SIGHUP goroutine of
  `main.go`, in three steps: `TakeSignal`, `ReloadFile` (`config.Load`), `Apply`. `source` is a
  history variable: the file that the rules in force are from.
* `Discovery`: a cron job that lists groups page by page (`ListPage`) and enqueues the result,
  while repositories are created, deleted, archived and unarchived.
* `History`: `Record` and `Entries` of the ring; `log` is a history variable, everything ever
  recorded.
* `HistoryProofs`, `ReloadProofs`, `JobsProofs`, `RedisProofs`, `DiscoveryProofs`,
  `WebhooksProofs`: the theorems about `History`, `Reload`, `Jobs`, `RedisServer`, `Discovery`
  and `Webhooks`. The inductive invariants stand at the end of the module they are about.
* `MCDispatcher`, `MCRedisServer`, `MCWebhooks`, `MCJobs`, `MCReload`, `MCDiscovery`:
  instances for TLC.

Operators whose comment begins with "Mutation" are wrong variants of the definition that
follows them. Substituting one must make its property fail (PROJECT.json, "mutants").

## Abstractions

* Time in `Dispatcher` is abstract: debounce, run timeout and shutdown deadline may fire at
  any moment. In `RedisServer` a tick passes only while every goroutine waits for the
  semaphore, for a pipeline, or for a new process. `RunTimeout` is `server.runTimeout` in ticks:
  `waited` counts the ticks since the context of a run was made, and at `RunTimeout` the poll
  returns, whatever the pipeline does. Whether pipelines can outlast it is the constant
  `LongRuns`. `TimeAssumption` (the TTL exceeds the run timeout) is what the code needs;
  `validate` does not check it, and the defaults (2 h, 60 min) satisfy it.
* `Restart` in `RedisServer` stands for the `AdoptRunning` of all pipeline executors, each of
  which skips the handles of the others: together they adopt every saved handle whose executor
  is still configured. Handles are what `SaveRunHandle` wrote; a corrupt one, which
  `AdoptRunning` deletes, has no writer in this system.
* `crowded` in `RedisServer` stands for repositories outside the instance: while it holds,
  the next turns at the semaphore are theirs. It is the environment, not code.
* `Webhooks` does not repeat the dispatcher: a run starts and ends (`RunStarts`, `RunEnds`) by the
  actions of `RepoRuns`, which `Dispatcher` is proved to implement.
* Every call that may fail is named in `Failing`. "Fails" covers a call that took effect
  and whose answer was lost, where that differs.
* A description in `Webhooks` is the number of its checked items with and without marker,
  which is all the regular expressions of `checkbox.go` are used for. A document is known
  as renovate's always (debug marker, branch, title), through its author, or not.
  Webhooks arrive once, in any order.
* In `Jobs` the executor of a run is chosen when the run creates something: any, since the rules
  may have changed when it was enqueued. A graceful shutdown within its deadline is
  `Dispatcher`'s subject; here a stop is past the deadline (`ShutdownPastDeadline`, whose
  earlier phases differ from serving only in the events that no longer come) or a crash.
  `misled` collects the repositories that a mishap has hit: a lost answer to a create, a
  failed poll, list or removal, the run timeout under an active Job. Each leaves something
  running that the process does not wait for, by the design of the code (README.md:79 of
  the repository for the timeout), and the properties say that the damage stays with that
  repository and ends with a restart that finds it in order.
* A file in `Reload` is a record of the fields that steer something. Whether a crontab, a
  resource quantity, a template or the YAML as a whole parses is a value of its field. A
  pattern is a name, and `Matches` says which repositories it matches. Secrets, durations and
  the pod template only travel through. `StartError` leaves out what is wrong outside the
  file, and webhook paths that `ServeMux` rejects for another reason than being equal.
* Listings in `Discovery` are newest first and by offset, as the platforms do by default. The
  code's list may name a repository twice; the model's is a set, because a second `Enqueue`
  coalesces with the first (`Dispatcher`).
* `Repo` is a set of store keys. That `RepoAllowed` ignores case and keys do not is outside
  the models.

## Runs

Every cfg sets `CHECK_DEADLOCK FALSE`: a process that has exited, and a repository nobody
touches, may stay as they are.

| Run | Instance | Shows |
|---|---|---|
| `dispatcher_one_repo` | 1 repository, 1 handler, 1 cron job, 4 workers, 1 slot | safety, the inductive invariant, `ImplementsRepoRuns`, and under fairness `EveryEventIsServed`, `DisabledRepoGoesQuiet` |
| `dispatcher_two_repos` | 2 repositories, 1 handler, 5 workers, 1 slot | slots are returned on every path, `CleanShutdown`, refinement |
| `dispatcher_contention` | 3 repositories, 1 slot, no shutdown | nobody starves |
| `redis_recovery` | 2 handlers, 3 pipelines, 2 crashes, failing queue, finish, save, adopt, load and snapshot calls, long outages | one pipeline per repository, and it is locked |
| `redis_restart` | 2 handlers, 2 crashes at any moment, short outages, nothing fails | a queued event survives, except in one window of the recovery loop (Finding 2) |
| `redis_faults` | 1 slot, 2 workers, 1 pipeline; failing queue, start, finish, trigger, poll and delete calls; pipelines past the run timeout; stops past the deadline, restarts | slots are exact, stale entries expire when their repository is quiet |
| `redis_stop` | a stop past the deadline, nothing fails | violated: two pipelines |
| `webhooks_events` | both adapters, 1 box of each kind, 2 actions of people, 2 webhooks on their way, any checked boxes to begin with | ticks are served, events are ticks, renovate does not keep itself running, strangers do not trigger |
| `jobs_restart` | 1 repository, 2 workers, 2 slots, 2 objects, one executor of each type | one live run per repository over any number of crashes and restarts, every live one locked, containers removed, and under fairness no lock held for ever |
| `history_ring` | 3 slots, 2 kinds of entry, 8 records | newest first before, at and after two wrap-arounds |
| `reload_files` | 18 files, 2 repositories, 3 patterns | total routing, no half-applied configuration, the last signalled edit wins |
| `discovery_paging` | 5 repositories, 2 overlapping groups, pages of 2, 2 changes, 1 failing call | what a job misses is bounded by what left the listing under it; a later job finds it |

Eleven further configurations belong to no run of PROJECT.json, on purpose.
Seven of them ask for a stronger property, or drop an assumption, and TLC answers with a
counterexample (`tlc -config <cfg> <module>`); "Findings" tells what they mean:
`Dispatcher_cap.cfg` (`MCDispatcher`), `Redis_queue_ttl.cfg`, `Redis_requeue.cfg` and
`Redis_self_heal.cfg` (`MCRedisServer`), `Webhooks_github.cfg` (`MCWebhooks`), `Jobs_namespace.cfg`
(`MCJobs`), `Reload_listen.cfg` (`MCReload`).

The other four check the inductive invariants of the proofs on an instance, and pass:
`Jobs_inductive.cfg`, `Redis_inductive.cfg` (which also shows that the instance of
`redis_recovery` satisfies `Favourable`), `Discovery_inductive.cfg`, `Webhooks_inductive.cfg`.
`IndInv` of `Dispatcher` is an invariant of `dispatcher_one_repo`.

Bounds. Workers are chosen so that a spawn never waits for a free one: four goroutines of one
repository can be alive at once with one slot (one ending, one that hands over its rerun,
the new one, an adopted one), five with two repositories and one handler. One slot makes
goroutines wait. It also keeps two ordinary runs apart, whatever the lock does: in
`dispatcher_one_repo` `MutualExclusion` can see an adopted run beside an ordinary one only, and two
ordinary ones for a repository show in `LockHasOneOwner`, which the semaphore does not
mask (two slots exceed TLC's time there; the theorem `AtMostOneRun` is for any number). Two
slots are given where `OneRunInFlight` is checked. Two crashes let the second hit the recovery
from the first, in `redis_restart` too. `TTL = 2`, `RunTimeout = 1` is the smallest pair with a run that ends before its lock
and a lock that ends. The safety proofs do not depend on any bound.

`jobs_restart` has two slots, so that the semaphore does not stand in for the lock, and two
objects, the fewest with which two runs of a repository can meet. With two workers a third
goroutine of the repository, which only a mishap can cause, waits for a free one; a run is
never kept from ending by that, so `StuckRunsLetGo` does not depend on it. The 18 files of
`reload_files` are a valid one and variants with one thing changed for each way to be
accepted, refused by the reload, or rejected by `Load`. Five repositories and pages of two
make three pages of one group and two of the other; two changes are enough to shift a page and
to shift it back.

`dispatcher_one_repo`, `redis_faults` and `jobs_restart` check liveness, where TLC's symmetry is not sound. Their
goroutines are numbers, and the action constraint `LowestFree` gives a new one the lowest free
number: it picks one name of several for the same step and removes no behaviour.

The passing redis runs are exact about what they leave out. `redis_recovery` assumes that the
semaphore is not crowded, that stops do not pass the deadline, that an adopted run ends after
main's recovery loop (`FastPoll`), that no pipeline outlasts the run timeout (`LongRuns`), and that
trigger, poll, `StartRun` and `DeleteRunHandle` calls do not fail; without the first two
`OneRunInFlight` fails (`Redis_queue_ttl.cfg`, `redis_stop`), and TLC finds a counterexample without each
of the others too (the hazards tell how). A pipeline past the run timeout loses its lock by the
design of the code (README.md:79 of the repository); `redis_faults` has such pipelines.
`redis_restart` makes the same assumptions, and also that no call fails at all and that no
entry expires during an outage (`LongOutage`): one that has expired is recovered by nobody.
`CleanShutdown` is checked without cron jobs, because `sched.Stop` does not wait for them.

Fairness. Go schedules every runnable goroutine, timers fire, and executors return by the
run timeout, so each goroutine and main are weakly fair. Blocked senders of a Go channel
queue first come first served, so the semaphore send is strongly fair in `Dispatcher`.
`RedisServer` adds that time passes, pipelines end, a crowd disperses and a supervisor restarts
the process; `Webhooks` that the oldest webhook arrives and that the dispatcher keeps its
promise. `Jobs` assumes nothing of Jobs and containers: a goroutine that waits for one is woken
by the timer of its run timeout. `Reload` assumes that the SIGHUP goroutine is scheduled,
`Discovery` that the crontab keeps firing and the job goes on. Events, edits, signals, crashes,
failures and changes of the platform are never fair.

## Findings

1. A stop past the 30 s deadline deletes handle and lock of a live pipeline; the next process
   starts a second one (run `redis_stop`; README.md:6, 193-194 of the repository). Shutdown and
   main return right after the cancel (main.go:281-284), so this is a race: the cancelled
   goroutine has to get its two redis calls through before the process is gone. With neither
   through the next process adopts the pipeline; with the first only, the lock is left to its TTL.
2. A process that ends between `FinishRun` and `Enqueue` of the recovery loop (main.go:191-192)
   loses the queued event that it was recovering (`Redis_requeue.cfg`, which states README.md:193,
   "queued repos are re-enqueued at startup", without the exception that `QueuedSurvivesCrash` makes).
3. A queued redis entry expires while its goroutine waits for a slot; the next event starts a
   second run (`Redis_queue_ttl.cfg`; README.md:6).
4. Two kubernetes executors with one namespace adopt each Job twice after a restart; the
   goroutine that notices its end last unlocks the repository under a new run, and a third
   run starts beside that (`Jobs_namespace.cfg`; README.md:6). `validate` accepts it.
5. Adopted runs hold no semaphore slot: after a restart more than `maxConcurrentRuns` run
   (`Dispatcher_cap.cfg`; README.md:78).
6. Events keep a stale redis entry alive (`Redis_self_heal.cfg`; redis.go:17-18, README.md:85).
7. On GitHub a title edit counts as a tick (`Webhooks_github.cfg`; checkbox.go:29-30).
8. A reload with another listen address is accepted and the address ignored
   (`Reload_listen.cfg`; README.md:200-201 says such changes are refused).
9. Met while writing `ReloadIsRestart`, which exempts them: a reload accepts a file whose log
   level, log format or negative `maxConcurrentRuns` makes the next start fail.
10. Met while writing `ReferencesResolve`: the comment of `Load` (load.go:19-20) says "Any unset
    variable, unknown field or invalid reference is an error", but `root.Decode` (load.go:41)
    accepts and drops unknown fields. The model follows the code: what a file says besides the
    fields of `ConfigFile` is no part of it.

## Proofs

`tlapm` checks these for all values of the constants, from the named assumptions of the
modules and the hypotheses named below, and from nothing else. The assumptions are:

* `Dispatcher`: a finite set of workers, disjoint kinds of goroutines, a positive capacity,
  `NoRepo` not a repository. `Jobs` adds disjoint types of executor, a finite set of objects and
  that a namespace is not the docker daemon; `RedisServer` that the TTL exceeds the run timeout,
  and that main's recovery loop is one of the callers.
* `History`: an integer size, `NoEntry` not an entry. `Reload`: files are `ConfigFile`s, the
  catch-all is a pattern and matches every repository, and six string literals are strings
  (which the provers do not know).
* `Discovery`: finitely many repositories, numbered by age; positive page size; groups are sets
  of repositories. `Webhooks`: the two platforms, at least one box, and that the empty
  description is told apart from the others.

The bounds (changes, failures, crashes, webhooks on their way, actions of people) are any
natural numbers.

### The dispatcher

* `Invariance`: `Spec => []IndInv`. None of the safety properties is inductive by itself.
  `MutualExclusion` needs `LockHasOneOwner` (a goroutine at `exec` answers for the entry, and an
  entry has one that does); that needs `GoroutineKinds` (which goroutines can be where)
  and, for `Adopt`, `QuietStartup` (nothing is queued while main adopts).
  `NoLostTrigger` needs `RerunWhileRunning`. `SlotsBounded` counts slot holders, so each
  step is shown to add or remove at most one (`HeldSlot`, `SlotStep`).
* `TypeCorrect`, `AtMostOneRun`, `LocksAreOwned`, `TriggersSurvive`, `SemaphoreIsExact`:
  the parts a reader asks for.
* `ShutdownIsClean`: `CleanShutdown`, for servers without crontabs (`CronJob = {}`), without which it
  is false: `sched.Stop` does not wait for a job that is about to enqueue. `ShutdownInOrder` says
  that once `httpServer.Shutdown` has returned there is no handler, and once `wg.Wait` has there is
  no goroutine; the property then follows from `LockHasOneOwner` and `NoLostTrigger`.
* `Refinement`: `Spec => ImplementsRepoRuns`. Initial states map to initial states; each action
  maps to a step of `RepoRuns` or to none (`RefinementStep`), by the invariant: a run starts
  only when none is in flight because its goroutine owns the entry.

### The executors across restarts

* `JobsInvariance` (`JobsInv`) holds whatever fails: which step of which executor a goroutine can be
  at and with what object, whose an object is and where. `JobsTypeCorrect` and
  `ContainersNeverLeak` are parts of it; the latter needs `ContainersAreHeld` (a container has one
  goroutine, so no other can pass it by).
* `OrderInvariance` (`ReposInOrder`): every repository that no mishap has hit is `InOrder`. Its lock
  has one owner; at most one of its objects runs *or can come to run*, since a created container
  is not live yet; what runs is waited for, reported to main, or in a namespace that is still to
  be listed, and only one of the three (`AdoptedOnce`, `Accounted`). `OneLiveRun` alone is not
  inductive: a restart would adopt what the listing forgot. `AtMostOneLiveRun` and
  `LiveRunsAreLocked` follow. The hypothesis `OwnNamespaces`, that no two kubernetes executors share
  a namespace, is necessary (`Jobs_namespace.cfg`, Finding 4).

### Redis and GitLab

* `RedisInvariance` (`RedisInv`) holds whatever fails and however the process ends:
  `RedisTypeCorrect` and `SlotsSurviveFailures`.
* `RecoveryInvariance` (`RedisSafe`) ties lock, handle, pipeline and goroutine together, under
  `Favourable`: what redis and GitLab know of a repository agrees with or without a process
  (`Kept`: the pipeline is the only one, its entry is running and has at least as long to live, a
  handle is the pipeline's and goes no later than the entry), and while a process runs one
  goroutine at most answers for the repository and knows its pipeline (`Answered`).
  `RedisPhases` says what each phase of a startup leaves to the next. `OnePipelineAtATime` and
  `PipelinesAreLocked` follow. The arithmetic of TTLs is in `TickOrder`: time passes only while
  nobody has a call to make, so the entry of a running pipeline is at its full TTL when the
  pipeline starts, and `RunTimeout < TTL` does the rest.
* `Favourable` is what `redis_recovery` assumes: `StartRun`, trigger, poll and `DeleteRunHandle`
  calls do not fail, no pipeline outlasts the run timeout (`LongRuns`), no stop passes its deadline
  (`redis_stop`), an adopted run outlasts the
  recovery loop, and nobody waits for a slot while time passes (`Redis_queue_ttl.cfg`), for which
  it asks for no crowd and as many slots as repositories. TLC has a counterexample without each,
  but for the number of slots, where fewer would do while waits stay short. `Queue`, `FinishRun`,
  `SaveRunHandle`, `Adopt`, load and snapshot calls may fail, crashes come anywhere, outages last
  as long as they like.

### Webhooks and discovery

* `WebhooksInvariance` (`WebhooksInv`), for every valid configuration. `StrangersAreRefused` needs
  `ForgeriesLackSecrets` of what is on its way, and then compares the cases of `authorizeWebhook`.
  `DescriptionTicksOnly` compares the counts of `mrTicked` and `prTicked`; it needs that
  the texts in a webhook are not the empty description.
* `TicksAreNeverLost` is the part of `EveryTickIsServed` that needs no fairness: until a run starts
  after a tick, the event waits or a webhook is on its way that is accepted whatever the author
  lookup answers. The delicate step is a delivery: if it takes that very webhook, the handler
  cannot have refused it (`DeliverStep`). What stays with TLC is that webhooks arrive and runs start.
* `DiscoveryInvariance` (`DiscoveryInv`) counts, in the middle of a listing, the repositories the
  job has passed without seeing (`Missed`): a removal shifts at most one more of them out of the
  pages to come, a creation or a page read none, by the ranks of a listing before and after.
  `MissesAreBounded` is the last page of it.

### History and reload

* `HistoryNewestFirst`: `Spec => []NewestFirst`, which is inductive once the write position is
  known to be inside the slice (`HistoryTypeCorrect`): entry `i` after a `Record` is the new one,
  or sits in the slot of entry `i - 1` before it, which was not overwritten. The lemmas are the
  arithmetic of `%` that this takes.
* `ReloadTypeCorrect` and `ReloadOneFile` are inductive together: what `Apply` is about to
  apply was accepted by `Load`, and a reload that is not refused keeps platforms and executors.
  `ReloadRoutesTotal` follows from them with `ValidRoutes`: the catch-all matches, so there is a
  first match (`FirstExists`), and `validate` has looked at its executor.
* `LoadedReferences` compares the conjuncts of `validate` with the cases of `StartError`.
  `ReloadRestarts` needs the strengthening `Startable`: what only a start looks at, templates and
  webhook paths, is in the parts of the configuration that a reload keeps.

### Only model-checked

Everything under fairness, which the prover does not reach: `EveryEventIsServed`,
`DisabledRepoGoesQuiet`, `QueuedSurvivesCrash`, `StaleEntriesHealWhenQuiet`, `RunsSettle`,
`EveryTickIsServed`, `StuckRunsLetGo`, `LastReloadWins`, `EveryRepoIsEnqueued`. `Refinement` is about
`RepoRuns!Safe`; its liveness is `EveryEventIsServed`.

## Not modelled

Metrics, readiness and the status endpoint, logging and template rendering, which steer
nothing; the exact parsing of signature headers; crontab, glob and YAML syntax, HTTP and TLS,
which are libraries; keys that differ in case only.

## What could follow

The safety part of `QueuedSurvivesCrash` as a theorem (outside `LostInRecovery` no step and no
crash loses a queued event), and a refinement of `RedisServer` under `Favourable`, and of `Jobs`, to
an abstract run service that outlives its process.
