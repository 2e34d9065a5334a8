------------------------------- MODULE Discovery -------------------------------
(***************************************************************************)
(* The cron job of one platform: DiscoverRepos of gitlab.go and github.go  *)
(* pages through the listing of every configured group, and main.go        *)
(* enqueues what it found (main.go:203-215).  The platform changes while   *)
(* the job pages: repositories are created, deleted, archived and          *)
(* unarchived between two pages.                                           *)
(*                                                                         *)
(* Repositories are numbered in the order of their creation, and both      *)
(* platforms list the newest first.                                        *)
(***************************************************************************)
EXTENDS Integers, FiniteSets

CONSTANTS
    Repo,         \* repositories, as numbers
    Groups,       \* the number of configured groups or orgs
    InGroup,      \* InGroup[g]: the repositories of group g (groups may overlap)
    PerPage,      \* 100 in the code
    MaxChanges,   \* bound on the changes of the platform
    MaxFailures   \* bound on the list calls that fail

ASSUME RepoAssumption == Repo \subseteq Nat /\ IsFiniteSet(Repo)
ASSUME PageAssumption == PerPage \in Nat \ {0} /\ Groups \in Nat \ {0}
ASSUME GroupAssumption == InGroup \in [1..Groups -> SUBSET Repo]
ASSUME BoundAssumption == MaxChanges \in Nat /\ MaxFailures \in Nat

VARIABLES
    conf,       \* the platform's type and its discovery.excludeArchived; never changes
    exists,     \* the repositories of the platform
    archived,   \* ... the archived among them
    job,        \* the cron job: "idle", "list", "enqueue"
    group,      \* the group it lists
    page,       \* the page it asks for next
    repos,      \* what it has found; once listed, what it still has to enqueue
    changes,    \* bounds
    failures,
    stable,     \* history variable: repositories there to be found since the job began
    removals    \* history variable: entries that left a listing since the job began

vars == <<conf, exists, archived, job, group, page, repos, changes, failures, stable, removals>>

\* What a run of the job should find: archived repositories count unless excluded.
Eligible == IF conf.excludeArchived THEN exists \ archived ELSE exists

\* The listing of group g, and where in it repository r is.  GitLab is asked to
\* leave archived projects out; GitHub lists them, and github.go skips them.
Listing(g) == InGroup[g] \intersect (IF conf.type = "gitlab" THEN Eligible ELSE exists)
Rank(g, r) == Cardinality({s \in Listing(g) : s >= r})

\* Page p of group g, and the NextPage of the response.
Page(g, p) == {r \in Listing(g) : (p - 1) * PerPage < Rank(g, r) /\ Rank(g, r) <= p * PerPage}
NextPage(g, p) == IF Cardinality(Listing(g)) > p * PerPage THEN p + 1 ELSE 0

TypeOK ==
    /\ conf \in [type : {"gitlab", "github"}, excludeArchived : BOOLEAN]
    /\ exists \subseteq Repo /\ archived \subseteq exists
    /\ job \in {"idle", "list", "enqueue"}
    /\ group \in 1..Groups
    /\ page \in 1..(Cardinality(Repo) + 1)
    /\ repos \subseteq Repo
    /\ changes \in 0..MaxChanges /\ failures \in 0..MaxFailures
    /\ stable \subseteq Repo
    /\ removals \in 0..MaxChanges

Init ==
    /\ conf \in [type : {"gitlab", "github"}, excludeArchived : BOOLEAN]
    /\ exists \in SUBSET Repo
    /\ archived \in SUBSET exists
    /\ job = "idle"
    /\ group = 1
    /\ page = 1
    /\ repos = {}
    /\ changes = 0
    /\ failures = 0
    /\ stable = {}
    /\ removals = 0

------------------------------------------------------------------------------
(***************************************************************************)
(* The job.                                                                *)
(***************************************************************************)

\* A crontab fires.
Fire ==
    /\ job = "idle"
    /\ job' = "list"
    /\ group' = 1
    /\ page' = 1
    /\ repos' = {}
    /\ stable' = Eligible \intersect UNION {InGroup[g] : g \in 1..Groups}
    /\ removals' = 0
    /\ UNCHANGED <<conf, exists, archived, changes, failures>>

\* Mutations: the loop does not look for the end of the pages; it reads only the
\* first page of each group.
ListPageNeverBreaks ==
    /\ job = "list"
    /\ repos' = repos \union (Page(group, page) \intersect Eligible)
    /\ page' = NextPage(group, page)
    /\ UNCHANGED <<conf, exists, archived, job, group, changes, failures, stable, removals>>

ListPageFirstOnly ==
    /\ job = "list"
    /\ repos' = repos \union (Page(group, page) \intersect Eligible)
    /\ IF group < Groups
         THEN group' = group + 1 /\ page' = 1 /\ UNCHANGED job
         ELSE job' = "enqueue" /\ UNCHANGED <<group, page>>
    /\ UNCHANGED <<conf, exists, archived, changes, failures, stable, removals>>

\* One list call: take its repositories (github.go leaves the archived ones
\* out), go on to the next page, the next group, or the enqueueing.
ListPage ==
    /\ job = "list"
    /\ repos' = repos \union (Page(group, page) \intersect Eligible)
    /\ LET next == NextPage(group, page) IN
         IF next # 0
           THEN page' = next /\ UNCHANGED <<job, group>>
           ELSE IF group < Groups
                  THEN group' = group + 1 /\ page' = 1 /\ UNCHANGED job
                  ELSE job' = "enqueue" /\ UNCHANGED <<group, page>>
    /\ UNCHANGED <<conf, exists, archived, changes, failures, stable, removals>>

\* Mutation: a failing page is left out and the job goes on.
ListFailsSkips ==
    /\ job = "list"
    /\ failures < MaxFailures
    /\ failures' = failures + 1
    /\ job' = "enqueue"
    /\ UNCHANGED <<conf, exists, archived, group, page, repos, changes, stable, removals>>

\* One list call fails: the job ends, and nothing it found is enqueued.
ListFails ==
    /\ job = "list"
    /\ failures < MaxFailures
    /\ failures' = failures + 1
    /\ job' = "idle"
    /\ repos' = {}
    /\ UNCHANGED <<conf, exists, archived, group, page, changes, stable, removals>>

\* The loop over the result: Enqueue of one repository, and the end of the job.
EnqueueNext(r) ==
    /\ job = "enqueue"
    /\ r \in repos
    /\ repos' = repos \ {r}
    /\ UNCHANGED <<conf, exists, archived, job, group, page, changes, failures, stable, removals>>

JobEnds ==
    /\ job = "enqueue"
    /\ repos = {}
    /\ job' = "idle"
    /\ UNCHANGED <<conf, exists, archived, group, page, repos, changes, failures, stable, removals>>

------------------------------------------------------------------------------
(***************************************************************************)
(* The platform.                                                           *)
(***************************************************************************)

\* The set of repositories and the archived ones change; an entry that is gone
\* from a listing moves the ones behind it to the front.
Change(es, as) ==
    /\ changes < MaxChanges
    /\ changes' = changes + 1
    /\ UNCHANGED <<conf, job, group, page, repos, failures>>
    /\ exists' = es
    /\ archived' = as
    /\ stable' = stable \intersect Eligible'
    /\ removals' = removals + Cardinality(
                     UNION {Listing(g) \ Listing(g)' : g \in 1..Groups})

\* A repository is created, and comes first in the listings from now on.
Created(r) ==
    /\ \A s \in exists : s < r
    /\ Change(exists \union {r}, archived)

Deleted(r) ==
    /\ r \in exists
    /\ Change(exists \ {r}, archived \ {r})

Archived(r) ==
    /\ r \in exists \ archived
    /\ Change(exists, archived \union {r})

Unarchived(r) ==
    /\ r \in archived
    /\ Change(exists, archived \ {r})

------------------------------------------------------------------------------
JobStep == ListPage \/ (\E r \in Repo : EnqueueNext(r)) \/ JobEnds

PlatformChanges ==
    \E r \in Repo : Created(r) \/ Deleted(r) \/ Archived(r) \/ Unarchived(r)

Next == Fire \/ JobStep \/ ListFails \/ PlatformChanges

Spec == Init /\ [][Next]_vars

\* The crontab keeps firing and the job is scheduled; the platform does what it likes.
FairSpec == Spec /\ WF_vars(Fire) /\ WF_vars(JobStep)

------------------------------------------------------------------------------
(***************************************************************************)
(* Properties.                                                             *)
(***************************************************************************)

(***************************************************************************)
(* "DiscoverRepos lists all projects of the configured groups"             *)
(* (gitlab.go:288): of the repositories that were there all along, a       *)
(* listing misses at most as many as left it while it was read.  Without   *)
(* removals it misses none, however many are created or unarchived.        *)
(***************************************************************************)
MissesBoundedByRemovals ==
    [][job = "list" /\ job' = "enqueue" =>
         Cardinality((stable \ repos)') <= removals']_vars

(***************************************************************************)
(* The next cron run is the retry (README.md:195): a repository that stays *)
(* in scope is found again and again once the platform stops changing and  *)
(* its calls stop failing, whatever earlier jobs missed.                   *)
(***************************************************************************)
EveryRepoIsEnqueued ==
    \A r \in Repo :
        <>[](r \in Eligible /\ \E g \in 1..Groups : r \in InGroup[g])
            => []<>(job = "enqueue" /\ r \in repos)

------------------------------------------------------------------------------
(***************************************************************************)
(* The inductive invariant behind MissesBoundedByRemovals.                 *)
(***************************************************************************)

\* Repositories that were there all along and that the listing has passed: their
\* group is done, or they have moved to a page of it that was read before.
Missed ==
    {r \in stable \ repos :
        \/ \E g \in 1..Groups : g < group /\ r \in InGroup[g]
        \/ r \in InGroup[group] /\ Rank(group, r) <= (page - 1) * PerPage}

DiscoveryInv ==
    /\ TypeOK
    /\ removals <= changes
    /\ stable \subseteq Eligible \intersect UNION {InGroup[g] : g \in 1..Groups}
    /\ job = "list" => Cardinality(Missed) <= removals
================================================================================
