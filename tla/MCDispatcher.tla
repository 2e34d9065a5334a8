---------------------------- MODULE MCDispatcher ----------------------------
(***************************************************************************)
(* Small instances of Dispatcher for TLC.  The sets are model values given *)
(* in the .cfg files.                                                      *)
(***************************************************************************)
EXTENDS Dispatcher, TLC

\* Repositories and goroutines of one kind are interchangeable.
Symmetry ==
    Permutations(Repo) \union Permutations(Worker) \union
    Permutations(Handler) \union Permutations(CronJob)

(***************************************************************************)
(* TLC checks liveness without symmetry.  Goroutines are numbered here and *)
(* a new one takes the lowest free number (ACTION_CONSTRAINT), which names *)
(* the same runs with fewer states.                                        *)
(***************************************************************************)
LowestFree ==
    \A w \in Worker :
        pc[w] = "free" /\ pc'[w] # "free" => \A v \in Worker : v < w => pc[v] # "free"

(***************************************************************************)
(* Repositories compete for the semaphore while the server serves:         *)
(* nothing is adopted, nothing reloaded, and the server is not stopped.    *)
(***************************************************************************)
Competing == Next /\ LowestFree /\ UNCHANGED enabled /\ main' \in {"startup", "serving"}

CompetingInit == Init /\ toAdopt = {} /\ enabled = [r \in Repo |-> TRUE]

CompetingSpec == CompetingInit /\ [][Competing]_vars /\ Fairness

(***************************************************************************)
(* The cap is asked about after a restart that found no more runs than the *)
(* cap allows.                                                             *)
(***************************************************************************)
FewAdoptedSpec == Spec /\ Cardinality(toAdopt) <= MaxConcurrent
=============================================================================
