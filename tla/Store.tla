-------------------------------- MODULE Store --------------------------------
(***************************************************************************)
(* The per-repository run table of internal/store, in the form the memory  *)
(* implementation and the Lua scripts of the redis implementation share:   *)
(* an absent entry, a queued one, or a running one with a pending rerun.   *)
(*                                                                         *)
(* Every operation is atomic: memory.go holds its mutex for the whole      *)
(* call, redis.go runs one Lua script.  The reason and since fields of an  *)
(* entry are reported by Snapshot and steer nothing, so they are left out. *)
(***************************************************************************)
CONSTANT Repo

VARIABLES
    state,         \* state[r]: r's entry in the repos map, "absent" when it has none
    pendingRerun   \* pendingRerun[r]: the entry's pendingRerun field

storeVars == <<state, pendingRerun>>

State == {"absent", "queued", "running"}

StoreTypeOK ==
    /\ state \in [Repo -> State]
    /\ pendingRerun \in [Repo -> BOOLEAN]

StoreInit ==
    /\ state = [r \in Repo |-> "absent"]
    /\ pendingRerun = [r \in Repo |-> FALSE]

\* Mutation: only a queued entry coalesces, a running one is queued anew.
QueueResultIgnoresRunning(s) == IF s = "queued" THEN "Coalesced" ELSE "Queued"

(***************************************************************************)
(* What Queue answers for a repository whose entry is in state s.          *)
(***************************************************************************)
QueueResult(s) ==
    CASE s = "absent"  -> "Queued"
      [] s = "running" -> "Deferred"
      [] OTHER         -> "Coalesced"

\* Mutation: an event during a run does not set the rerun flag.
QueueForgetsRerun(r) ==
    /\ state' = IF state[r] = "absent" THEN [state EXCEPT ![r] = "queued"] ELSE state
    /\ UNCHANGED pendingRerun

(***************************************************************************)
(* Queue: create a queued entry, or mark a running one for a rerun.        *)
(***************************************************************************)
Queue(r) ==
    /\ state' = IF state[r] = "absent" THEN [state EXCEPT ![r] = "queued"] ELSE state
    /\ pendingRerun' = [pendingRerun EXCEPT ![r] = @ \/ state[r] = "running"]

(***************************************************************************)
(* StartRun: the entry, if there is one, becomes running.                  *)
(***************************************************************************)
StartRun(r) ==
    /\ state' = IF state[r] = "absent" THEN state ELSE [state EXCEPT ![r] = "running"]
    /\ UNCHANGED pendingRerun

\* Mutation: the rerun flag outlives the entry.
FinishRunKeepsRerun(r) ==
    /\ state' = [state EXCEPT ![r] = "absent"]
    /\ UNCHANGED pendingRerun

(***************************************************************************)
(* FinishRun: the entry disappears; the call returns its pendingRerun flag *)
(* (pendingRerun[r] before the step, FALSE when there is no entry).        *)
(***************************************************************************)
FinishRun(r) ==
    /\ state' = [state EXCEPT ![r] = "absent"]
    /\ pendingRerun' = [pendingRerun EXCEPT ![r] = FALSE]

(***************************************************************************)
(* Adopt: a running entry, unless the repository already has an entry.     *)
(***************************************************************************)
Adopt(r) ==
    /\ state' = IF state[r] = "absent" THEN [state EXCEPT ![r] = "running"] ELSE state
    /\ UNCHANGED pendingRerun
==============================================================================
