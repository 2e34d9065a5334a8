------------------------------- MODULE RepoRuns -------------------------------
(***************************************************************************)
(* What the dispatcher promises to the senders of events, with no queue,   *)
(* semaphore, timer or goroutine in sight: a repository has at most one    *)
(* run in flight, and an accepted event is followed by a run that starts   *)
(* after it, unless the rules disable the repository or the process stops. *)
(***************************************************************************)
CONSTANT Repo

VARIABLES
    phase,     \* "starting", "up", "cancelled" or "over"
    enabled,   \* repositories the rules do not disable
    pending,   \* repositories with an accepted event that no run has seen
    running    \* repositories with a run in flight

vars == <<phase, enabled, pending, running>>

Init ==
    /\ phase = "starting"
    /\ enabled \in SUBSET Repo
    /\ pending = {}
    /\ running = {}

Request(r) ==
    /\ phase # "over"
    /\ pending' = pending \union {r}
    /\ UNCHANGED <<phase, enabled, running>>

\* A run left behind by an earlier process is taken over, at startup only.
TakeOver(r) ==
    /\ phase = "starting"
    /\ r \notin running
    /\ running' = running \union {r}
    /\ UNCHANGED <<phase, enabled, pending>>

\* A run starts: it sees every event accepted so far.
Start(r) ==
    /\ phase # "over"
    /\ r \notin running
    /\ running' = running \union {r}
    /\ pending' = pending \ {r}
    /\ UNCHANGED <<phase, enabled>>

Finish(r) ==
    /\ phase # "over"
    /\ r \in running
    /\ running' = running \ {r}
    /\ UNCHANGED <<phase, enabled, pending>>

\* An event is given up, for one of two reasons.
Drop(r) ==
    /\ phase = "cancelled" \/ (phase # "over" /\ r \notin enabled)
    /\ r \in pending \ running
    /\ pending' = pending \ {r}
    /\ UNCHANGED <<phase, enabled, running>>

Configure ==
    /\ phase \in {"up", "cancelled"}
    /\ enabled' \in SUBSET Repo
    /\ UNCHANGED <<phase, pending, running>>

Advance ==
    /\ <<phase, phase'>> \in
         {<<"starting", "up">>, <<"up", "cancelled">>, <<"up", "over">>, <<"cancelled", "over">>}
    /\ UNCHANGED <<enabled, pending, running>>

Next ==
    \/ \E r \in Repo :
         Request(r) \/ TakeOver(r) \/ Start(r) \/ Finish(r) \/ Drop(r)
    \/ Configure
    \/ Advance

Safe == Init /\ [][Next]_vars

\* Every accepted event is served or given up, and every run ends.
Live ==
    \A r \in Repo :
        /\ (r \in pending) ~> (r \notin pending \/ phase = "over")
        /\ (r \in running) ~> (r \notin running \/ phase = "over")

Spec == Safe /\ Live
===============================================================================
