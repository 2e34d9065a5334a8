---------------------------- MODULE MCRedisServer ----------------------------
(***************************************************************************)
(* Small instances of RedisServer for TLC.                                 *)
(***************************************************************************)
EXTENDS RedisServer, TLC

Symmetry ==
    Permutations(Worker) \union Permutations(Pipeline) \union Permutations(Handler)

(***************************************************************************)
(* For liveness, which TLC checks without symmetry, a new goroutine takes  *)
(* the lowest free number and a new pipeline the lowest fresh one          *)
(* (ACTION_CONSTRAINT): the same runs, fewer names for them.               *)
(***************************************************************************)
LowestFree ==
    /\ \A w \in Worker :
         pc[w] = "free" /\ pc'[w] # "free" => \A v \in Worker : v < w => pc[v] # "free"
    /\ \A i \in Pipeline :
         live[i] = NoRepo /\ live'[i] # NoRepo => \A j \in Pipeline : j < i => ~Fresh(j)
==============================================================================
