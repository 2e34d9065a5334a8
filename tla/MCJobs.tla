--------------------------------- MODULE MCJobs ---------------------------------
(***************************************************************************)
(* Small instances of Jobs for TLC.                                        *)
(***************************************************************************)
EXTENDS Jobs

\* Every kubernetes executor has a namespace of its own.
NamespaceOf == [e \in Kube |-> e]

\* The executors share one namespace, which validate does not mind.
SharedNamespace == [e \in Kube |-> NoObject]

\* Goroutines, Jobs and containers are numbered, and a new one takes the
\* lowest free number.
LowestFree ==
    /\ \A w \in Worker :
         pc[w] = "free" /\ pc'[w] # "free" => \A v \in Worker : v < w => pc[v] # "free"
    /\ \A o \in Object :
         status[o] = "none" /\ status'[o] # "none" => \A n \in Object : n < o => ~Fresh(n)

================================================================================
