------------------------------ MODULE MCWorker ------------------------------
(* Values of the constants of Worker for TLC. *)
EXTENDS WorkerRefinement, TLC

CONSTANTS k1, v1
MCKeyLen == [k \in Keys |-> IF k = k1 THEN 1 ELSE 4]
MCValLen == [v \in Vals |-> IF v = v1 THEN 1 ELSE 4]

\* Connections are interchangeable: sound for the runs without liveness.
ClientSymmetry == Permutations(Clients)
=============================================================================
