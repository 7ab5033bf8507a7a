----------------------------- MODULE MCManager -----------------------------
(* Values of the constants of Manager for TLC. *)
EXTENDS Manager, TLC

\* Connections are interchangeable: sound for the runs without liveness.
ConnSymmetry == Permutations(Conns)
=============================================================================
