------------------------------- MODULE MCWal -------------------------------
(* Values of the constants of Wal for TLC. *)
EXTENDS Wal

\* Keys and values of different lengths, so that offsets tell entries apart.
CONSTANTS k1, v1
MCKeyLen == [k \in Keys |-> IF k = k1 THEN 1 ELSE 3]
MCValLen == [v \in Vals |-> IF v = v1 THEN 1 ELSE 4]
=============================================================================
