-------------------------- MODULE WorkerRefinement --------------------------
(***************************************************************************)
(* Worker implements KVStore, and is the task that WorkerTask describes.   *)
(***************************************************************************)
EXTENDS Worker

\* The entries a scan of the file would find: those in front of any junk.
ScanLength(f) ==
  CHOOSE n \in 0..Len(f) : /\ \A i \in 1..n : f[i].rec # Junk
                           /\ n < Len(f) => f[n + 1].rec = Junk
Scanned(f) == [i \in 1..ScanLength(f) |-> f[i].rec]

\* A write is the store's when its effect is there; the entry that waits for
\* its fsync is not yet.
StoreLog ==
  CASE ~Running -> Scanned(file)
    [] pc = "fsync" -> SubSeq(logged, 1, Len(logged) - 1)
    [] OTHER -> logged

KV == INSTANCE KVStore WITH
        up <- Running, log <- StoreLog, settled <- sound,
        view <- memory_index, ans <- rsp

Task == INSTANCE WorkerTask WITH
          state <- CASE pc = "off" -> "free" [] pc = "exited" -> "exited"
                     [] OTHER -> "running",
          holders <- Holders \cup (IF main_sender THEN {NoOne} ELSE {})

\* The worker with its queue, log, fsyncs and recovery answers and forgets as
\* the store KVStore does: linearizable, and a restart loses a suffix at most.
ImplementsKVStore == KV!Spec

\* execute_queries ends when the last clone of the sender is gone and then
\* notifies: what Manager assumes of the worker of each database.
IsWorkerTask == Task!Spec
=============================================================================
