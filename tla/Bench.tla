------------------------------- MODULE Bench --------------------------------
(***************************************************************************)
(* The benchmark (src/bench/bench.rs): prefill, warm-up, the barrier that  *)
(* starts the measured run, the join of the clients and the statistics.    *)
(* The server is reduced to the keys it holds and to requests that may     *)
(* fail.  Clients are numbered from 0, as by enumerate().                  *)
(***************************************************************************)
EXTENDS Integers, Sequences, SequencesExt, FiniteSetsExt

CONSTANTS
  NClients, Operations, Warmup, Keyspace,   \* the arguments of the same names
  Workloads,   \* subset of {"read", "write", "read-overwrite"} to choose from
  Latencies    \* what a request may take

ASSUME BenchAssumption ==   \* validate()
  /\ NClients \in Nat \ {0} /\ Operations \in Nat \ {0} /\ Keyspace \in Nat \ {0}
  /\ Warmup \in Nat /\ Latencies \subseteq Nat

Clients == 0 .. NClients - 1
KeySpace == 0 .. Keyspace - 1

VARIABLES
  workload,
  main,       \* "prefill", "connect", "warmup", "spawned", "clocked",
              \* "barrier", "join", "done" or "failed"
  filled,     \* the keys fill_db_server has set so far
  db,         \* the keys the server holds
  client,     \* per client: "idle", "warming", "warm", "ready", "running", ...
  left,       \* per client: operations still to do in this phase
  lat_ns,     \* per client: the latencies of its measured run
  waiting,    \* who waits at start_barrier; -1 is the main task
  started,    \* the clock has been read
  completed, all_lat   \* what main has joined

vars == <<workload, main, filled, db, client, left, lat_ns, waiting, started,
          completed, all_lat>>
results == <<completed, all_lat>>

share_workload(total, id) ==
  total \div NClients + (IF id < total % NClients THEN 1 ELSE 0)

Init ==
  /\ workload \in Workloads
  /\ main = IF workload = "write" THEN "connect" ELSE "prefill"
  /\ filled = 0 /\ db = {}
  /\ client = [c \in Clients |-> "idle"] /\ left = [c \in Clients |-> 0]
  /\ lat_ns = [c \in Clients |-> <<>>]
  /\ waiting = {} /\ started = FALSE /\ completed = 0 /\ all_lat = <<>>

-----------------------------------------------------------------------------
(* The main task *)

\* fill_db_server: one SET after the other.
Prefill ==
  /\ main = "prefill"
  /\ IF filled = Keyspace THEN main' = "connect" /\ UNCHANGED <<filled, db>>
     ELSE filled' = filled + 1 /\ db' = db \cup {filled} /\ UNCHANGED main
  /\ UNCHANGED <<workload, client, left, lat_ns, waiting, started, results>>

\* Connect every client and spawn its warm-up.
SpawnWarmup ==
  /\ main = "connect"
  /\ main' = "warmup"
  /\ client' = [c \in Clients |-> "warming"]
  /\ left' = [c \in Clients |-> share_workload(Warmup, c)]
  /\ UNCHANGED <<workload, filled, db, lat_ns, waiting, started, results>>

\* warmup_tasks.join_next() has returned every client; spawn the measured tasks.
SpawnMeasured ==
  /\ main = "warmup" /\ \A c \in Clients : client[c] = "warm"
  /\ main' = "spawned"
  /\ client' = [c \in Clients |-> "ready"]
  /\ left' = [c \in Clients |-> share_workload(Operations, c)]
  /\ UNCHANGED <<workload, filled, db, lat_ns, waiting, started, results>>

\* `started = Instant::now()`, before the barrier.
ReadClock ==
  /\ main = "spawned"
  /\ started' = TRUE /\ main' = "clocked"
  /\ UNCHANGED <<workload, filled, db, client, left, lat_ns, waiting, results>>

SizeWithoutMain == NClients   \* mutant
BarrierSize == NClients + 1

\* tokio's Barrier: the last one to arrive releases all of them.
Arrive(x) ==
  IF Cardinality(waiting) + 1 < BarrierSize
  THEN /\ waiting' = waiting \cup {x}
       /\ IF x = -1 THEN main' = "barrier" /\ UNCHANGED client
          ELSE client' = [client EXCEPT ![x] = "barrier"] /\ UNCHANGED main
  ELSE /\ waiting' = {}
       /\ main' = IF -1 \in waiting \cup {x} THEN "join" ELSE main
       /\ client' = [c \in Clients |->
                       IF c \in waiting \cup {x} THEN "running" ELSE client[c]]

MainArrives ==
  /\ main = "clocked" /\ Arrive(-1)
  /\ UNCHANGED <<workload, filled, db, left, lat_ns, started, results>>

\* tasks.join_next(): add up what a finished client reports.
Join(c) ==
  /\ main = "join" /\ client[c] = "finished"
  /\ client' = [client EXCEPT ![c] = "joined"]
  /\ completed' = completed + share_workload(Operations, c)
  /\ all_lat' = all_lat \o lat_ns[c]
  /\ UNCHANGED <<workload, main, filled, db, left, lat_ns, waiting, started>>

\* sort_unstable(): the same samples, in order.
Sortings(s) ==
  {t \in [DOMAIN s -> ToSet(s)] :
     /\ \A i, j \in DOMAIN s : i <= j => t[i] <= t[j]
     /\ \A v \in ToSet(s) : Cardinality({i \in DOMAIN s : t[i] = v})
                             = Cardinality({i \in DOMAIN s : s[i] = v})}

\* ensure!, the sort and the report.
Report ==
  /\ main = "join" /\ \A c \in Clients : client[c] = "joined"
  /\ main' = IF Len(all_lat) = completed THEN "done" ELSE "failed"
  /\ all_lat' \in IF Len(all_lat) = completed THEN Sortings(all_lat) ELSE {all_lat}
  /\ UNCHANGED <<workload, filled, db, client, left, lat_ns, waiting, started, completed>>

\* An error of the prefill or of a task reaches main: it returns, and the
\* JoinSet it drops aborts the other tasks.
Abort ==
  /\ \/ main \in {"prefill", "connect"}
     \/ main \in {"warmup", "join"} /\ \E c \in Clients : client[c] = "failed"
  /\ main' = "failed" /\ client' = [c \in Clients |-> "over"]
  /\ UNCHANGED <<workload, filled, db, left, lat_ns, waiting, started, results>>

-----------------------------------------------------------------------------
(* The clients *)

TaskArrives(c) ==
  /\ client[c] = "ready" /\ Arrive(c)
  /\ UNCHANGED <<workload, filled, db, left, lat_ns, started, results>>

\* check_response: whether the answer to this request is the expected one.
Hit(is_get, k) == is_get => k \in db

\* One round of Client::run.  The latencies of a warm-up are thrown away.
Run(c) ==
  /\ client[c] \in {"warming", "running"} /\ left[c] > 0
  /\ \E k \in KeySpace, t \in Latencies,
        is_get \in {b \in BOOLEAN : \/ workload = "read-overwrite"
                                    \/ b = (workload = "read")} :
       /\ db' = IF is_get THEN db ELSE db \cup {k}
       /\ IF Hit(is_get, k)
          THEN /\ left' = [left EXCEPT ![c] = @ - 1]
               /\ lat_ns' = IF client[c] = "running"
                            THEN [lat_ns EXCEPT ![c] = Append(@, t)] ELSE lat_ns
               /\ UNCHANGED client
          ELSE client' = [client EXCEPT ![c] = "failed"] /\ UNCHANGED <<left, lat_ns>>
  /\ UNCHANGED <<workload, main, filled, waiting, started, results>>

\* The request fails on its way, or the server answers an error.
RequestFails(c) ==
  /\ client[c] \in {"warming", "running"} /\ left[c] > 0
  /\ client' = [client EXCEPT ![c] = "failed"]
  /\ UNCHANGED <<workload, main, filled, db, left, lat_ns, waiting, started, results>>

Finish(c) ==
  /\ client[c] \in {"warming", "running"} /\ left[c] = 0
  /\ client' = [client EXCEPT ![c] = IF @ = "warming" THEN "warm" ELSE "finished"]
  /\ UNCHANGED <<workload, main, filled, db, left, lat_ns, waiting, started, results>>

MainStep == \/ Prefill \/ SpawnWarmup \/ SpawnMeasured \/ ReadClock \/ MainArrives
            \/ Report \/ Abort \/ \E c \in Clients : Join(c)
Task(c) == TaskArrives(c) \/ Run(c) \/ Finish(c)

Next ==
  \/ Prefill \/ SpawnWarmup \/ SpawnMeasured \/ ReadClock \/ MainArrives
  \/ Report \/ Abort
  \/ \E c \in Clients : Join(c) \/ TaskArrives(c) \/ Run(c) \/ Finish(c) \/ RequestFails(c)

Spec == Init /\ [][Next]_vars

\* Both the tasks and the server make progress.
FairSpec == Spec /\ WF_vars(MainStep) /\ \A c \in Clients : WF_vars(Task(c))

-----------------------------------------------------------------------------
(* Statistics *)

PercentileNext(sorted, q) ==   \* mutant: the rank taken for the index
  sorted[Min({(q * Len(sorted) + 999) \div 1000 + 1, Len(sorted)})]
\* q in thousandths.  rank is ceil(q * len); indices count from 1 here.
percentile(sorted, q) ==
  LET rank == (q * Len(sorted) + 999) \div 1000
      index == IF rank = 0 THEN 0 ELSE rank - 1
  IN sorted[Min({index, Len(sorted) - 1}) + 1]

\* The nearest-rank percentile: the least sample that at least q of the
\* samples do not exceed.
NearestRank(s, q) ==
  Min({v \in ToSet(s) : 1000 * Cardinality({i \in DOMAIN s : s[i] <= v}) >= q * Len(s)})

-----------------------------------------------------------------------------
(* Properties *)

(* The measured run is measured: no client sends a request of it before all *)
(* of them have warmed up and the clock has been read, so that `elapsed`    *)
(* covers every sample and no warm-up traffic.                              *)
MeasuredTogether ==
  \A c \in Clients : client[c] \in {"running", "finished", "joined"} =>
    started /\ \A d \in Clients : client[d] \notin {"idle", "warming", "warm", "ready"}

(* A finished benchmark reports what happened: exactly the operations asked *)
(* for, one sample for each, and the nearest-rank percentiles of all of     *)
(* them, whatever the number of clients and the order in which they finish. *)
ReportExact ==
  main = "done" =>
    /\ completed = Operations /\ Len(all_lat) = Operations
    /\ \A q \in {500, 900, 950, 990, 999} :
         percentile(all_lat, q) = NearestRank(all_lat, q)

(* Liveness: the benchmark ends; nobody waits at the barrier for ever, with *)
(* failing requests too.                                                    *)
BenchEnds == <>(main \in {"done", "failed"})
=============================================================================
