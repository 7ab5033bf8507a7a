---------------------------- MODULE BenchProofs ----------------------------
(***************************************************************************)
(* What TLAPS proves about Bench, for every number of clients and of       *)
(* operations and every set of latencies: the measured run starts at one   *)
(* instant, the report counts every operation once, and percentile() is    *)
(* the nearest-rank percentile.                                            *)
(*                                                                         *)
(* Two facts carry it.  The barrier has one place for each client and one  *)
(* for main, so that it is full only when everybody waits (PhaseInv); and  *)
(* share_workload deals the operations out, so that the sum over any set   *)
(* of joined clients is known from two cardinalities (JoinInv).            *)
(***************************************************************************)
EXTENDS Bench, FiniteSetTheorems, TLAPS

ClientStates == {"idle", "warming", "warm", "ready", "barrier", "running",
                 "failed", "finished", "joined", "over"}

BenchTypeOK ==
  /\ main \in {"prefill", "connect", "warmup", "spawned", "clocked", "barrier",
               "join", "done", "failed"}
  /\ client \in [Clients -> ClientStates]
  /\ left \in [Clients -> Nat]
  /\ lat_ns \in [Clients -> Seq(Nat)]
  /\ waiting \subseteq Clients \cup {-1}
  /\ started \in BOOLEAN
  /\ completed \in Nat
  /\ all_lat \in Seq(Nat)

\* Where the clients can be while main is where it is.
ClientsAt(m) ==
  CASE m \in {"prefill", "connect"} -> {"idle"}
    [] m = "warmup" -> {"warming", "warm", "failed"}
    [] m \in {"spawned", "clocked", "barrier"} -> {"ready", "barrier"}
    [] m = "join" -> {"running", "failed", "finished", "joined"}
    [] m = "done" -> {"joined"}
    [] m = "failed" -> {"over"}

PhaseInv ==
  /\ \A c \in Clients : client[c] \in ClientsAt(main)
  /\ waiting = {c \in Clients : client[c] = "barrier"}
                 \cup (IF main = "barrier" THEN {-1} ELSE {})
  /\ main \in {"clocked", "barrier", "join", "done"} => started

\* A client has a sample for every operation it has done.
SampleInv ==
  \A c \in Clients :
    /\ client[c] \in {"idle", "warming", "warm", "ready", "barrier"} => lat_ns[c] = <<>>
    /\ client[c] \in {"ready", "barrier"} => left[c] = share_workload(Operations, c)
    /\ client[c] = "running" =>
         left[c] + Len(lat_ns[c]) = share_workload(Operations, c)
    /\ client[c] \in {"finished", "joined"} =>
         Len(lat_ns[c]) = share_workload(Operations, c)

\* The operations of the clients of S: each has the quotient, the first ones
\* one more.
Share(S) ==
  Cardinality(S) * (Operations \div NClients)
    + Cardinality({c \in S : c < Operations % NClients})

Joined == {c \in Clients : client[c] = "joined"}

JoinInv ==
  /\ main # "failed" => completed = Share(Joined) /\ Len(all_lat) = completed
  /\ main = "done" => \A i, j \in DOMAIN all_lat : i <= j => all_lat[i] <= all_lat[j]

BenchInv == BenchTypeOK /\ PhaseInv /\ SampleInv /\ JoinInv

-----------------------------------------------------------------------------
(* Facts about the operators of the model. *)

\* Quotient and remainder.
LEMMA DivMod ==
  ASSUME NEW a \in Nat, NEW b \in Nat \ {0}
  PROVE  /\ a \div b \in Nat /\ a % b \in 0..(b - 1)
         /\ b * (a \div b) + (a % b) = a
OBVIOUS

\* A share of the work is a number of operations.
LEMMA ShareNat ==
  ASSUME NEW total \in Nat, NEW c \in Clients
  PROVE  share_workload(total, c) \in Nat
BY DivMod, BenchAssumption DEF share_workload, Clients

\* The clients are NClients many, and finitely many.
LEMMA ClientsFinite ==
  /\ IsFiniteSet(Clients) /\ Cardinality(Clients) = NClients
  /\ \A S \in SUBSET Clients : IsFiniteSet(S) /\ Cardinality(S) \in Nat
<1>1. IsFiniteSet(Clients) /\ Cardinality(Clients) = NClients
  BY FS_Interval, BenchAssumption DEF Clients
<1>2. ASSUME NEW S \in SUBSET Clients PROVE IsFiniteSet(S) /\ Cardinality(S) \in Nat
  BY <1>1, FS_Subset, FS_CardinalityType
<1> QED
  BY <1>1, <1>2

\* One client more adds its share.
LEMMA ShareAdds ==
  ASSUME NEW S \in SUBSET Clients, NEW c \in Clients, c \notin S
  PROVE  /\ Share(S) \in Nat
         /\ Share(S \cup {c}) = Share(S) + share_workload(Operations, c)
<1> DEFINE d == Operations \div NClients
           m == Operations % NClients
           First(T) == {x \in T : x < m}
           n == Cardinality(S)
           k == Cardinality(First(S))
<1>1. d \in Nat /\ m \in Nat
  BY DivMod, BenchAssumption
<1>2. IsFiniteSet(S) /\ n \in Nat /\ IsFiniteSet(First(S)) /\ k \in Nat
  BY ClientsFinite
<1>3. Cardinality(S \cup {c}) = n + 1
  BY <1>2, FS_AddElement
<1>4. Cardinality(First(S \cup {c})) = k + (IF c < m THEN 1 ELSE 0)
  <2>1. CASE c < m
    <3>1. First(S \cup {c}) = First(S) \cup {c} /\ c \notin First(S)
      BY <2>1
    <3> QED
      BY <1>2, <2>1, <3>1, FS_AddElement
  <2>2. CASE ~(c < m)
    <3>1. First(S \cup {c}) = First(S)
      BY <2>2
    <3> HIDE DEF k, First
    <3> QED
      BY <1>2, <2>2, <3>1 DEF k
  <2> QED
    BY <2>1, <2>2
<1>5. /\ Share(S) = n * d + k
      /\ Share(S \cup {c}) = Cardinality(S \cup {c}) * d + Cardinality(First(S \cup {c}))
      /\ share_workload(Operations, c) = d + (IF c < m THEN 1 ELSE 0)
  BY DEF Share, share_workload
<1> HIDE DEF d, m, n, k, First
<1>6. n * d \in Nat /\ (n + 1) * d = n * d + d
  BY <1>1, <1>2
<1>7. CASE c < m
  BY <1>1, <1>2, <1>3, <1>4, <1>5, <1>6, <1>7
<1>8. CASE ~(c < m)
  BY <1>1, <1>2, <1>3, <1>4, <1>5, <1>6, <1>8
<1> QED
  BY <1>7, <1>8

\* Nobody's share is nothing, and all of them together do all operations.
LEMMA ShareOfAll ==
  Share({}) = 0 /\ Share(Clients) = Operations
<1> DEFINE d == Operations \div NClients
           m == Operations % NClients
<1>1. d \in Nat /\ m \in 0..(NClients - 1) /\ NClients * d + m = Operations
  BY DivMod, BenchAssumption
<1>2. Share({}) = 0
  <2>1. {c \in {} : c < m} = {} /\ Cardinality({}) = 0
    BY FS_EmptySet
  <2> QED
    BY <1>1, <2>1 DEF Share
<1>3. Cardinality({c \in Clients : c < m}) = m
  <2>1. {c \in Clients : c < m} = 0..(m - 1)
    BY <1>1, BenchAssumption DEF Clients
  <2>2. Cardinality(0..(m - 1)) = m
    BY <1>1, BenchAssumption, FS_Interval
  <2> QED
    BY <2>1, <2>2
<1>4. Share(Clients) = Operations
  BY <1>1, <1>3, ClientsFinite DEF Share
<1> QED
  BY <1>2, <1>4

\* Min of a set that has a least element is that element.
LEMMA MinIs ==
  ASSUME NEW S \in SUBSET Nat, NEW i \in S, \A j \in S : i <= j
  PROVE  Min(S) = i
<1>1. Min(S) \in S /\ \A y \in S : Min(S) <= y
  BY DEF Min
<1>2. Min(S) \in Nat /\ i \in Nat /\ Min(S) <= i /\ i <= Min(S)
  BY <1>1
<1> QED
  BY <1>2

-----------------------------------------------------------------------------
(* The statistics. *)

\* The quantiles percentile() can be asked for, and a sorted list.
Thousandths == 1..1000
Ascending(s) == \A i, j \in DOMAIN s : i <= j => s[i] <= s[j]

\* percentile() returns the nearest-rank percentile: for every sorted list of
\* samples and every quantile, in thousandths, the least sample that at least
\* that share of the samples does not exceed.
THEOREM PercentileIsNearestRank ==
  ASSUME NEW s \in Seq(Nat), NEW q \in Thousandths, s # <<>>, Ascending(s)
  PROVE  percentile(s, q) = NearestRank(s, q)
<1> DEFINE n == Len(s)
           p == q * n
           r == (p + 999) \div 1000
           Below(v) == {i \in DOMAIN s : s[i] <= v}
           A == {v \in ToSet(s) : 1000 * Cardinality(Below(v)) >= q * Len(s)}
<1>1. n \in Nat /\ n > 0 /\ DOMAIN s = 1..n /\ \A i \in 1..n : s[i] \in Nat
  OBVIOUS
<1>2. p \in Nat /\ p > 0 /\ p <= 1000 * n
  <2>1. ASSUME NEW x \in 1..1000, NEW y \in Nat \ {0}
        PROVE  x * y \in Nat /\ x * y > 0 /\ x * y <= 1000 * y
    OBVIOUS
  <2> QED
    BY <1>1, <2>1 DEF Thousandths
<1>3. r \in 1..n /\ 1000 * r >= p /\ 1000 * (r - 1) < p
  <2> HIDE DEF p, n
  <2> QED
    BY <1>1, <1>2
<1>4. percentile(s, q) = s[r]
  <2>1. Min({r - 1, n - 1}) = r - 1
    <3> HIDE DEF r, n
    <3>1. {r - 1, n - 1} \in SUBSET Nat /\ r - 1 <= n - 1 /\ r - 1 <= r - 1
      BY <1>1, <1>3
    <3> QED
      BY <3>1, MinIs
  <2>2. percentile(s, q) = s[Min({IF r = 0 THEN 0 ELSE r - 1, n - 1}) + 1]
    BY DEF percentile
  <2>3. (IF r = 0 THEN 0 ELSE r - 1) = r - 1 /\ (r - 1) + 1 = r
    BY <1>1, <1>3
  <2> HIDE DEF r, n
  <2> QED
    BY <2>1, <2>2, <2>3
<1> HIDE DEF r, p, n
<1>5. \A v : /\ Below(v) \in SUBSET (1..n) /\ IsFiniteSet(Below(v))
             /\ Cardinality(Below(v)) \in Nat
  <2> TAKE v
  <2>1. Below(v) \in SUBSET (1..n)
    BY <1>1
  <2>2. IsFiniteSet(1..n)
    BY <1>1, FS_Interval
  <2> QED
    BY <2>1, <2>2, FS_Subset, FS_CardinalityType
<1>6. s[r] \in A
  <2>1. 1..r \in SUBSET Below(s[r])
    <3> SUFFICES ASSUME NEW i \in 1..r PROVE i \in DOMAIN s /\ s[i] <= s[r]
      BY Zenon
    <3>1. i \in DOMAIN s /\ r \in DOMAIN s /\ i <= r
      BY <1>1, <1>3
    <3> QED
      BY <3>1, Zenon DEF Ascending
  <2>2. Cardinality(1..r) = r
    BY <1>1, <1>3, FS_Interval
  <2>3. Cardinality(1..r) <= Cardinality(Below(s[r]))
    BY <1>5, <2>1, FS_Subset
  <2>4. 1000 * Cardinality(Below(s[r])) >= p
    <3> DEFINE k == Cardinality(Below(s[r]))
    <3>1. k \in Nat /\ r <= k
      <4>1. k \in Nat
        BY <1>5
      <4> HIDE DEF A, Below
      <4> QED
        BY <2>2, <2>3, <4>1
    <3> HIDE DEF k
    <3>2. 1000 * k >= p
      BY <1>1, <1>2, <1>3, <3>1
    <3> QED
      BY <3>2 DEF k
  <2>5. s[r] \in ToSet(s)
    <3>1. r \in DOMAIN s
      BY <1>1, <1>3
    <3> QED
      BY <3>1, Zenon DEF ToSet
  <2> HIDE DEF Below
  <2>6. 1000 * Cardinality(Below(s[r])) >= q * Len(s)
    BY <2>4 DEF p, n
  <2> QED
    BY <2>5, <2>6
<1>7. ASSUME NEW v \in A PROVE s[r] <= v
  <2>1. v \in Nat /\ s[r] \in Nat
    BY <1>1, <1>3 DEF ToSet
  <2>2. SUFFICES ASSUME v < s[r] PROVE FALSE
    BY <2>1
  <2>3. Below(v) \in SUBSET (1..(r - 1))
    <3>1. ASSUME NEW i \in 1..n, s[i] <= v, r <= i PROVE FALSE
      <4> HIDE DEF A, Below
      <4>1. r \in DOMAIN s /\ i \in DOMAIN s /\ s[i] \in Nat
        BY <1>1, <1>3
      <4>2. s[r] <= s[i]
        BY <3>1, <4>1, Zenon DEF Ascending
      <4> QED
        BY <2>1, <2>2, <3>1, <4>1, <4>2
    <3> QED
      BY <1>1, <1>3, <3>1
  <2>4. 1000 * Cardinality(Below(v)) >= p
    BY DEF p, n
  <2> HIDE DEF A, Below
  <2>5. IsFiniteSet(1..(r - 1)) /\ Cardinality(1..(r - 1)) = r - 1
    <3>1. r - 1 \in Nat
      BY <1>1, <1>3
    <3> QED
      BY <3>1, FS_Interval
  <2>6. Cardinality(Below(v)) <= r - 1
    <3> DEFINE I == 1..(r - 1)
    <3>1. IsFiniteSet(I) /\ Cardinality(I) = r - 1 /\ Below(v) \in SUBSET I
      BY <2>3, <2>5
    <3> HIDE DEF I
    <3>2. Cardinality(Below(v)) <= Cardinality(I)
      BY <3>1, FS_Subset
    <3> QED
      BY <3>1, <3>2
  <2> DEFINE k == Cardinality(Below(v))
  <2>7. k \in Nat /\ k <= r - 1 /\ 1000 * k >= p
    BY <1>5, <2>4, <2>6
  <2> HIDE DEF k
  <2> QED
    BY <1>1, <1>2, <1>3, <2>7
<1>8. NearestRank(s, q) = Min(A)
  BY DEF NearestRank
<1>9. A \in SUBSET Nat
  BY <1>1 DEF ToSet
<1> HIDE DEF A
<1> QED
  BY <1>4, <1>6, <1>7, <1>8, <1>9, MinIs

-----------------------------------------------------------------------------
(* Every action keeps the invariant. *)

\* The barrier opens only when every client and main are at it.
LEMMA BarrierFull ==
  ASSUME NEW W \in SUBSET (Clients \cup {-1}), NEW x \in Clients \cup {-1},
         x \notin W, ~(Cardinality(W) + 1 < BarrierSize)
  PROVE  W \cup {x} = Clients \cup {-1}
<1>1. -1 \notin Clients /\ IsFiniteSet(Clients) /\ Cardinality(Clients) = NClients
  BY ClientsFinite DEF Clients
<1>2. /\ IsFiniteSet(Clients \cup {-1})
      /\ Cardinality(Clients \cup {-1}) = NClients + 1
  BY <1>1, FS_AddElement
<1>3. IsFiniteSet(W) /\ Cardinality(W) \in Nat
  BY <1>2, FS_Subset, FS_CardinalityType
<1>4. Cardinality(W \cup {x}) = Cardinality(W) + 1
  BY <1>3, FS_AddElement
<1>5. Cardinality(W \cup {x}) <= Cardinality(Clients \cup {-1})
  BY <1>2, FS_Subset
<1>6. Cardinality(W \cup {x}) = Cardinality(Clients \cup {-1})
  BY <1>2, <1>3, <1>4, <1>5, BenchAssumption DEF BarrierSize
<1> QED
  BY <1>2, <1>6, FS_Subset

\* A step that joins nobody and leaves main running keeps the totals.
LEMMA SameTotals ==
  ASSUME BenchInv, Joined' = Joined, UNCHANGED results,
         main # "failed" \/ main' = "failed", main' # "done"
  PROVE  JoinInv'
BY DEF BenchInv, JoinInv, results, Share

\* Arriving at the barrier: to wait there, or to start the run for everybody.
LEMMA ArriveInv ==
  ASSUME BenchInv, NEW x \in Clients \cup {-1}, Arrive(x),
         main \in {"spawned", "clocked", "barrier"},
         x = -1 => main = "clocked", x # -1 => client[x] = "ready",
         UNCHANGED <<left, lat_ns, started, results>>
  PROVE  BenchInv'
<1> USE DEF BenchInv
<1>1. /\ x \notin waiting /\ -1 \notin Clients
      /\ \A c \in Clients : client[c] \in {"ready", "barrier"}
  BY DEF PhaseInv, ClientsAt, Clients
<1>2. CASE Cardinality(waiting) + 1 < BarrierSize
  <2>1. CASE x = -1
    <3>1. waiting' = waiting \cup {-1} /\ main' = "barrier" /\ client' = client
      BY <1>2, <2>1 DEF Arrive
    <3>2. BenchTypeOK' /\ SampleInv'
      BY <3>1 DEF BenchTypeOK, SampleInv, results
    <3>3. PhaseInv'
      BY <1>1, <2>1, <3>1 DEF PhaseInv, ClientsAt
    <3>4. Joined' = Joined
      BY <3>1 DEF Joined
    <3> QED
      BY <3>1, <3>2, <3>3, <3>4, SameTotals
  <2>2. CASE x # -1
    <3>1. /\ waiting' = waiting \cup {x} /\ main' = main /\ x \in Clients
          /\ client' = [client EXCEPT ![x] = "barrier"]
      BY <1>2, <2>2 DEF Arrive
    <3>2. BenchTypeOK' /\ SampleInv'
      BY <2>2, <3>1 DEF BenchTypeOK, SampleInv, results, ClientStates
    <3>3. PhaseInv'
      BY <1>1, <2>2, <3>1 DEF PhaseInv, ClientsAt, BenchTypeOK
    <3>4. Joined' = Joined
      BY <2>2, <3>1 DEF Joined, BenchTypeOK
    <3> QED
      BY <3>1, <3>2, <3>3, <3>4, SameTotals
  <2> QED
    BY <2>1, <2>2
<1>3. CASE ~(Cardinality(waiting) + 1 < BarrierSize)
  <2>1. waiting \cup {x} = Clients \cup {-1}
    BY <1>1, <1>3, BarrierFull DEF BenchTypeOK
  <2>2. /\ waiting' = {} /\ main' = "join"
        /\ client' = [c \in Clients |-> "running"]
    BY <1>3, <2>1 DEF Arrive
  <2>3. started'
    BY <1>1, <2>1 DEF PhaseInv
  <2>4. BenchTypeOK'
    BY <2>2 DEF BenchTypeOK, results, ClientStates
  <2>5. PhaseInv'
    BY <2>2, <2>3 DEF PhaseInv, ClientsAt
  <2>6. SampleInv'
    <3> SUFFICES ASSUME NEW c \in Clients
                 PROVE  left[c] + Len(lat_ns[c]) = share_workload(Operations, c)
      BY <2>2 DEF SampleInv
    <3>1. left[c] = share_workload(Operations, c) /\ lat_ns[c] = <<>> /\ left[c] \in Nat
      BY <1>1 DEF SampleInv, BenchTypeOK
    <3> QED
      BY <3>1
  <2>7. Joined' = Joined
    BY <1>1, <2>2 DEF Joined
  <2> QED
    BY <2>2, <2>4, <2>5, <2>6, <2>7, SameTotals
<1> QED
  BY <1>2, <1>3

\* Prefill and the spawns: nothing is measured yet.
LEMMA EarlyInv ==
  ASSUME BenchInv, Prefill \/ SpawnWarmup \/ SpawnMeasured \/ ReadClock
  PROVE  BenchInv'
<1> USE DEF BenchInv
<1>1. /\ UNCHANGED <<lat_ns, waiting, completed, all_lat, results>>
      /\ main' \notin {"join", "done", "failed"} /\ main # "failed"
      /\ \A c \in Clients : client[c] \in {"idle", "warming", "warm", "failed", "ready", "barrier"}
  BY DEF Prefill, SpawnWarmup, SpawnMeasured, ReadClock, results, PhaseInv,
     ClientsAt
<1>2. Joined = {}
  BY <1>1 DEF Joined
<1>3. CASE Prefill
  <2>1. main' \in {"prefill", "connect"} /\ main = "prefill" /\ UNCHANGED <<client, left, started>>
    BY <1>3 DEF Prefill
  <2>2. BenchTypeOK' /\ PhaseInv' /\ SampleInv' /\ Joined' = Joined
    BY <1>1, <2>1 DEF BenchTypeOK, PhaseInv, ClientsAt, SampleInv, Joined
  <2> QED
    BY <1>1, <2>2, SameTotals
<1>4. CASE SpawnWarmup
  <2>1. /\ main' = "warmup" /\ main = "connect" /\ started' = started
        /\ client' = [c \in Clients |-> "warming"]
        /\ left' = [c \in Clients |-> share_workload(Warmup, c)]
    BY <1>4 DEF SpawnWarmup
  <2>2. left' \in [Clients -> Nat]
    BY <2>1, ShareNat, BenchAssumption
  <2>3. BenchTypeOK' /\ PhaseInv' /\ SampleInv'
    BY <1>1, <2>1, <2>2 DEF BenchTypeOK, PhaseInv, ClientsAt, SampleInv,
       ClientStates
  <2>4. Joined' = Joined
    BY <1>2, <2>1 DEF Joined
  <2> QED
    BY <1>1, <2>3, <2>4, SameTotals
<1>5. CASE SpawnMeasured
  <2>1. /\ main' = "spawned" /\ main = "warmup" /\ started' = started
        /\ \A c \in Clients : client[c] = "warm"
        /\ client' = [c \in Clients |-> "ready"]
        /\ left' = [c \in Clients |-> share_workload(Operations, c)]
    BY <1>5 DEF SpawnMeasured
  <2>2. left' \in [Clients -> Nat]
    BY <2>1, ShareNat, BenchAssumption
  <2>3. BenchTypeOK' /\ PhaseInv' /\ SampleInv'
    BY <1>1, <2>1, <2>2 DEF BenchTypeOK, PhaseInv, ClientsAt, SampleInv,
       ClientStates
  <2>4. Joined' = Joined
    BY <1>2, <2>1 DEF Joined
  <2> QED
    BY <1>1, <2>3, <2>4, SameTotals
<1>6. CASE ReadClock
  <2>1. /\ main' = "clocked" /\ main = "spawned" /\ started' = TRUE
        /\ UNCHANGED <<client, left>>
    BY <1>6 DEF ReadClock
  <2>2. BenchTypeOK' /\ PhaseInv' /\ SampleInv' /\ Joined' = Joined
    BY <1>1, <2>1 DEF BenchTypeOK, PhaseInv, ClientsAt, SampleInv, Joined
  <2> QED
    BY <1>1, <2>1, <2>2, SameTotals
<1> QED
  BY <1>3, <1>4, <1>5, <1>6

\* The barrier, for main and for a task.
LEMMA BarrierInv ==
  ASSUME BenchInv, MainArrives \/ \E c \in Clients : TaskArrives(c)
  PROVE  BenchInv'
<1>1. CASE MainArrives
  <2>1. Arrive(-1) /\ main = "clocked" /\ UNCHANGED <<left, lat_ns, started, results>>
    BY <1>1 DEF MainArrives
  <2> QED
    BY <2>1, ArriveInv
<1>2. ASSUME NEW c \in Clients, TaskArrives(c) PROVE BenchInv'
  <2>1. /\ Arrive(c) /\ client[c] = "ready" /\ c # -1
        /\ UNCHANGED <<left, lat_ns, started, results>>
    BY <1>2 DEF TaskArrives, Clients
  <2>2. main \in {"spawned", "clocked", "barrier"}
    BY <2>1 DEF BenchInv, BenchTypeOK, PhaseInv, ClientsAt
  <2> QED
    BY <2>1, <2>2, ArriveInv
<1> QED
  BY <1>1, <1>2

\* One round of a client, or the end of its run.
LEMMA ClientInv ==
  ASSUME BenchInv, NEW c \in Clients, Run(c) \/ RequestFails(c) \/ Finish(c)
  PROVE  BenchInv'
<1> USE DEF BenchInv
<1>1. /\ client[c] \in {"warming", "running"} /\ main \in {"warmup", "join"}
      /\ UNCHANGED <<main, waiting, started, completed, all_lat, results>>
  BY DEF Run, RequestFails, Finish, results, BenchTypeOK, PhaseInv, ClientsAt
<1>2. PICK st : /\ client' = [client EXCEPT ![c] = st]
                /\ \/ st = "failed"
                   \/ st = client[c] /\ left[c] > 0
                   \/ st = "warm" /\ client[c] = "warming" /\ left[c] = 0
                   \/ st = "finished" /\ client[c] = "running" /\ left[c] = 0
  <2>1. CASE Run(c)
    <3>1. \/ client' = [client EXCEPT ![c] = "failed"]
          \/ client' = [client EXCEPT ![c] = client[c]] /\ left[c] > 0
      BY <2>1 DEF Run, BenchTypeOK
    <3>2. CASE client' = [client EXCEPT ![c] = "failed"]
      BY <3>2, Zenon
    <3>3. CASE client' = [client EXCEPT ![c] = client[c]] /\ left[c] > 0
      BY <3>3, Zenon
    <3> QED
      BY <3>1, <3>2, <3>3
  <2>2. CASE RequestFails(c)
    BY <2>2 DEF RequestFails
  <2>3. CASE Finish(c)
    <3>1. left[c] = 0 /\ \/ client[c] = "warming" /\ client' = [client EXCEPT ![c] = "warm"]
                         \/ client[c] = "running" /\ client' = [client EXCEPT ![c] = "finished"]
      BY <1>1, <2>3 DEF Finish
    <3> QED
      BY <3>1
  <2> QED
    BY <2>1, <2>2, <2>3
<1>3. \/ left' = left /\ lat_ns' = lat_ns /\ st # client[c]
      \/ /\ st = client[c] /\ left[c] > 0
         /\ left' = [left EXCEPT ![c] = left[c] - 1]
         /\ \/ client[c] = "warming" /\ lat_ns' = lat_ns
            \/ \E t \in Latencies : /\ client[c] = "running"
                                    /\ lat_ns' = [lat_ns EXCEPT ![c] = Append(lat_ns[c], t)]
  <2>1. CASE Run(c)
    <3>1. PICK t \in Latencies :
            \/ /\ left' = [left EXCEPT ![c] = left[c] - 1]
               /\ lat_ns' = IF client[c] = "running"
                            THEN [lat_ns EXCEPT ![c] = Append(lat_ns[c], t)] ELSE lat_ns
               /\ client' = client
            \/ client' = [client EXCEPT ![c] = "failed"] /\ UNCHANGED <<left, lat_ns>>
      BY <2>1 DEF Run
    <3>2. client'[c] = st /\ left[c] > 0
      BY <1>2, <2>1 DEF BenchTypeOK, Run
    <3> QED
      BY <1>1, <3>1, <3>2 DEF BenchTypeOK
  <2>2. CASE RequestFails(c)
    <3>1. client'[c] = st /\ client'[c] = "failed"
      BY <1>2, <2>2 DEF BenchTypeOK, RequestFails
    <3> QED
      BY <1>1, <2>2, <3>1 DEF RequestFails
  <2>3. CASE Finish(c)
    <3>1. client'[c] = st /\ client'[c] \in {"warm", "finished"}
      BY <1>2, <2>3 DEF BenchTypeOK, Finish
    <3> QED
      BY <1>1, <2>3, <3>1 DEF Finish
  <2> QED
    BY <2>1, <2>2, <2>3
<1>4. BenchTypeOK'
  <2>1. left' \in [Clients -> Nat]
    BY <1>3 DEF BenchTypeOK
  <2>2. lat_ns' \in [Clients -> Seq(Nat)]
    <3>1. CASE lat_ns' = lat_ns
      BY <3>1 DEF BenchTypeOK
    <3>2. ASSUME NEW t \in Latencies, lat_ns' = [lat_ns EXCEPT ![c] = Append(lat_ns[c], t)]
          PROVE  lat_ns' \in [Clients -> Seq(Nat)]
      <4>1. lat_ns \in [Clients -> Seq(Nat)] /\ lat_ns[c] \in Seq(Nat) /\ t \in Nat
        BY BenchAssumption DEF BenchTypeOK
      <4>2. Append(lat_ns[c], t) \in Seq(Nat)
        BY <4>1
      <4> QED
        BY <3>2, <4>1, <4>2
    <3> QED
      BY <1>3, <3>1, <3>2
  <2>3. st \in ClientStates
    BY <1>1, <1>2 DEF ClientStates
  <2>4. client' \in [Clients -> ClientStates]
    BY <1>2, <2>3 DEF BenchTypeOK
  <2> QED
    BY <1>1, <2>1, <2>2, <2>4 DEF BenchTypeOK
<1>5. PhaseInv'
  <2>1. \A d \in Clients : client'[d] = IF d = c THEN st ELSE client[d]
    BY <1>2 DEF BenchTypeOK
  <2>2. st \in ClientsAt(main) /\ st # "barrier"
    BY <1>1, <1>2 DEF PhaseInv, ClientsAt
  <2>3. waiting' = {d \in Clients : client'[d] = "barrier"}
                     \cup (IF main' = "barrier" THEN {-1} ELSE {})
    BY <1>1, <2>1, <2>2 DEF PhaseInv
  <2>4. main' \in {"clocked", "barrier", "join", "done"} => started'
    BY <1>1 DEF PhaseInv
  <2>5. \A d \in Clients : client'[d] \in ClientsAt(main')
    BY <1>1, <2>1, <2>2 DEF PhaseInv
  <2> QED
    BY <2>3, <2>4, <2>5 DEF PhaseInv
<1>6. SampleInv'
  <2> SUFFICES ASSUME NEW d \in Clients PROVE SampleInv!(d)'
    BY DEF SampleInv
  <2>1. /\ client'[d] = IF d = c THEN st ELSE client[d]
        /\ d # c => left'[d] = left[d] /\ lat_ns'[d] = lat_ns[d]
        /\ left[c] \in Nat /\ lat_ns[c] \in Seq(Nat)
    BY <1>2, <1>3 DEF BenchTypeOK
  <2>2. CASE d # c
    BY <2>1, <2>2 DEF SampleInv
  <2>3. CASE d = c /\ st # client[c]
    <3>1. client'[c] = st /\ lat_ns'[c] = lat_ns[c]
      BY <1>3, <2>1, <2>3
    <3>2. \/ st = "failed"
          \/ st = "warm" /\ client[c] = "warming"
          \/ st = "finished" /\ client[c] = "running" /\ left[c] = 0
      BY <1>2, <2>3, Zenon
    <3>3. CASE st = "failed"
      BY <2>3, <3>1, <3>3
    <3>4. CASE st = "warm" /\ client[c] = "warming"
      BY <2>3, <3>1, <3>4 DEF SampleInv
    <3>5. CASE st = "finished" /\ client[c] = "running" /\ left[c] = 0
      <4>1. left[c] + Len(lat_ns[c]) = share_workload(Operations, c) /\ Len(lat_ns[c]) \in Nat
        BY <2>1, <3>5 DEF SampleInv
      <4>2. Len(lat_ns[c]) = share_workload(Operations, c)
        BY <3>5, <4>1
      <4> QED
        BY <2>3, <3>1, <3>5, <4>2
    <3> QED
      BY <3>2, <3>3, <3>4, <3>5
  <2>4. CASE d = c /\ st = client[c] /\ client[c] = "warming"
    BY <1>1, <1>3, <2>1, <2>4 DEF SampleInv
  <2>5. CASE d = c /\ st = client[c] /\ client[c] = "running"
    <3>1. PICK t \in Latencies : /\ left' = [left EXCEPT ![c] = left[c] - 1]
                                 /\ lat_ns' = [lat_ns EXCEPT ![c] = Append(lat_ns[c], t)]
                                 /\ left[c] > 0
      BY <1>3, <2>5
    <3>2. left'[c] = left[c] - 1 /\ Len(lat_ns'[c]) = Len(lat_ns[c]) + 1 /\ Len(lat_ns[c]) \in Nat
      BY <2>1, <3>1 DEF BenchTypeOK
    <3>3. left[c] + Len(lat_ns[c]) = share_workload(Operations, c)
      BY <2>5 DEF SampleInv
    <3>4. left'[c] + Len(lat_ns'[c]) = share_workload(Operations, c)
      <4>1. \A m, n \in Nat : m > 0 => (m - 1) + (n + 1) = m + n
        OBVIOUS
      <4> QED
        BY <2>1, <3>1, <3>2, <3>3, <4>1
    <3> QED
      BY <2>1, <2>5, <3>4
  <2> QED
    BY <1>1, <2>2, <2>3, <2>4, <2>5
<1>7. Joined' = Joined
  BY <1>1, <1>2 DEF Joined, BenchTypeOK
<1> QED
  BY <1>1, <1>4, <1>5, <1>6, <1>7, SameTotals

\* Join: the totals grow by the share of one client, and by as many samples.
LEMMA JoinKeeps ==
  ASSUME BenchInv, NEW c \in Clients, Join(c)
  PROVE  BenchInv'
<1> USE DEF BenchInv
<1>1. /\ main = "join" /\ client[c] = "finished"
      /\ client' = [client EXCEPT ![c] = "joined"]
      /\ completed' = completed + share_workload(Operations, c)
      /\ all_lat' = all_lat \o lat_ns[c]
      /\ UNCHANGED <<main, left, lat_ns, waiting, started>>
  BY DEF Join
<1>2. /\ share_workload(Operations, c) \in Nat /\ Len(lat_ns[c]) = share_workload(Operations, c)
      /\ lat_ns[c] \in Seq(Nat) /\ all_lat \in Seq(Nat) /\ completed \in Nat
  BY <1>1, ShareNat, BenchAssumption DEF SampleInv, BenchTypeOK
<1>3. BenchTypeOK'
  <2>1. client' \in [Clients -> ClientStates]
    BY <1>1 DEF BenchTypeOK, ClientStates
  <2>2. all_lat' \in Seq(Nat) /\ completed' \in Nat
    BY <1>1, <1>2
  <2> QED
    BY <1>1, <2>1, <2>2 DEF BenchTypeOK
<1>4. PhaseInv' /\ SampleInv'
  BY <1>1 DEF PhaseInv, ClientsAt, SampleInv, BenchTypeOK
<1>5. JoinInv'
  <2>1. Joined' = Joined \cup {c} /\ c \notin Joined /\ Joined \in SUBSET Clients
    BY <1>1 DEF Joined, BenchTypeOK
  <2>2. Share(Joined \cup {c}) = Share(Joined) + share_workload(Operations, c)
    BY <2>1, ShareAdds
  <2>3. completed = Share(Joined) /\ Len(all_lat) = completed
    BY <1>1 DEF JoinInv
  <2>4. Len(all_lat') = completed'
    BY <1>1, <1>2, <2>3
  <2>5. completed' = Share(Joined')
    <3>1. Share(Joined') = Share(Joined \cup {c})
      BY <2>1 DEF Share
    <3> QED
      BY <1>1, <2>2, <2>3, <3>1
  <2> QED
    BY <1>1, <2>4, <2>5 DEF JoinInv, Share
<1> QED
  BY <1>3, <1>4, <1>5

\* Report: the ensure! holds, and the samples are sorted.
LEMMA ReportInv ==
  ASSUME BenchInv, Report
  PROVE  BenchInv'
<1> USE DEF BenchInv
<1>1. /\ main = "join" /\ main' = "done" /\ Len(all_lat) = completed
      /\ \A c \in Clients : client[c] = "joined"
      /\ all_lat' \in Sortings(all_lat)
      /\ UNCHANGED <<client, left, lat_ns, waiting, started, completed>>
  BY DEF Report, JoinInv
<1>2. /\ all_lat \in Seq(Nat) /\ Len(all_lat) \in Nat
      /\ all_lat' \in [1..Len(all_lat) -> ToSet(all_lat)]
      /\ \A i, j \in 1..Len(all_lat) : i <= j => all_lat'[i] <= all_lat'[j]
  <2>1. all_lat \in Seq(Nat)
    BY DEF BenchTypeOK
  <2>2. Len(all_lat) \in Nat /\ DOMAIN all_lat = 1..Len(all_lat)
    BY <2>1
  <2>3. /\ all_lat' \in [DOMAIN all_lat -> ToSet(all_lat)]
        /\ \A i, j \in DOMAIN all_lat : i <= j => all_lat'[i] <= all_lat'[j]
    BY <1>1, Zenon DEF Sortings
  <2> QED
    BY <2>1, <2>2, <2>3, Zenon
<1>3. all_lat' \in Seq(Nat) /\ Len(all_lat') = Len(all_lat)
  <2>1. ToSet(all_lat) \subseteq Nat
    BY <1>2 DEF ToSet
  <2>2. all_lat' \in [1..Len(all_lat) -> Nat]
    BY <1>2, <2>1
  <2>3. all_lat' \in Seq(Nat)
    BY <1>2, <2>2
  <2> QED
    BY <1>2, <2>2, <2>3
<1>4. BenchTypeOK' /\ PhaseInv' /\ SampleInv'
  BY <1>1, <1>3 DEF BenchTypeOK, PhaseInv, ClientsAt, SampleInv
<1>5. JoinInv'
  BY <1>1, <1>2, <1>3 DEF JoinInv, Joined, Share
<1> QED
  BY <1>4, <1>5

\* Abort: nothing is reported.
LEMMA AbortInv ==
  ASSUME BenchInv, Abort
  PROVE  BenchInv'
<1> USE DEF BenchInv
<1>1. /\ main' = "failed" /\ client' = [c \in Clients |-> "over"]
      /\ main \in {"prefill", "connect", "warmup", "join"}
      /\ UNCHANGED <<left, lat_ns, waiting, started, completed, all_lat>>
  BY DEF Abort, results
<1>2. BenchTypeOK' /\ SampleInv' /\ JoinInv'
  BY <1>1 DEF BenchTypeOK, ClientStates, SampleInv, JoinInv
<1>3. waiting = {}
  BY <1>1 DEF PhaseInv, ClientsAt
<1>4. PhaseInv'
  BY <1>1, <1>3 DEF PhaseInv, ClientsAt
<1> QED
  BY <1>2, <1>4

-----------------------------------------------------------------------------
(* The theorems. *)

LEMMA BenchInit == Init => BenchInv
<1> SUFFICES ASSUME Init PROVE BenchInv
  OBVIOUS
<1>1. BenchTypeOK
  <2>1. main \in {"prefill", "connect"}
    BY DEF Init
  <2>2. client \in [Clients -> ClientStates] /\ left \in [Clients -> Nat]
    BY DEF Init, ClientStates
  <2>3. <<>> \in Seq(Nat)
    OBVIOUS
  <2>4. lat_ns \in [Clients -> Seq(Nat)] /\ all_lat \in Seq(Nat)
    BY <2>3, Zenon DEF Init
  <2> QED
    BY <2>1, <2>2, <2>4 DEF Init, BenchTypeOK
<1>2. PhaseInv /\ SampleInv
  BY DEF Init, PhaseInv, ClientsAt, SampleInv
<1>3. Joined = {}
  BY DEF Init, Joined
<1>4. JoinInv
  BY <1>3, ShareOfAll DEF Init, JoinInv
<1> QED
  BY <1>1, <1>2, <1>4 DEF BenchInv

LEMMA BenchNext == BenchInv /\ [Next]_vars => BenchInv'
<1> SUFFICES ASSUME BenchInv, [Next]_vars PROVE BenchInv'
  OBVIOUS
<1>1. CASE UNCHANGED vars
  <2>1. BenchTypeOK' /\ PhaseInv' /\ SampleInv' /\ JoinInv'
    BY <1>1 DEF BenchInv, vars, results, BenchTypeOK, PhaseInv, SampleInv,
       JoinInv, Joined, Share
  <2> QED
    BY <2>1 DEF BenchInv
<1> QED
  BY <1>1, EarlyInv, BarrierInv, ClientInv, JoinKeeps, ReportInv, AbortInv DEF
     Next

\* The inductive invariant of the benchmark holds.
THEOREM BenchInvariant == Spec => []BenchInv
BY BenchInit, BenchNext, PTL DEF Spec

\* No client sends a measured request before all of them have warmed up and the
\* clock has been read.
THEOREM MeasuredAtOnce == Spec => []MeasuredTogether
<1>1. BenchInv => MeasuredTogether
  BY DEF BenchInv, BenchTypeOK, PhaseInv, ClientsAt, MeasuredTogether
<1> QED
  BY <1>1, BenchInvariant, PTL

\* A finished benchmark has counted every operation once, has one sample for
\* each, and prints their nearest-rank percentiles.
THEOREM ReportIsExact == Spec => []ReportExact
<1>1. BenchInv => ReportExact
  <2> SUFFICES ASSUME BenchInv, main = "done" PROVE ReportExact
    BY DEF ReportExact
  <2>1. Joined = Clients
    BY DEF BenchInv, PhaseInv, ClientsAt, Joined
  <2>2. completed = Operations /\ Len(all_lat) = Operations
    BY <2>1, ShareOfAll DEF BenchInv, JoinInv
  <2>3. all_lat \in Seq(Nat) /\ all_lat # <<>> /\ Ascending(all_lat)
    <3>1. all_lat \in Seq(Nat) /\ Ascending(all_lat)
      BY DEF BenchInv, BenchTypeOK, JoinInv, Ascending
    <3>2. all_lat # <<>>
      BY <2>2, BenchAssumption
    <3> QED
      BY <3>1, <3>2
  <2>4. \A q \in {500, 900, 950, 990, 999} : percentile(all_lat, q) = NearestRank(all_lat, q)
    <3>1. \A s \in Seq(Nat), q \in Thousandths :
            s # <<>> /\ Ascending(s) => percentile(s, q) = NearestRank(s, q)
      BY PercentileIsNearestRank, Zenon
    <3>2. \A q \in {500, 900, 950, 990, 999} : q \in Thousandths
      BY DEF Thousandths
    <3>3. \A q \in Thousandths : percentile(all_lat, q) = NearestRank(all_lat, q)
      BY <2>3, <3>1, Zenon
    <3> QED
      BY <3>2, <3>3
  <2> QED
    BY <2>2, <2>4 DEF ReportExact
<1> QED
  BY <1>1, BenchInvariant, PTL
=============================================================================
