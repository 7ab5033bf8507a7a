---------------------------- MODULE InfoProofs ----------------------------
(***************************************************************************)
(* What INFO reports is coherent, for every index: no division by zero, no *)
(* leftover of the fold's start, the mean between the extremes.            *)
(*                                                                         *)
(* The sums of the packet are folds over the keys that are present.  Those *)
(* are finitely many, because the index is the replay of a log (ReplayInv),*)
(* and the recursion behind a fold has a solution for every finite set.    *)
(* Induction is over the number of keys, and is stated for sets of numbers *)
(* (SetInduction), which need no operator for the predicate.               *)
(***************************************************************************)
EXTENDS WorkerProofs

-----------------------------------------------------------------------------
(* Sums over a finite set. *)

\* Induction for a set: it needs no operator for the predicate.
LEMMA SetInduction ==
  ASSUME NEW T \in SUBSET Nat, 0 \in T, \A n \in T : n + 1 \in T
  PROVE  T = Nat
<1> SUFFICES ASSUME Nat \ T # {} PROVE FALSE
  OBVIOUS
<1>1. PICK m \in Nat \ T : \A n \in Nat \ T : m <= n
  BY LeastNatural
<1>2. m # 0 /\ m - 1 \in Nat /\ m - 1 \in T
  BY <1>1
<1>3. (m - 1) + 1 \in T
  BY <1>2
<1> QED
  BY <1>1, <1>3

Pick(s) == CHOOSE x \in s : TRUE
Sums(g, size, S) ==
  g = [s \in SUBSET S |-> IF s = {} THEN 0 ELSE size[Pick(s)] + g[s \ {Pick(s)}]]

\* What is left of a set without the element picked.
LEMMA PickLess ==
  ASSUME NEW s, IsFiniteSet(s), s # {}
  PROVE  /\ Pick(s) \in s /\ IsFiniteSet(s \ {Pick(s)})
         /\ Cardinality(s) \in Nat \ {0}
         /\ Cardinality(s \ {Pick(s)}) = Cardinality(s) - 1
<1>1. Pick(s) \in s
  BY DEF Pick
<1>2. Cardinality(s) \in Nat /\ Cardinality(s \ {Pick(s)}) \in Nat
  BY FS_CardinalityType, FS_RemoveElement
<1> QED
  BY <1>1, <1>2, FS_RemoveElement

\* The recursion has a solution, since it has one for the subsets of each size.
LEMMA SumsExist ==
  ASSUME NEW size, NEW S, IsFiniteSet(S)
  PROVE  \E g : Sums(g, size, S)
<1> DEFINE Small(n) == {s \in SUBSET S : Cardinality(s) <= n}
           Solves(g, n) == g = [s \in Small(n) |->
              IF s = {} THEN 0 ELSE size[Pick(s)] + g[s \ {Pick(s)}]]
           T == {n \in Nat : \E g : Solves(g, n)}
<1>1. \A s \in SUBSET S : IsFiniteSet(s) /\ Cardinality(s) \in Nat
                            /\ Cardinality(s) <= Cardinality(S)
  BY FS_Subset, FS_CardinalityType
<1>2. \A s \in SUBSET S : s # {} =>
        /\ s \ {Pick(s)} \in SUBSET S
        /\ Cardinality(s) # 0
        /\ Cardinality(s \ {Pick(s)}) = Cardinality(s) - 1
  BY <1>1, PickLess
<1>3. 0 \in T
  <2>1. ASSUME NEW s \in Small(0) PROVE s = {}
    <3>1. s \in SUBSET S /\ Cardinality(s) <= 0 /\ Cardinality(s) \in Nat
      BY <1>1
    <3>2. Cardinality(s) = 0
      BY <3>1
    <3> QED
      BY <1>2, <3>1, <3>2
  <2>2. Solves([s \in Small(0) |-> 0], 0)
    BY <2>1
  <2> QED
    BY <2>2
<1>4. ASSUME NEW n \in T PROVE n + 1 \in T
  <2>1. PICK g : Solves(g, n)
    BY <1>4
  <2> DEFINE h == [s \in Small(n + 1) |-> IF s \in Small(n) THEN g[s]
                     ELSE size[Pick(s)] + g[s \ {Pick(s)}]]
  <2>2. Small(n) \subseteq Small(n + 1) /\ {} \in Small(n)
    BY <1>1, FS_EmptySet
  <2>3. \A s \in Small(n + 1) : s # {} => s \ {Pick(s)} \in Small(n)
    BY <1>1, <1>2
  <2>4. \A s \in Small(n) : g[s] =
          IF s = {} THEN 0 ELSE size[Pick(s)] + g[s \ {Pick(s)}]
    BY <2>1
  <2>5. \A s \in Small(n + 1) : h[s] =
          IF s = {} THEN 0 ELSE size[Pick(s)] + h[s \ {Pick(s)}]
    <3> HIDE DEF Small
    <3> QED
      BY <2>2, <2>3, <2>4
  <2>6. Solves(h, n + 1)
    <3> HIDE DEF Small
    <3> QED
      BY <2>5
  <2> HIDE DEF h, Solves
  <2> QED
    BY <2>6
<1>5. Cardinality(S) \in T
  <2> HIDE DEF T
  <2>1. T = Nat
    <3>1. T \in SUBSET Nat
      BY DEF T
    <3> QED
      BY <1>3, <1>4, <3>1, SetInduction
  <2> QED
    BY <2>1, FS_CardinalityType
<1>6. Small(Cardinality(S)) = SUBSET S
  BY <1>1
<1>7. PICK g : Solves(g, Cardinality(S))
  BY <1>5
<1> HIDE DEF Small
<1> QED
  BY <1>6, <1>7 DEF Sums

LEMMA TotalIs ==
  ASSUME NEW size, NEW S, IsFiniteSet(S)
  PROVE  \E h : Sums(h, size, S) /\ Total(size, S) = h[S]
<1> DEFINE h == CHOOSE h : h = [s \in SUBSET S |-> IF s = {} THEN 0 ELSE size[Pick(s)] + h[s \ {Pick(s)}]]
<1>1. h = [s \in SUBSET S |-> IF s = {} THEN 0 ELSE size[Pick(s)] + h[s \ {Pick(s)}]]
  <2>1. PICK g : Sums(g, size, S)
    BY SumsExist
  <2> QED
    BY <2>1 DEF Sums
<1>2. Total(size, S) = h[S]
  BY DEF Total, MapThenSumSet, MapThenFoldSet, Pick
<1> QED
  BY <1>1, <1>2 DEF Sums

\* A solution lies between the least and the greatest size times the number.
LEMMA SumsBounded ==
  ASSUME NEW size, NEW S, IsFiniteSet(S), NEW g, Sums(g, size, S),
         NEW lo \in Nat, NEW hi \in Nat,
         \A k \in S : size[k] \in Nat /\ lo <= size[k] /\ size[k] <= hi
  PROVE  \A s \in SUBSET S :
           /\ g[s] \in Nat
           /\ lo * Cardinality(s) <= g[s] /\ g[s] <= hi * Cardinality(s)
<1> DEFINE Good(s) == /\ g[s] \in Nat
                      /\ lo * Cardinality(s) <= g[s] /\ g[s] <= hi * Cardinality(s)
           T == {n \in Nat : \A s \in SUBSET S : Cardinality(s) = n => Good(s)}
<1>1. \A s \in SUBSET S : IsFiniteSet(s) /\ Cardinality(s) \in Nat
  BY FS_Subset, FS_CardinalityType
<1>2. \A s \in SUBSET S : g[s] =
        IF s = {} THEN 0 ELSE size[Pick(s)] + g[s \ {Pick(s)}]
  BY DEF Sums
<1>3. 0 \in T
  <2>1. \A s \in SUBSET S : Cardinality(s) = 0 => s = {}
    BY <1>1, FS_EmptySet
  <2>2. \A s \in SUBSET S : Cardinality(s) = 0 => g[s] = 0
    BY <1>2, <2>1
  <2> QED
    BY <2>2
<1>4. ASSUME NEW n \in T PROVE n + 1 \in T
  <2> SUFFICES ASSUME NEW s \in SUBSET S, Cardinality(s) = n + 1 PROVE Good(s)
    OBVIOUS
  <2>1. s # {} /\ n \in Nat
    <3>1. n \in Nat /\ Cardinality(s) # 0
      OBVIOUS
    <3> QED
      BY <3>1, FS_EmptySet
  <2> DEFINE x == Pick(s)
             r == s \ {x}
  <2>2. x \in S /\ r \in SUBSET S /\ Cardinality(r) = n
    BY <1>1, <2>1, PickLess
  <2>3. Good(r)
    BY <2>2
  <2>4. g[s] = size[x] + g[r]
    BY <1>2, <2>1
  <2>5. size[x] \in Nat /\ lo <= size[x] /\ size[x] <= hi
    BY <2>2
  <2> HIDE DEF x, r
  <2>6. ASSUME NEW a \in Nat, NEW b \in Nat, lo * n <= b, b <= hi * n, lo <= a, a <= hi
        PROVE  lo * (n + 1) <= a + b /\ a + b <= hi * (n + 1)
    <3>1. lo * (n + 1) = lo * n + lo /\ hi * (n + 1) = hi * n + hi
      BY <2>1
    <3>2. lo * n \in Nat /\ hi * n \in Nat
      BY <2>1
    <3> QED
      BY <2>1, <2>6, <3>1, <3>2
  <2> QED
    BY <2>1, <2>2, <2>3, <2>4, <2>5, <2>6
<1>5. T = Nat
  <2>1. T \in SUBSET Nat
    OBVIOUS
  <2> HIDE DEF T
  <2> QED
    BY <1>3, <1>4, <2>1, SetInduction
<1> QED
  BY <1>1, <1>5

\* Smaller sizes have a smaller sum.
LEMMA SumsMonotone ==
  ASSUME NEW a, NEW b, NEW S, IsFiniteSet(S), NEW g, NEW h,
         Sums(g, a, S), Sums(h, b, S),
         \A k \in S : a[k] \in Nat /\ b[k] \in Nat /\ a[k] <= b[k]
  PROVE  g[S] \in Nat /\ h[S] \in Nat /\ g[S] <= h[S]
<1> DEFINE Good(s) == g[s] \in Nat /\ h[s] \in Nat /\ g[s] <= h[s]
           T == {n \in Nat : \A s \in SUBSET S : Cardinality(s) = n => Good(s)}
<1>1. \A s \in SUBSET S : IsFiniteSet(s) /\ Cardinality(s) \in Nat
  BY FS_Subset, FS_CardinalityType
<1>2. \A s \in SUBSET S :
        /\ g[s] = IF s = {} THEN 0 ELSE a[Pick(s)] + g[s \ {Pick(s)}]
        /\ h[s] = IF s = {} THEN 0 ELSE b[Pick(s)] + h[s \ {Pick(s)}]
  BY DEF Sums
<1>3. 0 \in T
  <2>1. \A s \in SUBSET S : Cardinality(s) = 0 => s = {}
    BY <1>1, FS_EmptySet
  <2>2. \A s \in SUBSET S : Cardinality(s) = 0 => g[s] = 0 /\ h[s] = 0
    BY <1>2, <2>1
  <2> QED
    BY <2>2
<1>4. ASSUME NEW n \in T PROVE n + 1 \in T
  <2> SUFFICES ASSUME NEW s \in SUBSET S, Cardinality(s) = n + 1 PROVE Good(s)
    OBVIOUS
  <2>1. s # {} /\ n \in Nat
    <3>1. n \in Nat /\ Cardinality(s) # 0
      OBVIOUS
    <3> QED
      BY <3>1, FS_EmptySet
  <2> DEFINE x == Pick(s)
             r == s \ {x}
  <2>2. x \in S /\ r \in SUBSET S /\ Cardinality(r) = n
    BY <1>1, <2>1, PickLess
  <2>3. Good(r)
    BY <2>2
  <2>4. g[s] = a[x] + g[r] /\ h[s] = b[x] + h[r]
    BY <1>2, <2>1
  <2> HIDE DEF x, r
  <2> QED
    BY <2>2, <2>3, <2>4
<1>5. T = Nat
  <2>1. T \in SUBSET Nat
    OBVIOUS
  <2> HIDE DEF T
  <2> QED
    BY <1>3, <1>4, <2>1, SetInduction
<1> QED
  BY <1>1, <1>5
\* A function on a finite set is somewhere greatest.
LEMMA Greatest ==
  ASSUME NEW S, IsFiniteSet(S), S # {}, NEW f, \A k \in S : f[k] \in Nat
  PROVE  \E k \in S : \A j \in S : f[j] <= f[k]
<1> DEFINE Top(s) == \E k \in s : \A j \in s : f[j] <= f[k]
           T == {n \in Nat : \A s \in SUBSET S : s # {} /\ Cardinality(s) = n => Top(s)}
<1>1. \A s \in SUBSET S : IsFiniteSet(s) /\ Cardinality(s) \in Nat
  BY FS_Subset, FS_CardinalityType
<1>2. 0 \in T
  BY <1>1, FS_EmptySet
<1>3. ASSUME NEW n \in T PROVE n + 1 \in T
  <2> SUFFICES ASSUME NEW s \in SUBSET S, s # {}, Cardinality(s) = n + 1 PROVE Top(s)
    OBVIOUS
  <2> DEFINE x == Pick(s)
             r == s \ {x}
  <2>1. x \in s /\ r \in SUBSET S /\ Cardinality(r) = n
    BY <1>1, PickLess
  <2>2. r # {} => Top(r)
    BY <2>1
  <2>3. \A j \in s : j = x \/ j \in r
    OBVIOUS
  <2>4. r \subseteq s
    OBVIOUS
  <2> HIDE DEF x, r
  <2>5. CASE r = {}
    BY <2>1, <2>3, <2>5
  <2>6. CASE r # {}
    <3>1. PICK k \in r : \A j \in r : f[j] <= f[k]
      BY <2>2, <2>6
    <3>2. CASE f[x] <= f[k]
      BY <2>3, <2>4, <3>1, <3>2
    <3>3. CASE ~(f[x] <= f[k])
      <4>1. \A j \in s : f[j] <= f[x]
        BY <2>1, <2>3, <2>4, <3>1, <3>3
      <4> QED
        BY <2>1, <4>1
    <3> QED
      BY <3>2, <3>3
  <2> QED
    BY <2>5, <2>6
<1>4. T = Nat
  <2>1. T \in SUBSET Nat
    OBVIOUS
  <2> HIDE DEF T
  <2> QED
    BY <1>2, <1>3, <2>1, SetInduction
<1> QED
  BY <1>1, <1>4

-----------------------------------------------------------------------------
(* The packet. *)

Coherent(p) ==
  /\ p.key_count = 0 <=> p.max_key_size = 0
  /\ p.min_key_size <= p.mean_key_size
  /\ p.mean_key_size <= p.max_key_size
  /\ \/ p.key_count * p.mean_key_size <= p.size_in_memory
     \/ p.size_in_memory = U32Max

\* The mean of the sizes lies between the least and the greatest.
LEMMA MeanBetween ==
  ASSUME NEW n \in Nat \ {0}, NEW t \in Nat, NEW lo \in Nat, NEW hi \in Nat,
         lo * n <= t, t <= hi * n
  PROVE  /\ t \div n \in Nat /\ n * (t \div n) <= t
         /\ lo <= t \div n /\ t \div n <= hi
<1> DEFINE q == t \div n
<1>1. q \in Nat /\ n * q <= t /\ t < n * (q + 1)
  OBVIOUS
<1> HIDE DEF q
<1>2. ASSUME NEW a \in Nat, NEW b \in Nat, a < b PROVE n * (a + 1) <= n * b
  <2>1. PICK d \in Nat : b = (a + 1) + d
    BY <1>2
  <2>2. n * b = n * (a + 1) + n * d /\ n * d >= 0
    BY <2>1
  <2> QED
    BY <2>2
<1>3. n * q \in Nat /\ n * (q + 1) \in Nat /\ n * hi \in Nat /\ n * lo \in Nat
        /\ n * (q + 1) = n * q + n /\ lo * n = n * lo /\ hi * n = n * hi
        /\ n * (hi + 1) = n * hi + n
  BY <1>1
<1>4. lo <= q
  <2> SUFFICES ASSUME q < lo PROVE FALSE
    BY <1>1
  <2>1. n * (q + 1) <= n * lo
    BY <1>1, <1>2
  <2> QED
    BY <1>1, <1>3, <2>1
<1>5. q <= hi
  <2> SUFFICES ASSUME hi < q PROVE FALSE
    BY <1>1
  <2>1. n * (hi + 1) <= n * q
    BY <1>1, <1>2
  <2> QED
    BY <1>1, <1>3, <2>1
<1> QED
  BY <1>1, <1>4, <1>5 DEF q

\* An index with finitely many keys has a coherent packet.
LEMMA PacketCoherent ==
  ASSUME NEW m \in [Keys -> Vals \cup {NoVal}], NEW disk \in Nat,
         IsFiniteSet(Present(m))
  PROVE  Coherent(InfoPacket(m, disk))
<1> DEFINE keys == Present(m)
           sizes == {KeyLen[k] : k \in keys}
           bytes == [k \in keys |-> KeyLen[k] + ValLen[m[k]]]
           n == Cardinality(keys)
           p == InfoPacket(m, disk)
<1>1. \A k \in keys : /\ KeyLen[k] \in Nat \ {0}
                       /\ bytes[k] \in Nat /\ KeyLen[k] <= bytes[k]
  BY WalAssumption DEF Present
<1>2. n \in Nat /\ (n = 0 <=> keys = {})
  BY FS_CardinalityType, FS_EmptySet
<1>3. PICK g : Sums(g, KeyLen, keys) /\ Total(KeyLen, keys) = g[keys]
  BY TotalIs
<1>4. PICK h : Sums(h, bytes, keys) /\ Total(bytes, keys) = h[keys]
  BY TotalIs
<1>5. /\ p.key_count = n
      /\ p.min_key_size = IF keys = {} THEN 0 ELSE Min(sizes)
      /\ p.max_key_size = IF keys = {} THEN 0 ELSE Max(sizes)
      /\ p.mean_key_size = IF keys = {} THEN 0 ELSE g[keys] \div n
      /\ p.size_in_memory = IF h[keys] < U32Max THEN h[keys] ELSE U32Max
  <2>1. sizes = {} <=> keys = {}
    OBVIOUS
  <2> QED
    BY <1>3, <1>4, <2>1 DEF InfoPacket, MinSize, Saturate
<1>6. g[keys] \in Nat /\ h[keys] \in Nat /\ g[keys] <= h[keys]
  BY <1>1, <1>3, <1>4, SumsMonotone
<1>7. CASE keys = {}
  BY <1>2, <1>5, <1>6, <1>7, WorkerAssumption DEF Coherent
<1>8. CASE keys # {}
  <2>1. PICK top \in keys : \A j \in keys : KeyLen[j] <= KeyLen[top]
    BY <1>1, <1>8, Greatest
  <2>2. sizes \in SUBSET Nat /\ sizes # {}
    BY <1>1, <1>8
  <2>3. PICK low \in sizes : \A s \in sizes : low <= s
    BY <2>2, LeastNatural
  <2>4. Min(sizes) \in sizes /\ \A s \in sizes : Min(sizes) <= s
    BY <2>3 DEF Min
  <2>5. Max(sizes) \in sizes /\ \A s \in sizes : Max(sizes) >= s
    <3>1. KeyLen[top] \in sizes /\ \A s \in sizes : KeyLen[top] >= s
      BY <1>1, <2>1
    <3> QED
      BY <3>1 DEF Max
  <2>6. PICK lo \in Nat \ {0} : lo = Min(sizes)
    BY <1>1, <2>4
  <2>7. PICK hi \in Nat \ {0} : hi = Max(sizes)
    BY <1>1, <2>5
  <2>8. \A k \in keys : KeyLen[k] \in Nat /\ lo <= KeyLen[k] /\ KeyLen[k] <= hi
    BY <1>1, <2>4, <2>5, <2>6, <2>7
  <2>9. lo * n <= g[keys] /\ g[keys] <= hi * n
    BY <1>3, <2>8, SumsBounded
  <2>10. n \in Nat \ {0}
    BY <1>2, <1>8
  <2> DEFINE mean == g[keys] \div n
  <2>11. mean \in Nat /\ n * mean <= g[keys] /\ lo <= mean /\ mean <= hi
    BY <1>6, <2>9, <2>10, MeanBetween
  <2>12. p.mean_key_size = mean /\ p.min_key_size = lo /\ p.max_key_size = hi
    BY <1>5, <1>8, <2>6, <2>7
  <2> HIDE DEF mean, keys, n, p, sizes, bytes
  <2>13. n * mean \in Nat
    BY <2>10, <2>11
  <2>14. Coherent(p)
    BY <1>5, <1>6, <2>10, <2>11, <2>12, <2>13, WorkerAssumption DEF Coherent
  <2> QED
    BY <2>14 DEF p
<1> QED
  BY <1>7, <1>8

\* A running worker has finitely many keys: those of its log.
LEMMA PresentIsFinite ==
  ASSUME WorkerInv, Running
  PROVE  IsFiniteSet(Present(memory_index))
<1> DEFINE f == [i \in 1..Len(logged) |-> logged[i].key]
           K == {f[i] : i \in 1..Len(logged)}
<1>1. Len(logged) \in Nat
  BY DEF WorkerInv, TypeOK, WalTypeOK
<1>2. IsFiniteSet(1..Len(logged))
  BY <1>1, FS_Interval
<1>3. IsFiniteSet(K)
  <2>1. f \in Surjection(1..Len(logged), K)
    BY DEF Surjection
  <2> QED
    BY <1>2, <2>1, FS_Surjection DEF ExistsSurjection
<1>4. Present(memory_index) \subseteq K
  BY DEF WorkerInv, TypeOK, ReplayInv, LastWrite, Applied, Present
<1> QED
  BY <1>3, <1>4, FS_Subset

InfoInv == \A c \in Clients : rsp[c].op = "Info" => Coherent(rsp[c])

\* An answer that stays is the answer it was.
LEMMA InfoReply ==
  ASSUME WorkerInv, InfoInv, NEW c \in Clients, NEW answer, Reply(c, answer),
         answer.op = "Info" => Coherent(answer)
  PROVE  InfoInv'
BY DEF Reply, InfoInv, WorkerInv, ConnInv

LEMMA InfoNext ==
  WorkerInv /\ InfoInv /\ [Next]_vars => InfoInv'
<1> SUFFICES ASSUME WorkerInv, InfoInv, [Next]_vars PROVE InfoInv'
  OBVIOUS
<1>1. ASSUME UNCHANGED rsp PROVE InfoInv'
  BY <1>1 DEF InfoInv
<1>2. CASE Recover \/ Start \/ DropMainSender \/ TakeWrite \/ WriteDue
             \/ LastSenderGone \/ FinalSync \/ Return \/ UNCHANGED vars
  BY <1>1, <1>2 DEF Recover, Start, DropMainSender, TakeWrite, WriteDue,
     LastSenderGone, FinalSync, Return, vars, connVars
<1>3. ASSUME NEW c \in Clients,
             (\E q \in Entry \cup Reads : GetHandle(c, q)) \/ Send(c)
      PROVE  InfoInv'
  BY <1>1, <1>3 DEF GetHandle, Send
<1>4. ASSUME NEW c \in Clients, Done(c) PROVE InfoInv'
  BY <1>4 DEF Done, InfoInv, Nothing, WorkerInv, ConnInv
<1>5. CASE Die
  BY <1>5 DEF Die, LoseMemory, InfoInv, Nothing
<1>6. CASE ExecuteRead
  <2> DEFINE c == Head(queue)
  <2>1. pc = "recv" /\ c \in Clients
    BY <1>6 DEF ExecuteRead, Ready, WorkerInv, TypeOK
  <2>2. Coherent(InfoPacket(memory_index, file_len))
    BY <2>1, PresentIsFinite, PacketCoherent DEF WorkerInv, TypeOK, WalTypeOK, Running
  <2>3. PICK answer : /\ Reply(c, answer)
                      /\ \/ answer = InfoPacket(memory_index, file_len)
                         \/ answer.op # "Info"
    BY <1>6 DEF ExecuteRead, Answer
  <2> QED
    BY <2>1, <2>2, <2>3, InfoReply
<1>7. CASE WriteUnsynced \/ WriteFails \/ SyncDue \/ SyncDueFails
  <2>1. cur \in Clients
    BY <1>7 DEF WriteUnsynced, WriteFails, SyncDue, SyncDueFails, WorkerInv, CurInv
  <2>2. PICK answer : Reply(cur, answer) /\ answer.op # "Info"
    BY <1>7 DEF WriteUnsynced, WriteFails, SyncDue, SyncDueFails, Apply, Fail, Answer
  <2> QED
    BY <2>1, <2>2, InfoReply
<1> QED
  BY <1>2, <1>3, <1>4, <1>5, <1>6, <1>7 DEF Next, WorkerStep

\* INFO reports nothing that its index cannot be: an empty one has no sizes, the
\* mean lies between the extremes, and the keys fit into the memory reported.
THEOREM InfoIsCoherent == Spec => []InfoCoherent
<1>1. Init => InfoInv
  BY DEF Init, InfoInv, Nothing
<1>2. InfoInv => InfoCoherent
  BY DEF InfoInv, InfoCoherent, Coherent
<1> QED
  BY <1>1, <1>2, InfoNext, WorkerInvariant, PTL DEF Spec
=============================================================================
