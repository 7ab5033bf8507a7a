---------------------------- MODULE StoreProofs ----------------------------
(***************************************************************************)
(* Worker implements KVStore: every step of the worker, its log, its       *)
(* clients and the machine is a step of the store, or changes nothing the  *)
(* store shows.  The steps with something to show are the ends of a        *)
(* worker, where what a scan of the file will find has to be a prefix of   *)
(* the store's log that holds all that has settled.  From that follows     *)
(* what a client cares about most: a settled write is there for good.      *)
(***************************************************************************)
EXTENDS WorkerProofs

-----------------------------------------------------------------------------
(* What a scan of a file finds. *)

\* The scan of f stops after n chunks.
StopsAt(f, n) ==
  /\ n \in 0..Len(f)
  /\ \A i \in 1..n : f[i].rec # Junk
  /\ n < Len(f) => f[n + 1].rec = Junk

\* A scan stops, at the first junk or at the end of the file,
LEMMA ScanStops ==
  ASSUME NEW f \in Seq(Chunk) PROVE \E n \in 0..Len(f) : StopsAt(f, n)
<1> DEFINE T == {n \in 0..Len(f) : n < Len(f) => f[n + 1].rec = Junk}
<1>1. T \in SUBSET Nat /\ Len(f) \in T /\ Len(f) \in Nat
  OBVIOUS
<1>2. PICK n \in T : \A m \in T : n <= m
  BY <1>1, LeastNatural
<1>3. n \in 0..Len(f) /\ n \in Nat
  BY <1>1
<1>4. ASSUME NEW i \in 1..n, f[i].rec = Junk PROVE FALSE
  <2>1. i - 1 \in 0..Len(f) /\ (i - 1) + 1 = i /\ i - 1 < n
    BY <1>1, <1>3
  <2>2. i - 1 \in T
    BY <1>4, <2>1
  <2>3. n <= i - 1
    BY <1>2, <2>2
  <2> HIDE DEF T
  <2> QED
    BY <1>3, <2>1, <2>3
<1> QED
  BY <1>3, <1>4 DEF StopsAt

\* and nowhere else.
LEMMA ScanLengthIs ==
  ASSUME NEW f \in Seq(Chunk)
  PROVE  /\ StopsAt(f, ScanLength(f))
         /\ \A n : StopsAt(f, n) => ScanLength(f) = n
<1>1. StopsAt(f, ScanLength(f))
  BY ScanStops DEF ScanLength, StopsAt
<1>2. ASSUME NEW n, NEW m, StopsAt(f, n), StopsAt(f, m), n < m PROVE FALSE
  <2>1. n + 1 \in 1..m /\ n < Len(f)
    BY <1>2 DEF StopsAt
  <2> QED
    BY <1>2, <2>1 DEF StopsAt
<1>3. \A n : StopsAt(f, n) => n \in Nat
  BY DEF StopsAt
<1>4. ASSUME NEW n, NEW m, StopsAt(f, n), StopsAt(f, m) PROVE n = m
  <2>1. n \in Nat /\ m \in Nat /\ ~(n < m) /\ ~(m < n)
    BY <1>2, <1>3, <1>4
  <2> QED
    BY <2>1
<1> QED
  BY <1>1, <1>4

\* The first n records of f.
Records(f, n) == [i \in 1..n |-> f[i].rec]

\* They are as many.
LEMMA RecordsAre ==
  ASSUME NEW f \in Seq(Chunk), NEW n \in 0..Len(f)
  PROVE  /\ Records(f, n) \in Seq(Entry \cup {Junk}) /\ Len(Records(f, n)) = n
         /\ \A i \in 1..n : Records(f, n)[i] = f[i].rec
<1>1. n \in Nat /\ \A i \in 1..n : f[i].rec \in Entry \cup {Junk}
  <2>1. n \in Nat /\ \A i \in 1..n : f[i] \in Chunk
    OBVIOUS
  <2> QED
    BY <2>1 DEF Chunk
<1>2. Records(f, n) \in [1..n -> Entry \cup {Junk}]
  BY <1>1 DEF Records
<1>3. Records(f, n) \in Seq(Entry \cup {Junk})
  BY <1>1, <1>2
<1> QED
  BY <1>1, <1>2, <1>3 DEF Records

\* A prefix of a sequence.
LEMMA PrefixIs ==
  ASSUME NEW S, NEW s \in Seq(S), NEW n \in 0..Len(s)
  PROVE  /\ SubSeq(s, 1, n) \in Seq(S) /\ Len(SubSeq(s, 1, n)) = n
         /\ \A i \in 1..n : SubSeq(s, 1, n)[i] = s[i]
OBVIOUS

\* A file that starts with n chunks of f and has at most junk behind them
\* is scanned as far as both f and n go.
LEMMA ScannedPrefix ==
  ASSUME NEW f \in Seq(Chunk), NEW n \in 0..Len(f), NEW g \in Seq(Chunk),
         \A i \in 1..n : g[i] = f[i],
         \/ Len(g) = n
         \/ Len(g) = n + 1 /\ g[n + 1].rec = Junk
  PROVE  \E k \in 0..Len(f) :
           /\ Scanned(g) = Records(f, k)
           /\ IF n < ScanLength(f) THEN k = n ELSE k = ScanLength(f)
<1> DEFINE m == ScanLength(f)
           k == IF n < m THEN n ELSE m
<1>1. StopsAt(f, m)
  BY ScanLengthIs
<1> HIDE DEF m
<1>2. /\ k \in 0..Len(f) /\ k \in 0..n /\ n \in Nat /\ m \in Nat /\ Len(f) \in Nat
      /\ Len(g) \in Nat /\ k <= m
  BY <1>1 DEF StopsAt
<1>3. k \in 0..Len(g)
  BY <1>2
<1>4. \A i \in 1..k : g[i] = f[i] /\ f[i].rec # Junk
  BY <1>1, <1>2 DEF StopsAt
<1>5. k < Len(g) => g[k + 1].rec = Junk
  <2>1. CASE n < m
    BY <1>2, <2>1
  <2>2. CASE m < n
    BY <1>1, <1>2, <2>2 DEF StopsAt
  <2>3. CASE m = n
    BY <1>2, <2>3
  <2> QED
    BY <1>2, <2>1, <2>2, <2>3
<1> HIDE DEF k
<1>6. StopsAt(g, k)
  BY <1>3, <1>4, <1>5 DEF StopsAt
<1>7. ScanLength(g) = k
  BY <1>6, ScanLengthIs
<1>8. Scanned(g) = Records(f, k)
  BY <1>4, <1>7 DEF Scanned, Records
<1> QED
  BY <1>2, <1>8 DEF k, m

\* What has settled is in front of any junk.
LEMMA SoundIsScanned ==
  ASSUME WalInv PROVE sound \in 0..ScanLength(file)
<1>1. file \in Seq(Chunk) /\ sound \in Nat /\ sound <= Len(file)
  BY DEF WalInv, WalTypeOK, MediumInv
<1>2. \A i \in 1..sound : file[i].rec # Junk
  <2>1. \A i \in 1..sound : promised[i] \in Entry
    BY DEF WalInv, WalTypeOK, MediumInv
  <2> QED
    BY <2>1, WalAssumption DEF WalInv, MediumInv
<1>3. StopsAt(file, ScanLength(file))
  BY <1>1, ScanLengthIs
<1> HIDE DEF StopsAt
<1>4. ASSUME NEW m, StopsAt(file, m), m < sound PROVE FALSE
  <2>1. m \in Nat /\ m + 1 \in 1..sound /\ m < Len(file) /\ file[m + 1].rec = Junk
    BY <1>1, <1>4 DEF StopsAt
  <2> QED
    BY <1>2, <2>1
<1>5. \A m : StopsAt(file, m) => m \in Nat
  BY DEF StopsAt
<1> QED
  BY <1>1, <1>3, <1>4, <1>5

\* The entries a scan finds in an open log are the first of the log.
LEMMA ScannedIsLogged ==
  ASSUME WorkerInv, phase = "open", NEW k \in 0..ScanLength(file)
  PROVE  k <= Len(logged) /\ Records(file, k) = SubSeq(logged, 1, k)
<1>1. file \in Seq(Chunk) /\ logged \in Seq(Entry)
  BY DEF WorkerInv, TypeOK, WalTypeOK
<1>2. StopsAt(file, ScanLength(file))
  BY <1>1, ScanLengthIs
<1>3. ASSUME NEW i \in 1..k PROVE i <= Len(logged) /\ logged[i] = file[i].rec
  <2>1. i \in DOMAIN file /\ \A j \in 1..i : file[j].rec # Junk
    BY <1>1, <1>2 DEF StopsAt
  <2> QED
    BY <2>1 DEF WorkerInv, PrefixInv
<1>4. k \in Nat /\ Len(logged) \in Nat
  BY <1>1, <1>2 DEF StopsAt
<1>5. k <= Len(logged)
  <2>1. CASE k = 0
    BY <1>4, <2>1
  <2>2. CASE k # 0
    BY <1>3, <1>4, <2>2
  <2> QED
    BY <2>1, <2>2
<1> QED
  BY <1>1, <1>3, <1>4, <1>5 DEF Records

-----------------------------------------------------------------------------
(* The ends of a worker, and recovery. *)

\* While the worker is down its log is what a scan would find; while it runs,
\* the entries of its handle, without the one that waits for its fsync.
LEMMA StoreLogIs ==
  /\ ~Running => StoreLog = Scanned(file)
  /\ Running /\ pc # "fsync" => StoreLog = logged
  /\ pc = "fsync" => StoreLog = SubSeq(logged, 1, Len(logged) - 1)
  /\ ~Running' => StoreLog' = Scanned(file')
  /\ Running' /\ pc' # "fsync" => StoreLog' = logged'
  /\ pc' = "fsync" => StoreLog' = SubSeq(logged', 1, Len(logged') - 1)
BY DEF StoreLog, Running

\* The store's log while the last entry waits for its fsync.
LEMMA DueLog ==
  ASSUME WorkerInv, pc = "fsync"
  PROVE  /\ Len(logged) - 1 \in Nat
         /\ StoreLog \in Seq(Entry) /\ Len(StoreLog) = Len(logged) - 1
         /\ \A i \in 1..(Len(logged) - 1) : StoreLog[i] = logged[i]
         /\ Append(StoreLog, req[cur]) = logged
<1>1. /\ logged \in Seq(Entry) /\ Len(logged) \in Nat /\ Len(logged) > 0
      /\ logged[Len(logged)] = req[cur] /\ req[cur] \in Entry
  BY DEF WorkerInv, TypeOK, WalTypeOK, DueInv, CurInv
<1>2. StoreLog = SubSeq(logged, 1, Len(logged) - 1)
  BY StoreLogIs
<1>3. /\ StoreLog \in Seq(Entry) /\ Len(StoreLog) = Len(logged) - 1
      /\ \A i \in 1..(Len(logged) - 1) : StoreLog[i] = logged[i]
  <2>1. Len(logged) - 1 \in 0..Len(logged)
    BY <1>1
  <2> QED
    BY <1>1, <1>2, <2>1, PrefixIs
<1>4. Append(StoreLog, req[cur]) = logged
  <2> DEFINE s == Append(StoreLog, req[cur])
  <2>1. s \in Seq(Entry) /\ Len(s) = Len(logged)
    BY <1>1, <1>3
  <2>2. \A i \in 1..Len(logged) : s[i] = logged[i]
    BY <1>1, <1>3
  <2> QED
    BY <1>1, <2>1, <2>2
<1> QED
  BY <1>1, <1>3, <1>4

\* A query that is not answered yet is pending in the store.
LEMMA WaitingIsPending ==
  ASSUME WorkerInv, NEW c \in Clients, conn[c] \in {"sending", "waiting"}
  PROVE  KV!Pending(c)
BY QueriesAreSomething DEF WorkerInv, ConnInv, KV!Pending

\* The worker ends and the file keeps k entries in front of any junk, all that
\* has settled among them: the store stops.
LEMMA StopsWithPrefix ==
  ASSUME WorkerInv, NEW k \in Nat, sound <= k, k <= ScanLength(file),
         ~Running', Scanned(file') = Records(file, k), sound' = sound,
         memory_index' = NoIndex,
         req' = [c \in Clients |-> Nothing], rsp' = [c \in Clients |-> Nothing]
  PROVE  KV!Stop
<1>1. StoreLog' = Records(file, k)
  BY StoreLogIs
<1>2. /\ file \in Seq(Chunk) /\ logged \in Seq(Entry) /\ sound \in Nat
      /\ Running <=> phase = "open"
  BY DEF WorkerInv, TypeOK, WalTypeOK, TaskInv
<1>3. ScanLength(file) \in 0..Len(file)
  BY <1>2, ScanLengthIs DEF StopsAt
<1>4. SUFFICES \/ \E n \in sound..Len(StoreLog) : StoreLog' = SubSeq(StoreLog, 1, n)
               \/ \E c \in Clients : /\ KV!Pending(c) /\ req[c] \in KV!Writes
                                     /\ StoreLog' = Append(StoreLog, req[c])
  BY DEF KV!Stop, KV!Absent, KV!Idle, NoIndex
<1>5. CASE ~Running
  <2>1. StoreLog = Records(file, ScanLength(file))
    BY <1>5, StoreLogIs DEF Scanned, Records
  <2>2. /\ StoreLog \in Seq(Entry \cup {Junk}) /\ Len(StoreLog) = ScanLength(file)
        /\ \A i \in 1..ScanLength(file) : StoreLog[i] = file[i].rec
    BY <1>2, <1>3, <2>1, RecordsAre
  <2>3. k \in sound..Len(StoreLog) /\ k \in 0..Len(StoreLog) /\ k \in 0..Len(file)
    BY <1>2, <1>3, <2>2
  <2>4. Records(file, k) = SubSeq(StoreLog, 1, k)
    BY <1>2, <1>3, <2>2, <2>3 DEF Records
  <2> QED
    BY <1>1, <2>3, <2>4
<1>6. CASE Running
  <2>1. k <= Len(logged) /\ StoreLog' = SubSeq(logged, 1, k)
    BY <1>1, <1>2, <1>3, <1>6, ScannedIsLogged
  <2>2. CASE pc # "fsync"
    <3>1. StoreLog = logged /\ k \in sound..Len(logged)
      BY <1>2, <1>6, <2>1, <2>2, StoreLogIs
    <3> QED
      BY <2>1, <3>1
  <2>3. CASE pc = "fsync"
    <3>1. /\ StoreLog \in Seq(Entry) /\ Len(StoreLog) = Len(logged) - 1
          /\ \A i \in 1..(Len(logged) - 1) : StoreLog[i] = logged[i]
          /\ Append(StoreLog, req[cur]) = logged
      BY <2>3, DueLog
    <3>2. CASE k < Len(logged)
      <4>1. k \in sound..Len(StoreLog)
        BY <1>2, <3>1, <3>2
      <4>2. SubSeq(logged, 1, k) = SubSeq(StoreLog, 1, k)
        BY <1>2, <3>1, <3>2
      <4> QED
        BY <2>1, <4>1, <4>2
    <3>3. CASE k = Len(logged)
      <4>1. SubSeq(logged, 1, k) = logged
        BY <1>2, <3>3
      <4>2. cur \in Clients /\ KV!Pending(cur) /\ req[cur] \in KV!Writes
        BY <2>3, WaitingIsPending DEF WorkerInv, CurInv, KV!Writes, Entry
      <4> QED
        BY <2>1, <3>1, <4>1, <4>2
    <3> QED
      BY <1>2, <2>1, <3>2, <3>3
  <2> QED
    BY <2>2, <2>3
<1> QED
  BY <1>5, <1>6

\* Return: the file is closed as it is.
LEMMA ReturnStep ==
  ASSUME WorkerInv, Return PROVE KV!Stop
<1>1. /\ pc = "exited" /\ pc' = "off" /\ file' = file /\ sound' = sound
      /\ memory_index' = NoIndex /\ req' = req /\ rsp' = rsp
  BY DEF Return, Close, Forget, connVars
<1>2. /\ req = [c \in Clients |-> Nothing] /\ rsp = [c \in Clients |-> Nothing]
  BY <1>1 DEF WorkerInv, TypeOK, TaskInv, ConnInv, Serving
<1>3. /\ ScanLength(file) \in Nat /\ sound <= ScanLength(file)
      /\ Scanned(file') = Records(file, ScanLength(file))
  <2>1. file \in Seq(Chunk)
    BY DEF WorkerInv, TypeOK, WalTypeOK
  <2> QED
    BY <1>1, <2>1, SoundIsScanned, ScanLengthIs DEF WorkerInv, StopsAt,
       Scanned, Records
<1> QED
  BY <1>1, <1>2, <1>3, StopsWithPrefix DEF Running

\* Die: a crash leaves the file, with torn bytes behind it perhaps; a power
\* loss leaves a prefix that holds what is on the medium.
LEMMA DieStep ==
  ASSUME WorkerInv, WalInv', Die PROVE KV!Stop
<1>1. file \in Seq(Chunk) /\ file' \in Seq(Chunk) /\ TornLens \subseteq Nat \ {0}
  BY WalAssumption DEF WorkerInv, TypeOK, WalTypeOK, WalInv
<1>2. sound \in 0..ScanLength(file) /\ ScanLength(file) \in 0..Len(file)
  BY <1>1, SoundIsScanned, ScanLengthIs DEF WorkerInv, StopsAt
<1> DEFINE Cut(n) == /\ sound <= n
                     /\ \A i \in 1..n : file'[i] = file[i]
                     /\ \/ Len(file') = n
                        \/ Len(file') = n + 1 /\ file'[n + 1].rec = Junk
<1>3. \E n \in 0..Len(file) : Cut(n)
  <2>1. CASE file' = file
    <3>1. Len(file) \in 0..Len(file) /\ sound <= Len(file)
      BY <1>1, <1>2
    <3> QED
      BY <2>1, <3>1
  <2>2. ASSUME NEW n \in TornLens, file' = Write(file, Junk, n)
        PROVE  \E m \in 0..Len(file) : Cut(m)
    <3>1. Extends(file', file, Junk, n)
      BY <1>1, <2>2, WriteExtends
    <3>2. Len(file) \in 0..Len(file) /\ sound <= Len(file)
      BY <1>1, <1>2
    <3>3. Cut(Len(file))
      BY <3>1, <3>2 DEF Extends
    <3> QED
      BY <3>2, <3>3
  <2>3. CASE PowerLoss
    <3>1. PICK n \in synced..(IF dropped THEN synced ELSE Len(file)) :
                 \/ file' = SubSeq(file, 1, n)
                 \/ \E t \in TornLens : file' = Write(SubSeq(file, 1, n), Junk, t)
      BY <2>3 DEF PowerLoss
    <3>2. n \in 0..Len(file) /\ sound <= n
      <4>1. /\ synced \in 0..Len(file) /\ sound \in Nat /\ sound <= synced
            /\ Len(file) \in Nat
        BY <1>1 DEF WorkerInv, WalInv, WalTypeOK, MediumInv
      <4>2. n \in synced..Len(file)
        BY <4>1
      <4> QED
        BY <4>1, <4>2
    <3> DEFINE kept == SubSeq(file, 1, n)
    <3>3. kept \in Seq(Chunk) /\ Len(kept) = n /\ \A i \in 1..n : kept[i] = file[i]
      BY <1>1, <3>2, PrefixKeeps
    <3> HIDE DEF kept
    <3>4. CASE file' = kept
      BY <3>2, <3>3, <3>4
    <3>5. ASSUME NEW t \in TornLens, file' = Write(kept, Junk, t)
          PROVE  /\ Len(file') = n + 1 /\ file'[n + 1].rec = Junk
                 /\ \A i \in 1..n : file'[i] = file[i]
      <4>1. Extends(file', kept, Junk, t)
        BY <1>1, <3>3, <3>5, WriteExtends
      <4> QED
        BY <3>3, <4>1 DEF Extends
    <3> QED
      BY <3>1, <3>2, <3>4, <3>5 DEF kept
  <2>4. CASE Crash
    <3>1. file' = file \/ \E m \in TornLens : file' = Write(file, Junk, m)
      BY <2>4 DEF Crash, Torn
    <3> HIDE DEF Cut
    <3> QED
      BY <2>1, <2>2, <3>1
  <2> QED
    BY <2>3, <2>4 DEF Die
<1>4. PICK n \in 0..Len(file) : Cut(n)
  BY <1>3
<1>5. PICK k \in 0..Len(file) :
        /\ Scanned(file') = Records(file, k)
        /\ IF n < ScanLength(file) THEN k = n ELSE k = ScanLength(file)
  BY <1>1, <1>4, ScannedPrefix
<1>6. k \in Nat /\ sound <= k /\ k <= ScanLength(file)
  BY <1>2, <1>4, <1>5
<1>7. /\ ~Running' /\ sound' = sound /\ memory_index' = NoIndex
      /\ req' = [c \in Clients |-> Nothing] /\ rsp' = [c \in Clients |-> Nothing]
  BY DEF Die, LoseMemory, Running, Crash, PowerLoss, Forget
<1> QED
  BY <1>5, <1>6, <1>7, StopsWithPrefix

\* Recover: what recovery cuts off is what a scan does not find.
LEMMA RecoverStep ==
  ASSUME WorkerInv, Recover PROVE UNCHANGED KV!vars
<1>1. /\ pc = "off" /\ pc' = "off" /\ sound' = sound /\ memory_index' = memory_index
      /\ req' = req /\ rsp' = rsp
  BY DEF Recover, workerVars, connVars, Open, ScanEntry, ScanStop, SetLen,
     SyncTruncated, InitErr, Forget, history
<1>2. file \in Seq(Chunk)
  BY DEF WorkerInv, TypeOK, WalTypeOK
<1>3. Scanned(file') = Scanned(file)
  <2>1. CASE SetLen
    <3>1. /\ entry_count \in Nat /\ entry_count < Len(file)
          /\ file[entry_count + 1].rec = Junk
          /\ \A i \in 1..entry_count : file[i].rec # Junk
          /\ file' = SubSeq(file, 1, entry_count)
      BY <2>1 DEF SetLen, WorkerInv, TypeOK, WalTypeOK, WalInv, ScanInv,
         InitPhases
    <3>2. /\ file' \in Seq(Chunk) /\ Len(file') = entry_count
          /\ \A i \in 1..entry_count : file'[i] = file[i]
      BY <1>2, <3>1, PrefixKeeps
    <3>3. StopsAt(file, entry_count) /\ StopsAt(file', entry_count)
      BY <1>2, <3>1, <3>2 DEF StopsAt
    <3>4. ScanLength(file) = entry_count /\ ScanLength(file') = entry_count
      BY <1>2, <3>2, <3>3, ScanLengthIs
    <3> QED
      BY <3>2, <3>4 DEF Scanned
  <2>2. CASE ~SetLen
    <3>1. file' = file
      BY <2>2 DEF Recover, Open, ScanEntry, ScanStop, SyncTruncated, InitErr,
         SyncMedium, SyncFails
    <3> QED
      BY <3>1
  <2> QED
    BY <2>1, <2>2
<1>4. StoreLog' = StoreLog
  BY <1>1, <1>3, StoreLogIs DEF Running
<1> QED
  BY <1>1, <1>4 DEF KV!vars, Running

\* Start: the index is the replay of what the scan found.
LEMMA StartStep ==
  ASSUME WorkerInv, Start PROVE KV!Start
<1>1. /\ pc = "off" /\ pc' = "recv" /\ phase = "ready" /\ entry_count = Len(file)
      /\ memory_index' = map_index /\ sound' = sound /\ req' = req /\ rsp' = rsp
      /\ logged' = Records(file, Len(file))
  BY DEF Start, InitReturn, connVars, WorkerInv, WalInv, ScanInv, Records
<1>2. /\ file \in Seq(Chunk) /\ map_index \in [Keys -> Vals \cup {NoVal}]
      /\ \A i \in 1..Len(file) : file[i].rec # Junk
      /\ IsReplayOf(map_index, file, Len(file))
  BY <1>1 DEF WorkerInv, WalInv, WalTypeOK, ScanInv, InitPhases
<1>3. ScanLength(file) = Len(file)
  <2>1. StopsAt(file, Len(file))
    BY <1>2 DEF StopsAt
  <2> QED
    BY <1>2, <2>1, ScanLengthIs
<1>4. StoreLog = Records(file, Len(file)) /\ StoreLog' = StoreLog
  BY <1>1, <1>3, StoreLogIs DEF Running, Scanned, Records
<1>5. KV!IsReplay(map_index, StoreLog)
  <2>1. /\ DOMAIN StoreLog = 1..Len(file)
        /\ \A i \in 1..Len(file) : StoreLog[i] = file[i].rec
    BY <1>4 DEF Records
  <2> SUFFICES ASSUME NEW k \in Keys
               PROVE  LET on == {i \in DOMAIN StoreLog : StoreLog[i].key = k} IN
                        \/ on = {} /\ map_index[k] = NoVal
                        \/ \E i \in on : /\ \A j \in on : j <= i
                                         /\ map_index[k] = StoreLog[i].val
    BY DEF KV!IsReplay
  <2>2. {i \in DOMAIN StoreLog : StoreLog[i].key = k}
          = {i \in 1..Len(file) : file[i].rec.key = k}
    BY <2>1
  <2> DEFINE on == {i \in 1..Len(file) : file[i].rec.key = k}
  <2>3. \/ on = {} /\ map_index[k] = NoVal
        \/ \E i \in on : (\A j \in on : j <= i) /\ map_index[k] = file[i].rec.val
    BY <1>2 DEF IsReplayOf
  <2>4. \A i \in on : StoreLog[i].val = file[i].rec.val
    BY <2>1
  <2> HIDE DEF on
  <2> QED
    BY <2>2, <2>3, <2>4 DEF on
<1> QED
  BY <1>1, <1>2, <1>4, <1>5 DEF KV!Start, Running

-----------------------------------------------------------------------------
(* The calls, the answers and the writes. *)

\* What Reply does to the store: the answer is there, the query stays.
LEMMA ReplyAnswers ==
  ASSUME NEW c, NEW code, NEW v, Reply(c, Answer(code, v))
  PROVE  KV!Answer(c, code, v) /\ req' = req
BY DEF Reply, Answer, KV!Answer

\* GetHandle, Send and Done: the call, nothing, and the return.
LEMMA ClientStep ==
  ASSUME WorkerInv, NEW c \in Clients,
         (\E q \in Entry \cup Reads : GetHandle(c, q)) \/ Send(c) \/ Done(c)
  PROVE  KV!Call(c) \/ KV!Return(c) \/ UNCHANGED KV!vars
<1>1. /\ pc' = pc /\ logged' = logged /\ file' = file /\ sound' = sound
      /\ memory_index' = memory_index
  BY DEF GetHandle, Send, Done, walVars, history, workerVars
<1>2. StoreLog' = StoreLog /\ Running' = Running
  BY <1>1 DEF StoreLog, Running
<1>3. CASE \E q \in Entry \cup Reads : GetHandle(c, q)
  <2>1. PICK q \in Entry \cup Reads : GetHandle(c, q)
    BY <1>3
  <2>2. q \in KV!Queries
    BY DEF KV!Queries, KV!Writes, Entry, Reads
  <2>3. Running /\ req[c] = Nothing
    BY <2>1 DEF GetHandle, WorkerInv, TaskInv, ConnInv, Serving, Running
  <2> QED
    BY <1>1, <1>2, <2>1, <2>2, <2>3 DEF GetHandle, KV!Call
<1>4. CASE Send(c)
  BY <1>1, <1>2, <1>4 DEF Send, KV!vars
<1>5. CASE Done(c)
  BY <1>1, <1>2, <1>5 DEF Done, KV!Return, WorkerInv, ConnInv
<1> QED
  BY <1>3, <1>4, <1>5

\* ExecuteRead: GET and INFO are answered from the index of one instant.
LEMMA ReadStep ==
  ASSUME WorkerInv, ExecuteRead
  PROVE  \E c \in Clients : KV!Get(c) \/ KV!Info(c)
<1> DEFINE c == Head(queue)
<1>1. /\ c \in Clients /\ conn[c] = "waiting" /\ KV!Pending(c)
      /\ rsp = [d \in Clients |-> rsp[d]]
  <2>1. c \in Clients /\ conn[c] = "waiting"
    BY HeadOfQueue DEF ExecuteRead, Ready
  <2> QED
    BY <2>1, WaitingIsPending DEF WorkerInv, ConnInv
<1>2. /\ pc' = pc /\ logged' = logged /\ file' = file /\ sound' = sound
      /\ memory_index' = memory_index /\ req' = req /\ req[c] \in Reads
  BY DEF ExecuteRead, Reply, walVars, history
<1>3. StoreLog' = StoreLog /\ Running' = Running
  BY <1>2 DEF StoreLog, Running
<1>4. Reply(c, IF req[c].op = "INFO" THEN InfoPacket(memory_index, file_len)
               ELSE LET v == memory_index[req[c].key] IN
                 IF v # NoVal THEN Answer("KeyValue", v)
                              ELSE Answer("KeyNotFound", NoVal))
  BY DEF ExecuteRead
<1> HIDE DEF c
<1>5. CASE req[c].op = "INFO"
  <2> DEFINE p == InfoPacket(memory_index, file_len)
  <2>1. p.op = "Info" /\ p.key_count = Cardinality(Present(memory_index))
    BY DEF InfoPacket
  <2> HIDE DEF p
  <2>2. Present(memory_index) = {k \in Keys : memory_index[k] # NoVal}
    BY DEF Present, WorkerInv, TypeOK
  <2>3. rsp' = [rsp EXCEPT ![c] = p] /\ rsp'[c] = p
    BY <1>1, <1>4, <1>5 DEF Reply, p
  <2>4. /\ rsp'[c].op = "Info" /\ rsp' = [rsp EXCEPT ![c] = rsp'[c]]
        /\ rsp'[c].key_count = Cardinality({k \in Keys : memory_index[k] # NoVal})
    BY <2>1, <2>2, <2>3
  <2>5. UNCHANGED <<Running, StoreLog, sound, memory_index, req>>
    BY <1>2, <1>3
  <2>6. \A S : KV!Cardinality(S) = Cardinality(S)
    BY Zenon DEF KV!Cardinality, Cardinality
  <2>7. KV!Info(c)
    BY <1>1, <1>5, <2>4, <2>5, <2>6, Zenon DEF KV!Info
  <2> QED
    BY <1>1, <2>7
<1>6. CASE req[c].op # "INFO"
  <2>1. req[c].op = "GET"
    BY <1>2, <1>6 DEF Reads
  <2> DEFINE v == memory_index[req[c].key]
  <2>2. IF v = NoVal THEN KV!Answer(c, "KeyNotFound", NoVal)
                     ELSE KV!Answer(c, "KeyValue", v)
    BY <1>4, <1>6, ReplyAnswers
  <2> QED
    BY <1>1, <1>2, <1>3, <2>1, <2>2 DEF KV!Get
<1> QED
  BY <1>1, <1>5, <1>6

\* What the worker executes is a write of the store that nobody has answered.
LEMMA CurPending ==
  ASSUME WorkerInv, pc \in {"append", "fsync"}
  PROVE  /\ cur \in Clients /\ KV!Pending(cur)
         /\ req[cur] \in Entry /\ req[cur] \in KV!Writes
BY WaitingIsPending DEF WorkerInv, CurInv, KV!Writes, Entry

\* Apply is the store's commit, once the log shows the entry.
LEMMA ApplyCommits ==
  ASSUME WorkerInv, pc \in {"append", "fsync"}, Apply,
         StoreLog' = Append(StoreLog, req[cur]),
         sound' \in sound..Len(StoreLog')
  PROVE  KV!Commit(cur)
<1>1. cur \in Clients /\ KV!Pending(cur) /\ req[cur] \in KV!Writes /\ req[cur] \in Entry
  BY CurPending
<1>2. memory_index' = [memory_index EXCEPT ![req[cur].key] = req[cur].val]
  BY <1>1 DEF Apply, ReplayInto, Entry
<1>3. /\ IF req[cur].op = "DELETE" /\ memory_index[req[cur].key] = NoVal
           THEN KV!Answer(cur, "KeyNotFound", NoVal)
           ELSE KV!Answer(cur, "Ok", NoVal)
      /\ req' = req
  BY ReplyAnswers DEF Apply
<1>4. Running /\ Running'
  BY DEF Running, Apply
<1> QED
  BY <1>1, <1>2, <1>3, <1>4 DEF KV!Commit

\* Fail is the store's refusal, whether or not the log shows the entry.
LEMMA FailRefuses ==
  ASSUME WorkerInv, pc \in {"append", "fsync"}, Fail,
         StoreLog' \in {StoreLog, Append(StoreLog, req[cur])}, sound' = sound
  PROVE  KV!Refuse(cur)
<1>1. cur \in Clients /\ KV!Pending(cur) /\ req[cur] \in KV!Writes
  BY CurPending
<1>2. KV!Answer(cur, "InternalError", NoVal) /\ req' = req
  BY ReplyAnswers DEF Fail
<1>3. Running /\ Running' /\ memory_index' = memory_index
  BY DEF Running, Fail
<1> QED
  BY <1>1, <1>2, <1>3 DEF KV!Refuse

\* The steps of a write.
LEMMA WriteStep ==
  ASSUME WorkerInv, WriteUnsynced \/ WriteDue \/ WriteFails
  PROVE  UNCHANGED KV!vars \/ \E c \in Clients : KV!Commit(c) \/ KV!Refuse(c)
<1>1. pc = "append" /\ Running
  BY DEF WriteUnsynced, WriteDue, WriteFails, Running
<1>2. /\ StoreLog = logged /\ logged \in Seq(Entry) /\ sound \in Nat /\ sound <= Len(logged)
      /\ phase = "open" /\ cur \in Clients /\ req[cur] \in Entry
  BY <1>1, StoreLogIs, CurPending DEF WorkerInv, TypeOK, WalTypeOK, WalInv,
     SoundPromisesKept, TaskInv
<1>3. CASE WriteUnsynced
  <2>1. /\ logged' = Append(logged, req[cur]) /\ sound' = sound /\ Apply
        /\ pc' = "recv"
    BY <1>3 DEF WriteUnsynced, AppendOk, Apply
  <2>2. StoreLog' = Append(StoreLog, req[cur])
    BY <1>2, <2>1, StoreLogIs DEF Running
  <2>3. sound' \in sound..Len(StoreLog')
    BY <1>2, <2>1, <2>2
  <2> QED
    BY <1>1, <1>2, <2>1, <2>2, <2>3, ApplyCommits
<1>4. CASE WriteDue
  <2>1. /\ logged' = Append(logged, req[cur]) /\ sound' = sound
        /\ pc' = "fsync" /\ UNCHANGED <<memory_index, req, rsp>>
    BY <1>4 DEF WriteDue, AppendOk, connVars
  <2>2. StoreLog' = logged
    <3>1. StoreLog' = SubSeq(Append(logged, req[cur]), 1, Len(Append(logged, req[cur])) - 1)
      BY <2>1, StoreLogIs
    <3>2. Len(Append(logged, req[cur])) - 1 = Len(logged)
      BY <1>2
    <3>3. SubSeq(Append(logged, req[cur]), 1, Len(logged)) = logged
      BY <1>2
    <3> QED
      BY <3>1, <3>2, <3>3
  <2> QED
    BY <1>1, <1>2, <2>1, <2>2 DEF KV!vars, Running
<1>5. CASE WriteFails
  <2>1. logged' = logged /\ sound' = sound /\ Fail /\ pc' = "recv"
    BY <1>5 DEF WriteFails, AppendErr, history, Fail
  <2>2. StoreLog' = StoreLog
    BY <1>2, <2>1, StoreLogIs DEF Running
  <2> QED
    BY <1>1, <1>2, <2>1, <2>2, FailRefuses
<1> QED
  BY <1>3, <1>4, <1>5

\* The steps of an fsync: what it covers has settled, if no fault is there.
LEMMA SyncStep ==
  ASSUME WorkerInv, SyncDue \/ SyncDueFails \/ FinalSync
  PROVE  KV!Settle \/ \E c \in Clients : KV!Commit(c) \/ KV!Refuse(c)
<1>1. /\ logged \in Seq(Entry) /\ sound \in Nat /\ sound <= Len(logged)
      /\ phase = "open" /\ (FsyncOk \/ FsyncErr) /\ logged' = logged
  BY DEF WorkerInv, TypeOK, WalTypeOK, WalInv, SoundPromisesKept, SyncDue,
     SyncDueFails, FinalSync, FsyncOk, FsyncErr, history
<1>2. sound' \in sound..Len(logged)
  <2>1. sound' = sound \/ sound' = Len(logged)
    BY <1>1 DEF FsyncOk, FsyncErr, history
  <2> QED
    BY <1>1, <2>1
<1>3. CASE SyncDue
  <2>1. pc = "fsync" /\ pc' = "recv" /\ Apply
    BY <1>3 DEF SyncDue, Apply
  <2>2. StoreLog' = logged /\ Append(StoreLog, req[cur]) = logged
    BY <1>1, <2>1, StoreLogIs, DueLog DEF Running
  <2> QED
    BY <1>2, <2>1, <2>2, ApplyCommits, CurPending
<1>4. CASE SyncDueFails
  <2>1. pc = "fsync" /\ pc' = "recv" /\ Fail /\ sound' = sound
    BY <1>4 DEF SyncDueFails, Fail, FsyncErr, history
  <2>2. StoreLog' = logged /\ Append(StoreLog, req[cur]) = logged
    BY <1>1, <2>1, StoreLogIs, DueLog DEF Running
  <2> QED
    BY <2>1, <2>2, FailRefuses, CurPending
<1>5. CASE FinalSync
  <2>1. /\ pc = "final" /\ pc' = "exited"
        /\ UNCHANGED <<memory_index, req, rsp>>
    BY <1>5 DEF FinalSync, connVars
  <2>2. StoreLog = logged /\ StoreLog' = StoreLog /\ Running /\ Running'
    BY <1>1, <2>1, StoreLogIs DEF Running
  <2> QED
    BY <1>2, <2>1, <2>2 DEF KV!Settle
<1> QED
  BY <1>3, <1>4, <1>5

-----------------------------------------------------------------------------
(* The refinement. *)

\* Every step of the worker, of its clients and of the machine is a step of the
\* store.
LEMMA StepsOfStore ==
  ASSUME WorkerInv, WalInv', [Next]_vars
  PROVE  [KV!Next]_(KV!vars)
<1>1. CASE Recover
  BY <1>1, RecoverStep
<1>2. CASE Start \/ Die
  BY <1>2, StartStep, DieStep DEF KV!Next
<1>3. CASE DropMainSender \/ TakeWrite \/ LastSenderGone \/ UNCHANGED vars
  <2>1. /\ UNCHANGED <<file, logged, sound, memory_index, req, rsp>>
        /\ pc' = pc \/ (pc = "recv" /\ pc' \in {"append", "final"})
    BY <1>3 DEF DropMainSender, TakeWrite, LastSenderGone, Ready, vars,
       walVars, history, workerVars, connVars
  <2>2. StoreLog' = StoreLog /\ Running' = Running
    BY <2>1 DEF StoreLog, Running
  <2> QED
    BY <2>1, <2>2 DEF KV!vars
<1>4. ASSUME NEW c \in Clients,
             (\E q \in Entry \cup Reads : GetHandle(c, q)) \/ Send(c) \/ Done(c)
      PROVE  [KV!Next]_(KV!vars)
  BY <1>4, ClientStep DEF KV!Next
<1>5. CASE ExecuteRead
  BY <1>5, ReadStep DEF KV!Next
<1>6. CASE WriteUnsynced \/ WriteDue \/ WriteFails
  BY <1>6, WriteStep DEF KV!Next
<1>7. CASE SyncDue \/ SyncDueFails \/ FinalSync
  BY <1>7, SyncStep DEF KV!Next
<1>8. CASE Return
  BY <1>8, ReturnStep DEF KV!Next
<1> QED
  BY <1>1, <1>2, <1>3, <1>4, <1>5, <1>6, <1>7, <1>8 DEF Next, WorkerStep

\* An empty file is an empty store.
LEMMA StoreInit == Init => KV!Init
<1> SUFFICES ASSUME Init PROVE KV!Init
  OBVIOUS
<1>1. file = <<>> /\ file \in Seq(Chunk) /\ ~Running /\ sound = 0
  BY DEF Init, WalInit, Running
<1>2. StopsAt(file, 0)
  BY <1>1 DEF StopsAt
<1>3. ScanLength(file) = 0
  BY <1>1, <1>2, ScanLengthIs
<1>4. StoreLog = <<>>
  BY <1>1, <1>3, StoreLogIs DEF Scanned
<1> QED
  BY <1>1, <1>4 DEF Init, NoIndex, KV!Init, KV!Absent, KV!Idle

\* A database behaves as the store: every query takes effect at one instant
\* between its call and its answer, a refused write has no effect before a
\* restart, and a restart, in whatever way the process or the machine died,
\* loses at most a suffix of what has not settled.
THEOREM WorkerImplementsStore == Spec => ImplementsKVStore
<1>1. Init => KV!Init
  BY StoreInit
<1>2. WorkerInv /\ WorkerInv' /\ [Next]_vars => [KV!Next]_(KV!vars)
  BY StepsOfStore DEF WorkerInv
<1> QED
  BY <1>1, <1>2, WorkerInvariant, PTL DEF Spec, ImplementsKVStore, KV!Spec
-----------------------------------------------------------------------------
(* What the store keeps. *)

\* What has settled is part of what a restart may find.
SettledInv ==
  /\ StoreLog \in Seq(KV!Writes)
  /\ sound \in Nat /\ sound <= Len(StoreLog)

\* A step that leaves the settled writes where they are.
KeepsSettled ==
  /\ sound <= sound'
  /\ \A i \in 1..sound : i <= Len(StoreLog') /\ StoreLog'[i] = StoreLog[i]

\* An append, or a cut behind what has settled, leaves it where it is.
LEMMA GrowOrCut ==
  ASSUME SettledInv, sound' \in sound..Len(StoreLog'),
         \/ StoreLog' = StoreLog
         \/ \E e \in KV!Writes : StoreLog' = Append(StoreLog, e)
         \/ \E n \in sound..Len(StoreLog) : StoreLog' = SubSeq(StoreLog, 1, n)
  PROVE  SettledInv' /\ KeepsSettled
<1>1. Len(StoreLog) \in Nat
  BY DEF SettledInv
<1>2. CASE StoreLog' = StoreLog
  BY <1>1, <1>2 DEF SettledInv, KeepsSettled
<1>3. ASSUME NEW e \in KV!Writes, StoreLog' = Append(StoreLog, e)
      PROVE  SettledInv' /\ KeepsSettled
  <2>1. /\ StoreLog' \in Seq(KV!Writes) /\ Len(StoreLog') = Len(StoreLog) + 1
        /\ \A i \in 1..Len(StoreLog) : StoreLog'[i] = StoreLog[i]
    BY <1>3 DEF SettledInv
  <2> QED
    BY <1>1, <2>1 DEF SettledInv, KeepsSettled
<1>4. ASSUME NEW n \in sound..Len(StoreLog), StoreLog' = SubSeq(StoreLog, 1, n)
      PROVE  SettledInv' /\ KeepsSettled
  <2>1. n \in 0..Len(StoreLog)
    BY <1>1 DEF SettledInv
  <2>2. /\ StoreLog' \in Seq(KV!Writes) /\ Len(StoreLog') = n
        /\ \A i \in 1..n : StoreLog'[i] = StoreLog[i]
    BY <1>1, <1>4, <2>1 DEF SettledInv
  <2> QED
    BY <1>1, <2>1, <2>2 DEF SettledInv, KeepsSettled
<1> QED
  BY <1>2, <1>3, <1>4

\* No step of the store touches what has settled.
LEMMA StoreKeepsSettled ==
  ASSUME SettledInv, [KV!Next]_(KV!vars)
  PROVE  SettledInv' /\ KeepsSettled
<1>1. sound \in Nat /\ Len(StoreLog) \in Nat /\ sound \in sound..Len(StoreLog)
  BY DEF SettledInv
<1>2. CASE KV!Settle
  BY <1>1, <1>2, GrowOrCut DEF KV!Settle
<1>3. CASE KV!Stop
  <2>1. CASE \E n \in sound..Len(StoreLog) : StoreLog' = SubSeq(StoreLog, 1, n)
    <3>1. PICK n \in sound..Len(StoreLog) : StoreLog' = SubSeq(StoreLog, 1, n)
      BY <2>1
    <3>2. Len(StoreLog') = n
      BY <1>1, <3>1 DEF SettledInv
    <3> QED
      BY <1>1, <1>3, <3>1, <3>2, GrowOrCut DEF KV!Stop
  <2>2. ASSUME NEW e \in KV!Writes, StoreLog' = Append(StoreLog, e)
        PROVE  SettledInv' /\ KeepsSettled
    <3>1. Len(StoreLog') = Len(StoreLog) + 1
      BY <2>2 DEF SettledInv
    <3> QED
      BY <1>1, <1>3, <2>2, <3>1, GrowOrCut DEF KV!Stop
  <2> QED
    BY <1>3, <2>1, <2>2 DEF KV!Stop
<1>4. CASE KV!Start
  BY <1>1, <1>4, GrowOrCut DEF KV!Start
<1>5. ASSUME NEW c \in Clients, KV!Call(c) \/ KV!Get(c) \/ KV!Info(c) \/ KV!Return(c)
      PROVE  SettledInv' /\ KeepsSettled
  BY <1>1, <1>5, GrowOrCut DEF KV!Call, KV!Get, KV!Info, KV!Return
<1>6. ASSUME NEW c \in Clients, KV!Commit(c) PROVE SettledInv' /\ KeepsSettled
  BY <1>1, <1>6, GrowOrCut DEF KV!Commit
<1>7. ASSUME NEW c \in Clients, KV!Refuse(c) PROVE SettledInv' /\ KeepsSettled
  <2>1. sound' = sound /\ req[c] \in KV!Writes
          /\ (StoreLog' = StoreLog \/ StoreLog' = Append(StoreLog, req[c]))
    BY <1>7 DEF KV!Refuse
  <2>2. Len(StoreLog') >= Len(StoreLog) /\ Len(StoreLog') \in Nat
    BY <1>1, <2>1 DEF SettledInv
  <2> QED
    BY <1>1, <2>1, <2>2, GrowOrCut
<1>8. CASE UNCHANGED KV!vars
  BY <1>1, <1>8, GrowOrCut DEF KV!vars
<1> QED
  BY <1>2, <1>3, <1>4, <1>5, <1>6, <1>7, <1>8 DEF KV!Next

\* A write that has settled keeps its place for good: no answer, refusal, failed
\* fsync, crash, power loss, truncation or recovery takes it out of what the
\* next Wal::init finds, or puts anything in front of it.
THEOREM SettledForGood == Spec => [][KeepsSettled]_vars
<1>1. Init => SettledInv
  BY StoreInit DEF KV!Init, SettledInv
<1>2. SettledInv /\ WorkerInv /\ WorkerInv' /\ [Next]_vars => SettledInv' /\ KeepsSettled
  BY StepsOfStore, StoreKeepsSettled DEF WorkerInv
<1> QED
  BY <1>1, <1>2, WorkerInvariant, PTL DEF Spec
=============================================================================
