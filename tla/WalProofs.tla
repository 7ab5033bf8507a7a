----------------------------- MODULE WalProofs -----------------------------
(***************************************************************************)
(* TLAPS proofs about Wal: its invariants hold for every set of keys and   *)
(* values, every file length and every pattern of faults.                  *)
(***************************************************************************)
EXTENDS Wal, TLAPS

\* Chunks lie end to end, and an entry occupies exactly its encoded length.
Contiguous(f) ==
  /\ \A i \in DOMAIN f : f[i].rec # Junk =>
        f[i].end = EndAt(f, i - 1) + RecLen(f[i].rec)
  /\ \A i \in DOMAIN f : f[i].end > 0
  /\ \A i, j \in DOMAIN f : i < j => f[i].end < f[j].end

\* What Wal::init knows at each of its steps.
ScanInv ==
  /\ phase = "down" => /\ entry_count = 0 /\ file_len = 0
                       /\ map_index = NoIndex
  /\ phase \in InitPhases =>
       /\ entry_count <= Len(file)
       /\ \A i \in 1..entry_count : file[i].rec # Junk
       /\ file_len = EndAt(file, entry_count)
       /\ IsReplayOf(map_index, file, entry_count)
  /\ phase = "truncate" => /\ entry_count < Len(file)
                           /\ file[entry_count + 1].rec = Junk
  /\ phase \in {"sync", "ready"} => entry_count = Len(file)

\* What the holder of an open handle knows.
OpenInv ==
  phase = "open" =>
    /\ NoJunk => /\ entry_count = Len(file) /\ file_len = FileLen(file)
                 /\ Len(logged) = Len(file)
                 /\ \A i \in 1..Len(file) : logged[i] = file[i].rec
    /\ ~NoJunk => file_len < FileLen(file)

\* The sound promises are on the medium, in front of anything that can go.
MediumInv ==
  /\ sound <= Len(promised)
  /\ sound <= synced
  /\ \A i \in 1..sound : file[i].rec = promised[i]

\* g is f with one chunk of n bytes written behind it.
Extends(g, f, rec, n) ==
  /\ g \in Seq(Chunk) /\ Len(g) = Len(f) + 1
  /\ \A i \in 1..Len(f) : g[i] = f[i]
  /\ g[Len(f) + 1].rec = rec
  /\ g[Len(f) + 1].end = FileLen(f) + n
  /\ FileLen(g) = FileLen(f) + n

WalInv == WalTypeOK /\ Contiguous(file) /\ ScanInv /\ OpenInv /\ MediumInv
            /\ SoundPromisesKept

-----------------------------------------------------------------------------
(* Facts about the operators of the model. *)

\* The encoded length of an entry is positive.
LEMMA RecLenPositive ==
  ASSUME NEW r \in Entry PROVE RecLen(r) \in Nat /\ RecLen(r) > 0
BY WalAssumption DEF RecLen, Entry, HEADER_LEN, CRC_LEN

\* A chunk of a file ends at a natural offset.
LEMMA EndNat ==
  ASSUME NEW f \in Seq(Chunk), NEW i \in 1..Len(f) PROVE f[i].end \in Nat
<1>1. f[i] \in Chunk
  OBVIOUS
<1> QED
  BY <1>1 DEF Chunk

\* Offsets of chunk boundaries, and the length of a file, are naturals.
LEMMA FileLenNat ==
  ASSUME NEW f \in Seq(Chunk), NEW n \in 0..Len(f)
  PROVE  EndAt(f, n) \in Nat /\ FileLen(f) \in Nat
<1>1. ASSUME NEW m \in 0..Len(f) PROVE EndAt(f, m) \in Nat
  <2>1. CASE m = 0
    BY <2>1 DEF EndAt
  <2>2. CASE m # 0
    <3>1. f[m] \in Chunk
      BY <2>2
    <3>2. f[m].end \in Nat
      BY <3>1 DEF Chunk
    <3> QED
      BY <2>2, <3>2 DEF EndAt
  <2> QED
    BY <2>1, <2>2
<1> QED
  BY <1>1 DEF FileLen

\* A write adds one chunk at the end and lengthens the file by its bytes.
LEMMA WriteExtends ==
  ASSUME NEW f \in Seq(Chunk), NEW rec \in Entry \cup {Junk},
         NEW n \in Nat \ {0}
  PROVE  Extends(Write(f, rec, n), f, rec, n)
<1>1. FileLen(f) \in Nat
  BY FileLenNat
<1> DEFINE c == [rec |-> rec, end |-> FileLen(f) + n]
<1>2. c \in Chunk
  BY <1>1 DEF Chunk
<1>3. Write(f, rec, n) = Append(f, c)
  BY DEF Write
<1> HIDE DEF c
<1>4. /\ Append(f, c) \in Seq(Chunk)
      /\ Len(Append(f, c)) = Len(f) + 1
      /\ \A i \in 1..Len(f) : Append(f, c)[i] = f[i]
      /\ Append(f, c)[Len(f) + 1] = c
  BY <1>2
<1>5. c.rec = rec /\ c.end = FileLen(f) + n
  BY DEF c
<1> QED
  BY <1>3, <1>4, <1>5 DEF Extends, FileLen, EndAt

\* A write keeps chunks end to end.
LEMMA WriteContiguous ==
  ASSUME NEW f \in Seq(Chunk), NEW g \in Seq(Chunk),
         NEW rec \in Entry \cup {Junk}, NEW n \in Nat \ {0},
         Contiguous(f), Extends(g, f, rec, n),
         rec # Junk => n = RecLen(rec)
  PROVE  Contiguous(g)
<1>1. /\ Len(g) = Len(f) + 1
      /\ \A i \in 1..Len(f) : g[i] = f[i]
      /\ g[Len(f) + 1].rec = rec /\ g[Len(f) + 1].end = FileLen(f) + n
  BY DEF Extends
<1>2. FileLen(f) \in Nat /\ DOMAIN f = 1..Len(f) /\ DOMAIN g = 1..(Len(f) + 1)
  BY <1>1, FileLenNat
<1>3. ASSUME NEW i \in DOMAIN g, g[i].rec # Junk
      PROVE  g[i].end = EndAt(g, i - 1) + RecLen(g[i].rec)
  <2>1. CASE i \in 1..Len(f)
    BY <2>1, <1>1, <1>2, <1>3 DEF Contiguous, EndAt
  <2>2. CASE i = Len(f) + 1
    BY <2>2, <1>1, <1>2, <1>3 DEF EndAt, FileLen
  <2> QED
    BY <2>1, <2>2, <1>2
<1>4. \A i \in 1..Len(f) : f[i].end \in Nat
  BY EndNat
<1>5. ASSUME NEW i \in 1..Len(f) PROVE f[i].end <= FileLen(f)
  <2>1. FileLen(f) = f[Len(f)].end
    BY DEF FileLen, EndAt
  <2>2. i = Len(f) \/ f[i].end < f[Len(f)].end
    <3>1. i \in DOMAIN f /\ Len(f) \in DOMAIN f
      BY <1>2
    <3>2. i = Len(f) \/ i < Len(f)
      OBVIOUS
    <3> QED
      BY <3>1, <3>2 DEF Contiguous
  <2> QED
    BY <2>1, <2>2, <1>4
<1>6. \A i \in DOMAIN g : g[i].end > 0
  BY <1>1, <1>2 DEF Contiguous
<1>7. \A i, j \in DOMAIN g : i < j => g[i].end < g[j].end
  BY <1>1, <1>2, <1>4, <1>5 DEF Contiguous
<1> QED
  BY <1>3, <1>6, <1>7 DEF Contiguous

\* Cutting a file keeps the chunks in front of the cut.
LEMMA PrefixKeeps ==
  ASSUME NEW f \in Seq(Chunk), NEW n \in 0..Len(f)
  PROVE  /\ SubSeq(f, 1, n) \in Seq(Chunk)
         /\ Len(SubSeq(f, 1, n)) = n
         /\ \A i \in 1..n : SubSeq(f, 1, n)[i] = f[i]
         /\ FileLen(SubSeq(f, 1, n)) = EndAt(f, n)
         /\ Contiguous(f) => Contiguous(SubSeq(f, 1, n))
<1> DEFINE g == SubSeq(f, 1, n)
<1>1. g \in Seq(Chunk) /\ Len(g) = n /\ \A i \in 1..n : g[i] = f[i]
  OBVIOUS
<1> HIDE DEF g
<1>2. FileLen(g) = EndAt(f, n)
  BY <1>1 DEF FileLen, EndAt
<1>3. Contiguous(f) => Contiguous(g)
  BY <1>1 DEF Contiguous, EndAt
<1> QED
  BY <1>1, <1>2, <1>3 DEF g

\* One more entry replayed.
LEMMA ReplayStep ==
  ASSUME NEW f \in Seq(Chunk), NEW n \in 0..Len(f), n < Len(f),
         NEW m \in [Keys -> Vals \cup {NoVal}], IsReplayOf(m, f, n),
         f[n + 1].rec \in Entry
  PROVE  /\ ReplayInto(m, f[n + 1].rec) \in [Keys -> Vals \cup {NoVal}]
         /\ IsReplayOf(ReplayInto(m, f[n + 1].rec), f, n + 1)
<1> DEFINE r == f[n + 1].rec
           v == IF r.op = "SET" THEN r.val ELSE NoVal
<1>1. r \in Entry
  OBVIOUS
<1> HIDE DEF r
<1>2. r.key \in Keys /\ v = r.val /\ v \in Vals \cup {NoVal}
  BY <1>1 DEF Entry
<1> HIDE DEF v
<1> DEFINE mm == [m EXCEPT ![r.key] = v]
<1>3. /\ mm \in [Keys -> Vals \cup {NoVal}]
      /\ mm[r.key] = r.val
      /\ \A k \in Keys : k # r.key => mm[k] = m[k]
  BY <1>2
<1>4. ReplayInto(m, f[n + 1].rec) = mm
  BY DEF ReplayInto, r, v
<1> HIDE DEF mm
<1>5. ASSUME NEW k \in Keys
      PROVE  LET writes == {i \in 1..(n + 1) : f[i].rec.key = k} IN
               \/ writes = {} /\ mm[k] = NoVal
               \/ \E i \in writes : /\ \A j \in writes : j <= i
                                    /\ mm[k] = f[i].rec.val
  <2>1. CASE k = r.key
    <3>1. /\ n + 1 \in {i \in 1..(n + 1) : f[i].rec.key = k}
          /\ mm[k] = f[n + 1].rec.val
      BY <2>1, <1>3 DEF r
    <3> QED
      BY <3>1
  <2>2. CASE k # r.key
    <3>1. {i \in 1..(n + 1) : f[i].rec.key = k} = {i \in 1..n : f[i].rec.key = k}
      BY <2>2 DEF r
    <3>2. mm[k] = m[k]
      BY <2>2, <1>3
    <3> QED
      BY <3>1, <3>2 DEF IsReplayOf
  <2> QED
    BY <2>1, <2>2
<1>6. IsReplayOf(mm, f, n + 1)
  BY <1>5 DEF IsReplayOf
<1> QED
  BY <1>3, <1>4, <1>6

-----------------------------------------------------------------------------
(* Init, and every action, keep WalInv. *)

\* The machine starts with an empty file and no handle.
LEMMA InitInv == WalInit => WalInv
<1> SUFFICES ASSUME WalInit PROVE WalInv
  OBVIOUS
<1> USE DEF WalInit
<1>1. WalTypeOK
  <2>1. map_index \in [Keys -> Vals \cup {NoVal}]
    BY DEF NoIndex
  <2>2. synced \in 0..Len(file) /\ phase \in InitPhases \cup {"down", "open"}
    OBVIOUS
  <2>3. file \in Seq(Chunk) /\ logged \in Seq(Entry) /\ promised \in Seq(Entry)
    OBVIOUS
  <2>4. dropped \in BOOLEAN /\ file_len \in Nat /\ entry_count \in Nat
        /\ sound \in Nat
    OBVIOUS
  <2> QED
    BY <2>1, <2>2, <2>3, <2>4, Zenon DEF WalTypeOK
<1>2. Contiguous(file)
  BY DEF Contiguous
<1>3. ScanInv /\ OpenInv
  BY DEF ScanInv, OpenInv, InitPhases
<1>4. MediumInv /\ SoundPromisesKept
  BY DEF MediumInv, SoundPromisesKept
<1> QED
  BY <1>1, <1>2, <1>3, <1>4 DEF WalInv

\* Whatever ends the process: if what is left of the file still starts with
\* the sound promises, the invariant holds.
LEMMA ForgetInv ==
  ASSUME WalInv, Forget,
         file' \in Seq(Chunk), Contiguous(file'),
         synced' \in sound..Len(file'), dropped' \in BOOLEAN,
         \A i \in 1..sound : file'[i] = file[i]
  PROVE  WalInv'
<1>1. WalTypeOK'
  BY DEF WalInv, WalTypeOK, Forget, NoIndex
<1>2. ScanInv' /\ OpenInv'
  BY DEF ScanInv, OpenInv, Forget, InitPhases
<1>3. MediumInv'
  BY DEF WalInv, WalTypeOK, MediumInv, Forget
<1>4. SoundPromisesKept'
  BY DEF SoundPromisesKept, Forget
<1> QED
  BY <1>1, <1>2, <1>3, <1>4 DEF WalInv

\* A torn write leaves the file, or the file and one chunk of junk.
LEMMA TornFile ==
  ASSUME NEW f \in Seq(Chunk), NEW r \in Entry, NEW g \in Torn(f, r),
         Contiguous(f)
  PROVE  \/ g = f
         \/ /\ \E n \in Nat \ {0} : Extends(g, f, Junk, n)
            /\ Contiguous(g)
<1>1. CASE g = f
  BY <1>1
<1>2. CASE \E n \in TornLens : g = Write(f, Junk, n)
  <2>1. PICK n \in TornLens : g = Write(f, Junk, n)
    BY <1>2
  <2>2. n \in Nat \ {0}
    BY WalAssumption
  <2>3. Extends(g, f, Junk, n)
    BY <2>1, <2>2, WriteExtends
  <2>4. g \in Seq(Chunk)
    BY <2>3 DEF Extends
  <2> QED
    BY <2>2, <2>3, <2>4, WriteContiguous
<1> QED
  BY <1>1, <1>2 DEF Torn

\* Opening: the scan starts at offset 0 with an empty index; a file of length
\* 0 has no chunk, so returning at once skips nothing.
LEMMA OpenKeeps == WalInv /\ Open => WalInv'
<1> SUFFICES ASSUME WalInv, Open PROVE WalInv'
  OBVIOUS
<1> USE DEF WalInv, Open
<1>1. WalTypeOK'
  BY DEF WalTypeOK, handle, history, InitPhases
<1>2. ScanInv'
  <2>1. entry_count = 0 /\ file_len = 0 /\ map_index = NoIndex
    BY DEF ScanInv
  <2>2. IsReplayOf(NoIndex, file, 0)
    BY DEF IsReplayOf, NoIndex
  <2>3. FileLen(file) = 0 => Len(file) = 0
    BY DEF FileLen, EndAt, Contiguous, WalTypeOK
  <2>4. phase' \in {"scan", "ready"} /\ (phase' = "ready" => FileLen(file) = 0)
    OBVIOUS
  <2>5. UNCHANGED <<file, entry_count, file_len, map_index>>
    BY DEF handle
  <2> QED
    BY <2>1, <2>2, <2>3, <2>4, <2>5 DEF ScanInv, EndAt, InitPhases, WalTypeOK
<1>3. OpenInv' /\ MediumInv' /\ SoundPromisesKept'
  BY DEF OpenInv, MediumInv, SoundPromisesKept, history
<1>4. Contiguous(file')
  OBVIOUS
<1> QED
  BY <1>1, <1>2, <1>3, <1>4

\* One turn of the loop: the next entry extends the replay, and its encoded
\* length moves the offset to the next chunk boundary.
LEMMA ScanEntryKeeps == WalInv /\ ScanEntry => WalInv'
<1> SUFFICES ASSUME WalInv, ScanEntry PROVE WalInv'
  OBVIOUS
<1> DEFINE r == file[entry_count + 1].rec
<1>1. /\ phase = "scan" /\ phase' = "scan"
      /\ UNCHANGED <<file, synced, dropped, logged, promised, sound>>
      /\ map_index' = ReplayInto(map_index, r)
      /\ file_len' = file_len + RecLen(r)
      /\ entry_count' = entry_count + 1
      /\ entry_count \in Nat /\ entry_count < Len(file) /\ r # Junk
  BY DEF ScanEntry, EntryAhead, history, WalInv, WalTypeOK
<1>2. r \in Entry
  <2>1. file \in Seq(Chunk) /\ entry_count + 1 \in 1..Len(file)
    BY <1>1 DEF WalInv, WalTypeOK
  <2>2. file[entry_count + 1] \in Chunk
    BY <2>1
  <2> QED
    BY <2>2, <1>1 DEF Chunk
<1>3. /\ file_len = EndAt(file, entry_count)
      /\ IsReplayOf(map_index, file, entry_count)
      /\ \A i \in 1..entry_count : file[i].rec # Junk
  BY <1>1 DEF WalInv, ScanInv, InitPhases
<1>4. /\ map_index' \in [Keys -> Vals \cup {NoVal}]
      /\ IsReplayOf(map_index', file, entry_count + 1)
  BY <1>1, <1>2, <1>3, ReplayStep DEF WalInv, WalTypeOK
<1>5. RecLen(r) \in Nat
  BY <1>2, RecLenPositive
<1>6. WalTypeOK'
  BY <1>1, <1>4, <1>5 DEF WalInv, WalTypeOK
<1>7. EndAt(file, entry_count + 1) = file_len'
  <2>1. entry_count + 1 \in DOMAIN file /\ entry_count + 1 # 0
        /\ (entry_count + 1) - 1 = entry_count
    BY <1>1 DEF WalInv, WalTypeOK
  <2>2. file[entry_count + 1].end = EndAt(file, entry_count) + RecLen(r)
    BY <1>1, <2>1 DEF WalInv, Contiguous
  <2> QED
    BY <2>1, <2>2, <1>1, <1>3 DEF EndAt
<1> HIDE DEF r
<1>8. ScanInv'
  <2>1. \A i \in 1..(entry_count + 1) : file[i].rec # Junk
    BY <1>1, <1>3 DEF r
  <2> QED
    BY <1>1, <1>4, <1>7, <2>1 DEF ScanInv, InitPhases
<1>9. OpenInv' /\ MediumInv' /\ SoundPromisesKept' /\ Contiguous(file')
  BY <1>1 DEF WalInv, OpenInv, MediumInv, SoundPromisesKept
<1> QED
  BY <1>6, <1>8, <1>9 DEF WalInv

\* The scan stops at the end of the file or in front of junk, and tells which
\* by comparing offsets.
LEMMA ScanStopKeeps == WalInv /\ ScanStop => WalInv'
<1> SUFFICES ASSUME WalInv, ScanStop PROVE WalInv'
  OBVIOUS
<1>1. /\ phase = "scan"
      /\ UNCHANGED <<file, synced, dropped, file_len, entry_count, map_index,
                     logged, promised, sound>>
      /\ entry_count < Len(file) => file[entry_count + 1].rec = Junk
      /\ file_len < FileLen(file) => phase' = "truncate"
      /\ ~(file_len < FileLen(file)) => phase' = "ready"
  BY DEF ScanStop, EntryAhead, handle, history
<1>2. /\ file_len = EndAt(file, entry_count)
      /\ entry_count <= Len(file)
      /\ file \in Seq(Chunk) /\ entry_count \in Nat
  BY <1>1 DEF WalInv, ScanInv, InitPhases, WalTypeOK
<1>3. entry_count = Len(file) => file_len = FileLen(file)
  BY <1>2 DEF FileLen
<1>4. entry_count < Len(file) => file_len < FileLen(file)
  <2> SUFFICES ASSUME entry_count < Len(file) PROVE file_len < FileLen(file)
    OBVIOUS
  <2>1. FileLen(file) = file[Len(file)].end /\ Len(file) \in DOMAIN file
    BY <1>2 DEF FileLen, EndAt
  <2>2. CASE entry_count = 0
    BY <2>1, <2>2, <1>2 DEF EndAt, WalInv, Contiguous
  <2>3. CASE entry_count # 0
    <3>1. entry_count \in DOMAIN file
      BY <2>3, <1>2
    <3> QED
      BY <2>1, <2>3, <3>1, <1>2 DEF EndAt, WalInv, Contiguous
  <2> QED
    BY <2>2, <2>3
<1>5. FileLen(file) \in Nat /\ file_len \in Nat
  BY FileLenNat, <1>2 DEF WalInv, WalTypeOK
<1>6. \/ phase' = "truncate" /\ entry_count < Len(file)
      \/ phase' = "ready" /\ entry_count = Len(file)
  BY <1>1, <1>2, <1>3, <1>4, <1>5
<1>7. WalTypeOK'
  BY <1>1, <1>6 DEF WalInv, WalTypeOK, InitPhases
<1>8. ScanInv'
  BY <1>1, <1>6 DEF WalInv, ScanInv, InitPhases
<1>9. OpenInv' /\ MediumInv' /\ SoundPromisesKept' /\ Contiguous(file')
  BY <1>1, <1>6 DEF WalInv, OpenInv, MediumInv, SoundPromisesKept
<1> QED
  BY <1>7, <1>8, <1>9 DEF WalInv

\* The cut lies behind every sound promise: the chunk at the cut is junk, and
\* a promise is an entry.
LEMMA SetLenKeeps == WalInv /\ SetLen => WalInv'
<1> SUFFICES ASSUME WalInv, SetLen PROVE WalInv'
  OBVIOUS
<1>1. /\ phase = "truncate" /\ phase' = "sync"
      /\ file' = SubSeq(file, 1, entry_count)
      /\ synced' = IF synced < entry_count THEN synced ELSE entry_count
      /\ dropped' = (dropped /\ synced < entry_count)
      /\ UNCHANGED <<file_len, entry_count, map_index, logged, promised, sound>>
  BY DEF SetLen, handle, history
<1>2. /\ file \in Seq(Chunk) /\ entry_count \in Nat /\ synced \in 0..Len(file)
      /\ promised \in Seq(Entry) /\ sound \in Nat
  BY DEF WalInv, WalTypeOK
<1>3. /\ entry_count < Len(file) /\ file[entry_count + 1].rec = Junk
      /\ file_len = EndAt(file, entry_count)
      /\ IsReplayOf(map_index, file, entry_count)
      /\ \A i \in 1..entry_count : file[i].rec # Junk
  BY <1>1 DEF WalInv, ScanInv, InitPhases
<1>4. /\ file' \in Seq(Chunk) /\ Len(file') = entry_count
      /\ \A i \in 1..entry_count : file'[i] = file[i]
      /\ FileLen(file') = EndAt(file, entry_count)
      /\ Contiguous(file')
  BY <1>1, <1>2, <1>3, PrefixKeeps DEF WalInv
<1>5. sound <= entry_count
  <2>1. \A i \in 1..sound : file[i].rec \in Entry
    BY <1>2 DEF WalInv, MediumInv
  <2>2. entry_count + 1 \notin 1..sound
    BY <1>3, <2>1, WalAssumption
  <2> QED
    BY <1>2, <2>2
<1>6. synced' \in 0..entry_count /\ sound <= synced'
  BY <1>1, <1>2, <1>5 DEF WalInv, MediumInv
<1>7. WalTypeOK'
  <2>1. dropped' \in BOOLEAN
    BY <1>1 DEF WalInv, WalTypeOK
  <2> QED
    BY <1>1, <1>4, <1>6, <2>1 DEF WalInv, WalTypeOK, InitPhases
<1>8. ScanInv'
  <2>1. IsReplayOf(map_index, file', entry_count)
    BY <1>3, <1>4 DEF IsReplayOf
  <2>2. file_len = EndAt(file', entry_count)
    BY <1>3, <1>4 DEF FileLen
  <2> QED
    BY <1>1, <1>2, <1>3, <1>4, <2>1, <2>2 DEF ScanInv, InitPhases
<1>9. OpenInv' /\ SoundPromisesKept'
  BY <1>1 DEF OpenInv, SoundPromisesKept
<1>10. MediumInv'
  BY <1>1, <1>2, <1>4, <1>5, <1>6 DEF WalInv, MediumInv
<1> QED
  BY <1>4, <1>7, <1>8, <1>9, <1>10 DEF WalInv

\* A successful fsync never takes chunks off the medium.
LEMMA SyncMediumFacts ==
  ASSUME WalInv, SyncMedium
  PROVE  /\ synced' \in 0..Len(file) /\ synced <= synced'
         /\ (~dropped => synced' = Len(file))
         /\ file' = file /\ dropped' = dropped
BY DEF SyncMedium, WalInv, WalTypeOK

\* The sync_all behind set_len.
LEMMA SyncTruncatedKeeps == WalInv /\ SyncTruncated => WalInv'
<1> SUFFICES ASSUME WalInv, SyncTruncated PROVE WalInv'
  OBVIOUS
<1>1. /\ phase = "sync" /\ phase' = "ready" /\ SyncMedium
      /\ UNCHANGED <<file_len, entry_count, map_index, logged, promised, sound>>
  BY DEF SyncTruncated, handle, history
<1>2. /\ synced' \in 0..Len(file) /\ synced <= synced'
      /\ file' = file /\ dropped' = dropped
  BY <1>1, SyncMediumFacts
<1>3. WalTypeOK'
  BY <1>1, <1>2 DEF WalInv, WalTypeOK, InitPhases
<1>4. ScanInv'
  BY <1>1, <1>2 DEF WalInv, ScanInv, InitPhases
<1>5. OpenInv' /\ SoundPromisesKept' /\ Contiguous(file')
  BY <1>1, <1>2 DEF WalInv, OpenInv, SoundPromisesKept
<1>6. MediumInv'
  BY <1>1, <1>2 DEF WalInv, WalTypeOK, MediumInv
<1> QED
  BY <1>3, <1>4, <1>5, <1>6 DEF WalInv

\* What is returned starts with every sound promise, because the file does.
LEMMA InitReturnKeeps == WalInv /\ InitReturn => WalInv'
<1> SUFFICES ASSUME WalInv, InitReturn PROVE WalInv'
  OBVIOUS
<1>1. /\ phase = "ready" /\ phase' = "open" /\ map_index' = NoIndex
      /\ logged' = [i \in 1..entry_count |-> file[i].rec]
      /\ UNCHANGED <<file, synced, dropped, file_len, entry_count,
                     promised, sound>>
  BY DEF InitReturn, handle
<1>2. /\ file \in Seq(Chunk) /\ entry_count \in Nat /\ synced \in 0..Len(file)
      /\ sound \in Nat
  BY DEF WalInv, WalTypeOK
<1>3. /\ entry_count = Len(file) /\ file_len = EndAt(file, entry_count)
      /\ \A i \in 1..entry_count : file[i].rec # Junk
  BY <1>1 DEF WalInv, ScanInv, InitPhases
<1>4. ASSUME NEW i \in 1..entry_count PROVE file[i].rec \in Entry
  <2>1. file[i] \in Chunk
    BY <1>2, <1>3
  <2> QED
    BY <2>1, <1>3 DEF Chunk
<1>5. /\ logged' \in Seq(Entry) /\ Len(logged') = Len(file)
      /\ \A i \in 1..Len(file) : logged'[i] = file[i].rec
  BY <1>1, <1>2, <1>3, <1>4
<1>6. NoIndex \in [Keys -> Vals \cup {NoVal}]
  BY DEF NoIndex
<1>7. WalTypeOK'
  BY <1>1, <1>5, <1>6 DEF WalInv, WalTypeOK
<1>8. ScanInv' /\ Contiguous(file')
  BY <1>1 DEF WalInv, ScanInv, InitPhases
<1>9. OpenInv'
  <2>1. NoJunk'
    BY <1>1, <1>2, <1>3 DEF NoJunk
  <2> QED
    BY <1>1, <1>3, <1>5, <2>1 DEF OpenInv, FileLen
<1>10. MediumInv' /\ SoundPromisesKept'
  BY <1>1, <1>2, <1>5 DEF WalInv, MediumInv, SoundPromisesKept
<1> QED
  BY <1>7, <1>8, <1>9, <1>10 DEF WalInv

\* A failed fsync changes nothing but what the kernel still remembers.
LEMMA SyncFailsFacts ==
  ASSUME WalInv, SyncFails
  PROVE  dropped' \in BOOLEAN /\ UNCHANGED <<file, synced>>
BY DEF SyncFails, WalInv, WalTypeOK

\* Wal::init returning an error, at any of its steps.
LEMMA InitErrKeeps == WalInv /\ InitErr => WalInv'
<1> SUFFICES ASSUME WalInv, InitErr PROVE WalInv'
  OBVIOUS
<1>1. Forget /\ dropped' \in BOOLEAN /\ UNCHANGED <<file, synced>>
  BY SyncFailsFacts DEF InitErr, WalInv, WalTypeOK
<1>2. /\ file' \in Seq(Chunk) /\ Contiguous(file')
      /\ synced' \in sound..Len(file')
      /\ \A i \in 1..sound : file'[i] = file[i]
  BY <1>1 DEF WalInv, WalTypeOK, MediumInv
<1> QED
  BY <1>1, <1>2, ForgetInv

\* append Ok: file, offset, count and log advance together, and a file that
\* already holds junk stays longer than file_len says.
LEMMA AppendOkKeeps ==
  ASSUME NEW r \in Entry, WalInv, AppendOk(r) PROVE WalInv'
<1> DEFINE n == RecLen(r)
<1>1. n \in Nat \ {0}
  BY RecLenPositive
<1>2. /\ phase = "open" /\ phase' = "open"
      /\ file' = Write(file, r, n)
      /\ file_len' = file_len + n
      /\ entry_count' = entry_count + 1
      /\ logged' = Append(logged, r)
      /\ UNCHANGED <<synced, dropped, map_index, promised, sound>>
  BY DEF AppendOk
<1> HIDE DEF n
<1>3. /\ file \in Seq(Chunk) /\ logged \in Seq(Entry) /\ file_len \in Nat
      /\ entry_count \in Nat /\ synced \in 0..Len(file) /\ sound \in Nat
  BY DEF WalInv, WalTypeOK
<1>4. Extends(file', file, r, n)
  BY <1>1, <1>2, <1>3, WriteExtends
<1>5. /\ file' \in Seq(Chunk) /\ Len(file') = Len(file) + 1
      /\ \A i \in 1..Len(file) : file'[i] = file[i]
      /\ file'[Len(file) + 1].rec = r
      /\ FileLen(file') = FileLen(file) + n
  BY <1>4 DEF Extends
<1>6. Contiguous(file')
  BY <1>1, <1>3, <1>4, <1>5, WriteContiguous DEF WalInv, n
<1>7. /\ logged' \in Seq(Entry) /\ Len(logged') = Len(logged) + 1
      /\ \A i \in 1..Len(logged) : logged'[i] = logged[i]
      /\ logged'[Len(logged) + 1] = r
  BY <1>2, <1>3
<1>8. WalTypeOK'
  BY <1>1, <1>2, <1>3, <1>5, <1>7 DEF WalInv, WalTypeOK
<1>9. ScanInv'
  BY <1>2 DEF ScanInv, InitPhases
<1>10. OpenInv'
  <2>1. FileLen(file) \in Nat
    BY <1>3, FileLenNat
  <2>2. NoJunk' <=> NoJunk
    <3>1. DOMAIN file = 1..Len(file) /\ DOMAIN file' = 1..(Len(file) + 1)
          /\ r # Junk
      BY <1>3, <1>5, WalAssumption
    <3>2. \A i \in DOMAIN file : file'[i].rec = file[i].rec
      BY <1>5, <3>1
    <3>3. DOMAIN file' = DOMAIN file \cup {Len(file) + 1}
      BY <1>3, <3>1
    <3> QED
      BY <1>5, <3>1, <3>2, <3>3 DEF NoJunk
  <2>3. CASE NoJunk
    <3>1. /\ entry_count = Len(file) /\ file_len = FileLen(file)
          /\ Len(logged) = Len(file)
          /\ \A i \in 1..Len(file) : logged[i] = file[i].rec
      BY <1>2, <2>3 DEF WalInv, OpenInv
    <3>2. \A i \in 1..Len(file') : logged'[i] = file'[i].rec
      BY <1>3, <1>5, <1>7, <3>1
    <3> QED
      BY <1>2, <1>3, <1>5, <1>7, <2>2, <2>3, <3>1, <3>2 DEF OpenInv
  <2>4. CASE ~NoJunk
    <3>1. file_len < FileLen(file)
      BY <1>2, <2>4 DEF WalInv, OpenInv
    <3> QED
      BY <1>1, <1>2, <1>3, <1>5, <2>1, <2>2, <2>4, <3>1 DEF OpenInv
  <2> QED
    BY <2>3, <2>4
<1>11. MediumInv'
  BY <1>2, <1>3, <1>5 DEF WalInv, MediumInv
<1>12. SoundPromisesKept'
  BY <1>2, <1>3, <1>7 DEF WalInv, SoundPromisesKept
<1> QED
  BY <1>6, <1>8, <1>9, <1>10, <1>11, <1>12 DEF WalInv

\* A torn append puts the real end of the file past file_len for good.
LEMMA AppendErrKeeps ==
  ASSUME NEW r \in Entry, WalInv, AppendErr(r) PROVE WalInv'
<1>1. /\ phase = "open" /\ file' \in Torn(file, r)
      /\ UNCHANGED <<synced, dropped, phase, file_len, entry_count, map_index,
                     logged, promised, sound>>
  BY DEF AppendErr, handle, history
<1>2. /\ file \in Seq(Chunk) /\ Contiguous(file) /\ file_len \in Nat
      /\ synced \in 0..Len(file) /\ sound \in Nat
  BY DEF WalInv, WalTypeOK
<1>3. \/ file' = file
      \/ /\ \E n \in Nat \ {0} : Extends(file', file, Junk, n)
         /\ Contiguous(file')
  BY <1>1, <1>2, TornFile
<1>4. CASE file' = file
  <2>1. WalTypeOK' /\ ScanInv' /\ OpenInv' /\ NoJunk' = NoJunk
    BY <1>1, <1>4 DEF WalInv, WalTypeOK, ScanInv, OpenInv, NoJunk
  <2>2. MediumInv' /\ SoundPromisesKept' /\ Contiguous(file')
    BY <1>1, <1>4 DEF WalInv, MediumInv, SoundPromisesKept
  <2> QED
    BY <2>1, <2>2 DEF WalInv
<1>5. CASE /\ \E n \in Nat \ {0} : Extends(file', file, Junk, n)
           /\ Contiguous(file')
  <2>1. PICK n \in Nat \ {0} : Extends(file', file, Junk, n)
    BY <1>5
  <2>2. /\ file' \in Seq(Chunk) /\ Len(file') = Len(file) + 1
        /\ \A i \in 1..Len(file) : file'[i] = file[i]
        /\ file'[Len(file) + 1].rec = Junk
        /\ FileLen(file') = FileLen(file) + n
    BY <2>1 DEF Extends
  <2>3. WalTypeOK'
    BY <1>1, <1>2, <2>2 DEF WalInv, WalTypeOK
  <2>4. ScanInv'
    BY <1>1 DEF ScanInv, InitPhases
  <2>5. OpenInv'
    <3>1. ~NoJunk'
      BY <1>2, <2>2 DEF NoJunk
    <3>2. FileLen(file) \in Nat /\ file_len <= FileLen(file)
      BY <1>1, <1>2, FileLenNat DEF WalInv, OpenInv
    <3> QED
      BY <1>1, <1>2, <2>2, <3>1, <3>2 DEF OpenInv
  <2>6. MediumInv' /\ SoundPromisesKept'
    BY <1>1, <1>2, <2>2 DEF WalInv, MediumInv, SoundPromisesKept
  <2> QED
    BY <1>5, <2>3, <2>4, <2>5, <2>6 DEF WalInv
<1> QED
  BY <1>3, <1>4, <1>5

\* The only step that adds sound promises: with no junk and nothing dropped,
\* the medium holds all of the file and the file all of what was logged.
LEMMA FsyncOkKeeps == WalInv /\ FsyncOk => WalInv'
<1> SUFFICES ASSUME WalInv, FsyncOk PROVE WalInv'
  OBVIOUS
<1>1. /\ phase = "open" /\ phase' = "open" /\ SyncMedium
      /\ promised' = logged
      /\ sound' = IF Faultless THEN Len(logged) ELSE sound
      /\ UNCHANGED <<file_len, entry_count, map_index, logged>>
  BY DEF FsyncOk, handle
<1>2. /\ synced' \in 0..Len(file) /\ synced <= synced'
      /\ ~dropped => synced' = Len(file)
      /\ file' = file /\ dropped' = dropped
  BY <1>1, SyncMediumFacts
<1>3. /\ file \in Seq(Chunk) /\ logged \in Seq(Entry) /\ sound \in Nat
      /\ synced \in 0..Len(file)
  BY DEF WalInv, WalTypeOK
<1>4. WalTypeOK'
  BY <1>1, <1>2, <1>3 DEF WalInv, WalTypeOK
<1>5. ScanInv' /\ OpenInv' /\ Contiguous(file')
  BY <1>1, <1>2 DEF WalInv, ScanInv, OpenInv, InitPhases, NoJunk
<1>6. /\ sound' <= Len(logged) /\ sound' <= synced'
      /\ \A i \in 1..sound' : file[i].rec = logged[i]
  <2>1. CASE Faultless
    BY <1>1, <1>2, <1>3, <2>1 DEF Faultless, WalInv, OpenInv
  <2>2. CASE ~Faultless
    BY <1>1, <1>2, <1>3, <2>2 DEF WalInv, MediumInv, SoundPromisesKept
  <2> QED
    BY <2>1, <2>2
<1>7. MediumInv' /\ SoundPromisesKept'
  BY <1>1, <1>2, <1>6 DEF MediumInv, SoundPromisesKept
<1> QED
  BY <1>4, <1>5, <1>7 DEF WalInv

\* A failed fsync of an open handle.
LEMMA FsyncErrKeeps == WalInv /\ FsyncErr => WalInv'
<1> SUFFICES ASSUME WalInv, FsyncErr PROVE WalInv'
  OBVIOUS
<1>1. /\ dropped' \in BOOLEAN
      /\ UNCHANGED <<file, synced, phase, file_len, entry_count, map_index,
                     logged, promised, sound>>
  BY SyncFailsFacts DEF FsyncErr, handle, history
<1>2. WalTypeOK' /\ ScanInv' /\ OpenInv'
  BY <1>1 DEF WalInv, WalTypeOK, ScanInv, OpenInv, NoJunk
<1>3. MediumInv' /\ SoundPromisesKept' /\ Contiguous(file')
  BY <1>1 DEF WalInv, MediumInv, SoundPromisesKept
<1> QED
  BY <1>2, <1>3 DEF WalInv

\* Dropping the handle leaves the file alone.
LEMMA CloseKeeps == WalInv /\ Close => WalInv'
<1> SUFFICES ASSUME WalInv, Close PROVE WalInv'
  OBVIOUS
<1>1. Forget /\ UNCHANGED <<file, synced, dropped>>
  BY DEF Close
<1>2. /\ file' \in Seq(Chunk) /\ Contiguous(file') /\ dropped' \in BOOLEAN
      /\ synced' \in sound..Len(file')
      /\ \A i \in 1..sound : file'[i] = file[i]
  BY <1>1 DEF WalInv, WalTypeOK, MediumInv
<1> QED
  BY <1>1, <1>2, ForgetInv

\* A process crash only ever adds junk at the end.
LEMMA CrashKeeps == WalInv /\ Crash => WalInv'
<1> SUFFICES ASSUME WalInv, Crash PROVE WalInv'
  OBVIOUS
<1>1. /\ Forget /\ UNCHANGED <<synced, dropped>>
      /\ file' = file \/ \E r \in Entry : file' \in Torn(file, r)
  BY DEF Crash
<1>2. /\ file \in Seq(Chunk) /\ Contiguous(file) /\ sound \in Nat
      /\ synced \in 0..Len(file) /\ dropped \in BOOLEAN /\ sound <= synced
  BY DEF WalInv, WalTypeOK, MediumInv
<1>3. \/ file' = file
      \/ /\ \E n \in Nat \ {0} : Extends(file', file, Junk, n)
         /\ Contiguous(file')
  BY <1>1, <1>2, TornFile
<1>4. /\ file' \in Seq(Chunk) /\ Contiguous(file')
      /\ Len(file) <= Len(file')
      /\ \A i \in 1..Len(file) : file'[i] = file[i]
  BY <1>2, <1>3 DEF Extends
<1>5. /\ dropped' \in BOOLEAN /\ synced' \in sound..Len(file')
      /\ \A i \in 1..sound : file'[i] = file[i]
  BY <1>1, <1>2, <1>4
<1> QED
  BY <1>1, <1>4, <1>5, ForgetInv

\* A power loss keeps at least what is on the medium.
LEMMA PowerLossKeeps == WalInv /\ PowerLoss => WalInv'
<1> SUFFICES ASSUME WalInv, PowerLoss PROVE WalInv'
  OBVIOUS
<1>1. /\ file \in Seq(Chunk) /\ Contiguous(file) /\ sound \in Nat
      /\ synced \in 0..Len(file) /\ sound <= synced
  BY DEF WalInv, WalTypeOK, MediumInv
<1>2. PICK n \in synced..(IF dropped THEN synced ELSE Len(file)) :
        \/ file' = SubSeq(file, 1, n)
        \/ \E t \in TornLens : file' = Write(SubSeq(file, 1, n), Junk, t)
  BY DEF PowerLoss
<1> DEFINE kept == SubSeq(file, 1, n)
<1>3. /\ kept \in Seq(Chunk) /\ Len(kept) = n /\ Contiguous(kept)
      /\ \A i \in 1..n : kept[i] = file[i]
      /\ n \in Nat /\ sound <= n
  BY <1>1, <1>2, PrefixKeeps
<1>4. /\ file' \in Seq(Chunk) /\ Contiguous(file') /\ n <= Len(file')
      /\ \A i \in 1..n : file'[i] = kept[i]
  <2> HIDE DEF kept
  <2>1. CASE file' = kept
    BY <2>1, <1>3
  <2>2. CASE \E t \in TornLens : file' = Write(kept, Junk, t)
    <3>1. PICK t \in TornLens : file' = Write(kept, Junk, t)
      BY <2>2
    <3>2. t \in Nat \ {0}
      BY WalAssumption
    <3>3. Extends(file', kept, Junk, t)
      BY <1>3, <3>1, <3>2, WriteExtends
    <3>4. file' \in Seq(Chunk) /\ Len(file') = n + 1
          /\ \A i \in 1..n : file'[i] = kept[i]
      BY <1>3, <3>3 DEF Extends
    <3>5. Contiguous(file')
      BY <1>3, <3>2, <3>3, <3>4, WriteContiguous
    <3> QED
      BY <1>3, <3>4, <3>5
  <2> QED
    BY <1>2, <2>1, <2>2 DEF kept
<1>5. Forget /\ synced' = Len(file') /\ dropped' = FALSE
  BY DEF PowerLoss
<1> HIDE DEF kept
<1>6. synced' \in sound..Len(file')
  BY <1>1, <1>3, <1>4, <1>5
<1>7. dropped' \in BOOLEAN
  BY <1>5
<1>8. \A i \in 1..sound : file'[i] = file[i]
  BY <1>1, <1>3, <1>4
<1> QED
  BY <1>4, <1>5, <1>6, <1>7, <1>8, ForgetInv

\* Steps that leave the WAL alone.
LEMMA StutterKeeps == WalInv /\ UNCHANGED walVars => WalInv'
<1> SUFFICES ASSUME WalInv, UNCHANGED walVars PROVE WalInv'
  OBVIOUS
<1>1. UNCHANGED <<file, synced, dropped, phase, file_len, entry_count,
                  map_index, logged, promised, sound>>
  BY DEF walVars, handle, history
<1>2. WalTypeOK' /\ ScanInv' /\ OpenInv'
  BY <1>1 DEF WalInv, WalTypeOK, ScanInv, OpenInv, NoJunk
<1>3. MediumInv' /\ SoundPromisesKept' /\ Contiguous(file')
  BY <1>1 DEF WalInv, MediumInv, SoundPromisesKept
<1> QED
  BY <1>2, <1>3 DEF WalInv

\* Every step of the specification keeps the invariant.
LEMMA NextKeeps == WalInv /\ [WalNext]_walVars => WalInv'
BY OpenKeeps, ScanEntryKeeps, ScanStopKeeps, SetLenKeeps, SyncTruncatedKeeps,
   InitReturnKeeps, InitErrKeeps, AppendOkKeeps, AppendErrKeeps, FsyncOkKeeps,
   FsyncErrKeeps, CloseKeeps, CrashKeeps, PowerLossKeeps, StutterKeeps
   DEF WalNext, InitStep

-----------------------------------------------------------------------------
(* The theorems. *)

\* The inductive invariant holds in every reachable state.
THEOREM WalInvariant == WalSpec => []WalInv
BY InitInv, NextKeeps, PTL DEF WalSpec

\* Types: the counters stay in their ranges and the medium within the file.
THEOREM WalTypeCorrect == WalSpec => []WalTypeOK
<1>1. WalInv => WalTypeOK
  BY DEF WalInv
<1> QED
  BY <1>1, WalInvariant, PTL

\* Wal::init builds the replay of the file, for any file and any crash point.
THEOREM RecoveryIsReplay == WalSpec => []RecoveredIndex
<1>1. WalInv => RecoveredIndex
  BY DEF WalInv, ScanInv, RecoveredIndex
<1> QED
  BY <1>1, WalInvariant, PTL

\* Wal::init leaves no junk behind and its offset is the file's length.
THEOREM RecoveryCleans == WalSpec => []CleanAfterInit
<1>1. WalInv => CleanAfterInit
  <2> SUFFICES ASSUME WalInv, phase = "ready"
               PROVE  /\ NoJunk /\ entry_count = Len(file)
                      /\ file_len = FileLen(file)
    BY DEF CleanAfterInit
  <2>1. file \in Seq(Chunk) /\ entry_count = Len(file)
        /\ file_len = EndAt(file, entry_count)
        /\ \A i \in 1..entry_count : file[i].rec # Junk
    BY DEF WalInv, WalTypeOK, ScanInv, InitPhases
  <2> QED
    BY <2>1 DEF NoJunk, FileLen
<1> QED
  BY <1>1, WalInvariant, PTL

\* The fields of Wal describe the file exactly until an append fails halfway.
THEOREM LengthIsTracked == WalSpec => []TrackedLength
<1>1. WalInv => TrackedLength
  <2> SUFFICES ASSUME WalInv, phase = "open"
               PROVE  /\ file_len = FileLen(file) <=> NoJunk
                      /\ NoJunk => entry_count = Len(file)
    BY DEF TrackedLength
  <2>1. FileLen(file) \in Nat /\ file_len \in Nat
    BY FileLenNat DEF WalInv, WalTypeOK
  <2> QED
    BY <2>1 DEF WalInv, OpenInv
<1> QED
  BY <1>1, WalInvariant, PTL

\* What an fsync covered before any fault survives every crash and restart.
THEOREM SoundPromisesSurvive == WalSpec => []SoundPromisesKept
<1>1. WalInv => SoundPromisesKept
  BY DEF WalInv
<1> QED
  BY <1>1, WalInvariant, PTL

\* A running process discards only junk and what lies behind junk, and never
\* rewrites a chunk.
THEOREM DiscardsOnlyJunk == WalSpec => DiscardsOnlyBehindJunk
<1>1. ASSUME WalInv, [WalNext]_walVars
      PROVE  [ phase' # "down" =>
                 \A i \in DOMAIN file :
                   \/ i \in DOMAIN file' /\ file'[i] = file[i]
                   \/ \E j \in 1..i : file[j].rec = Junk ]_walVars
  <2> SUFFICES ASSUME phase' # "down", NEW i \in DOMAIN file, WalNext
               PROVE  \/ i \in DOMAIN file' /\ file'[i] = file[i]
                      \/ \E j \in 1..i : file[j].rec = Junk
    BY <1>1
  <2>1. /\ file \in Seq(Chunk) /\ DOMAIN file = 1..Len(file)
        /\ entry_count \in Nat /\ i \in 1..Len(file) /\ Contiguous(file)
    BY <1>1 DEF WalInv, WalTypeOK
  <2>2. CASE SetLen
    <3>1. /\ phase = "truncate" /\ file' = SubSeq(file, 1, entry_count)
      BY <2>2 DEF SetLen
    <3>2. /\ entry_count < Len(file) /\ file[entry_count + 1].rec = Junk
      BY <1>1, <3>1 DEF WalInv, ScanInv
    <3>3. CASE i <= entry_count
      <4>1. /\ Len(file') = entry_count /\ file' \in Seq(Chunk)
            /\ \A j \in 1..entry_count : file'[j] = file[j]
        BY <2>1, <3>1, <3>2, PrefixKeeps
      <4> QED
        BY <2>1, <3>3, <4>1
    <3>4. CASE entry_count < i
      BY <2>1, <3>2, <3>4
    <3> QED
      BY <2>1, <3>3, <3>4
  <2>3. CASE \E r \in Entry : AppendOk(r) \/ AppendErr(r)
    <3>1. PICK r \in Entry : AppendOk(r) \/ AppendErr(r)
      BY <2>3
    <3>2. \/ file' = file
          \/ \E rec \in Entry \cup {Junk}, n \in Nat \ {0} :
               Extends(file', file, rec, n)
      <4>1. CASE AppendOk(r)
        <5>1. file' = Write(file, r, RecLen(r)) /\ RecLen(r) \in Nat \ {0}
          BY <4>1, RecLenPositive DEF AppendOk
        <5>2. Extends(file', file, r, RecLen(r))
          BY <2>1, <5>1, WriteExtends
        <5> QED
          BY <5>1, <5>2
      <4>2. CASE AppendErr(r)
        BY <2>1, <4>2, TornFile DEF AppendErr
      <4> QED
        BY <3>1, <4>1, <4>2
    <3> QED
      BY <2>1, <3>2 DEF Extends
  <2>4. CASE UNCHANGED file
    BY <2>4
  <2>5. \/ SetLen \/ UNCHANGED file
        \/ \E r \in Entry : AppendOk(r) \/ AppendErr(r)
    <3>1. ~(Forget)
      BY DEF Forget
    <3> QED
      BY <3>1 DEF WalNext, InitStep, Open, ScanEntry, ScanStop, SyncTruncated,
           SyncMedium, InitReturn, InitErr, FsyncOk, FsyncErr, SyncFails,
           Close, Crash, PowerLoss
  <2> QED
    BY <2>2, <2>3, <2>4, <2>5
<1> QED
  BY <1>1, WalInvariant, PTL DEF WalSpec, DiscardsOnlyBehindJunk
=============================================================================
