-------------------------------- MODULE Wal --------------------------------
(***************************************************************************)
(* The write-ahead log of one database: src/src/wal.rs, with the file      *)
(* system and the machine it runs on.                                      *)
(*                                                                         *)
(* A file is a sequence of chunks.  A chunk is either a whole entry whose  *)
(* CRC matches, or Junk: any bytes at which the scan of Wal::init stops (a *)
(* torn write, zero fill, a bad op byte, a CRC mismatch).  CRC32 is        *)
(* taken to tell the two apart.  Every chunk carries the byte offset of    *)
(* its end, so that lengths in bytes need no recursion.                    *)
(***************************************************************************)
EXTENDS Integers, Sequences

CONSTANTS
  Keys, Vals,      \* non-empty keys and values
  NoVal,           \* "no value": an absent key, the value field of a DELETE
  Junk,            \* a chunk that is not a valid entry
  KeyLen, ValLen,  \* lengths in bytes of the keys and values
  TornLens,        \* numbers of bytes an interrupted write may leave behind
  FsyncDrops,      \* outcomes of a failed fsync: TRUE = the kernel forgets
                   \* the dirty pages, FALSE = it keeps them; {} = no failure
  MaxEntries       \* bound on the chunks of a file

HEADER_LEN == 9    \* 1 op + 4 klen + 4 vlen
CRC_LEN == 4

Entry == [op : {"SET"}, key : Keys, val : Vals]
           \cup [op : {"DELETE"}, key : Keys, val : {NoVal}]

ASSUME WalAssumption ==
  /\ NoVal \notin Vals
  /\ Junk \notin Entry
  /\ KeyLen \in [Keys -> Nat \ {0}]
  /\ ValLen \in [Vals -> Nat]
  /\ TornLens \subseteq Nat \ {0}
  /\ FsyncDrops \subseteq BOOLEAN
  /\ MaxEntries \in Nat

VARIABLES
  file,         \* the chunks, as the running kernel reads them
  synced,       \* how many leading chunks are on the medium
  dropped,      \* the kernel dropped dirty pages of chunk synced + 1 unwritten
  phase,        \* where Wal::init is; "open" = handle in use, "down" = none
  file_len,     \* Wal.file_len; the local offset while the scan runs
  entry_count,  \* Wal.entry_count; the local count while the scan runs
  map_index,    \* the index Wal::init builds and moves to its caller
  (* history variables, read by no action *)
  logged,       \* the entries of this handle: recovered, then appended Ok
  promised,     \* what the last fsync that returned Ok covered
  sound         \* how many of them it covered with no fault in the file

handle == <<file_len, entry_count>>
history == <<logged, promised, sound>>
walVars == <<file, synced, dropped, phase, handle, map_index, history>>

Chunk == [rec : Entry \cup {Junk}, end : Nat]
NoIndex == [k \in Keys |-> NoVal]
InitPhases == {"scan", "truncate", "sync", "ready"}

RecLen(r) ==
  HEADER_LEN + KeyLen[r.key] + (IF r.val = NoVal THEN 0 ELSE ValLen[r.val])
             + CRC_LEN

\* The offset at which the first n chunks of f end, and the length of f.
EndAt(f, n) == IF n = 0 THEN 0 ELSE f[n].end
FileLen(f) == EndAt(f, Len(f))

Write(f, rec, len) == Append(f, [rec |-> rec, end |-> FileLen(f) + len])

\* What a write of r that stops early can leave: nothing, or some bytes.
Torn(f, r) ==
  {f} \cup {Write(f, Junk, n) : n \in {m \in TornLens : m < RecLen(r)}}

WalInit ==
  /\ file = <<>> /\ synced = 0 /\ dropped = FALSE
  /\ phase = "down" /\ file_len = 0 /\ entry_count = 0 /\ map_index = NoIndex
  /\ logged = <<>> /\ promised = <<>> /\ sound = 0

-----------------------------------------------------------------------------
(* Wal::init *)

\* Open or create the file; an empty one is returned at once.
Open ==
  /\ phase = "down"
  /\ phase' = IF FileLen(file) = 0 THEN "ready" ELSE "scan"
  /\ UNCHANGED <<file, synced, dropped, handle, map_index, history>>

EntryAheadNeedsValue ==   \* mutant: an empty value is taken for corruption
  /\ entry_count < Len(file)
  /\ file[entry_count + 1].rec # Junk
  /\ file[entry_count + 1].rec.val # NoVal

\* The loop's guard and its checks: op, lengths, end of file and CRC.
EntryAhead ==
  /\ entry_count < Len(file)
  /\ file[entry_count + 1].rec # Junk

ReplaySwapsKeyAndValue(m, r) ==   \* mutant
  [m EXCEPT ![r.key] = IF r.op = "SET" THEN r.key ELSE NoVal]
ReplayIgnoresDelete(m, r) ==      \* mutant
  [m EXCEPT ![r.key] = IF r.op = "SET" THEN r.val ELSE m[r.key]]

\* Apply one valid entry to the index: SET inserts, DELETE removes.
ReplayInto(m, r) ==
  [m EXCEPT ![r.key] = IF r.op = "SET" THEN r.val ELSE NoVal]

ScanEntry ==
  /\ phase = "scan"
  /\ EntryAhead
  /\ LET r == file[entry_count + 1].rec IN
       /\ map_index' = ReplayInto(map_index, r)
       /\ file_len' = file_len + RecLen(r)
  /\ entry_count' = entry_count + 1
  /\ UNCHANGED <<file, synced, dropped, phase, history>>

ScanStopNoTruncate ==   \* mutant
  /\ phase = "scan"
  /\ ~EntryAhead
  /\ phase' = "ready"
  /\ UNCHANGED <<file, synced, dropped, handle, map_index, history>>
ScanStopRetries ==      \* mutant: goes round again in front of junk
  /\ phase = "scan"
  /\ ~EntryAhead
  /\ phase' = IF file_len < FileLen(file) THEN "scan" ELSE "ready"
  /\ UNCHANGED <<file, synced, dropped, handle, map_index, history>>

ScanStop ==
  /\ phase = "scan"
  /\ ~EntryAhead
  /\ phase' = IF file_len < FileLen(file) THEN "truncate" ELSE "ready"
  /\ UNCHANGED <<file, synced, dropped, handle, map_index, history>>

\* file.set_len(valid_file_len).  Pages past the cut are forgotten with it.
SetLen ==
  /\ phase = "truncate"
  /\ file' = SubSeq(file, 1, entry_count)
  /\ synced' = IF synced < entry_count THEN synced ELSE entry_count
  /\ dropped' = (dropped /\ synced < entry_count)
  /\ phase' = "sync"
  /\ UNCHANGED <<handle, map_index, history>>

\* What a successful and a failed fsync do to the medium.  After the kernel
\* has dropped a dirty page, a later fsync returns Ok without writing it.
SyncMedium ==
  /\ synced' = IF dropped THEN synced ELSE Len(file)
  /\ UNCHANGED <<file, dropped>>
SyncFails ==
  /\ \E d \in FsyncDrops : dropped' = (dropped \/ (d /\ synced < Len(file)))
  /\ UNCHANGED <<file, synced>>

\* The sync_all and the seek after set_len.
SyncTruncated ==
  /\ phase = "sync"
  /\ SyncMedium
  /\ phase' = "ready"
  /\ UNCHANGED <<handle, map_index, history>>

\* Ok((Self, map_index)): the index moves to the caller.
InitReturn ==
  /\ phase = "ready"
  /\ phase' = "open"
  /\ map_index' = NoIndex
  /\ logged' = [i \in 1..entry_count |-> file[i].rec]
  /\ UNCHANGED <<file, synced, dropped, handle, promised, sound>>

\* The process loses the handle and all that init had built.
Forget ==
  /\ phase' = "down" /\ file_len' = 0 /\ entry_count' = 0
  /\ map_index' = NoIndex /\ logged' = <<>>
  /\ UNCHANGED <<promised, sound>>

\* Any `?` of init: a failed open or mmap, set_len or sync_all.
InitErr ==
  \/ /\ phase \in {"scan", "truncate"}
     /\ Forget
     /\ UNCHANGED <<file, synced, dropped>>
  \/ /\ phase = "sync"
     /\ Forget
     /\ SyncFails

-----------------------------------------------------------------------------
(* Wal::append and Wal::fsync *)

AppendOk(r) ==
  /\ phase = "open"
  /\ Len(file) < MaxEntries
  /\ file' = Write(file, r, RecLen(r))
  /\ file_len' = file_len + RecLen(r)
  /\ entry_count' = entry_count + 1
  /\ logged' = Append(logged, r)
  /\ UNCHANGED <<synced, dropped, phase, map_index, promised, sound>>

AppendErrAdvances(r) ==   \* mutant: the fields move before the write
  /\ phase = "open"
  /\ Len(file) < MaxEntries
  /\ file' \in Torn(file, r)
  /\ file_len' = file_len + RecLen(r)
  /\ UNCHANGED <<synced, dropped, phase, entry_count, map_index, history>>

\* write_all or flush fails: what was written stays, the fields do not move.
AppendErr(r) ==
  /\ phase = "open"
  /\ Len(file) < MaxEntries
  /\ file' \in Torn(file, r)
  /\ UNCHANGED <<synced, dropped, phase, handle, map_index, history>>

NoJunk == \A i \in DOMAIN file : file[i].rec # Junk
Faultless == NoJunk /\ ~dropped

FsyncOnlyFlushes ==   \* mutant: sync_all forgotten
  /\ phase = "open"
  /\ promised' = logged
  /\ sound' = IF Faultless THEN Len(logged) ELSE sound
  /\ UNCHANGED <<file, synced, dropped, phase, handle, map_index, logged>>

FsyncOk ==
  /\ phase = "open"
  /\ SyncMedium
  /\ promised' = logged
  /\ sound' = IF Faultless THEN Len(logged) ELSE sound
  /\ UNCHANGED <<phase, handle, map_index, logged>>

FsyncErr ==
  /\ phase = "open"
  /\ SyncFails
  /\ UNCHANGED <<phase, handle, map_index, history>>

\* The caller drops the handle after its last call (worker.rs, end of task).
Close ==
  /\ phase = "open"
  /\ Forget
  /\ UNCHANGED <<file, synced, dropped>>

-----------------------------------------------------------------------------
(* The environment *)

\* The process dies, perhaps in the middle of a write: the kernel lives on.
Crash ==
  /\ phase # "down"
  /\ \/ UNCHANGED file
     \/ /\ phase = "open"
        /\ Len(file) < MaxEntries
        /\ \E r \in Entry : file' \in Torn(file, r)
  /\ Forget
  /\ UNCHANGED <<synced, dropped>>

\* The machine dies: of the chunks not on the medium some prefix survives,
\* with or without bytes behind it that are no entry (a half-written page, a
\* hole in front of a later entry, a tail whose truncation was not synced).
PowerLoss ==
  /\ \E n \in synced..(IF dropped THEN synced ELSE Len(file)) :
       LET kept == SubSeq(file, 1, n) IN
         \/ file' = kept
         \/ /\ n < MaxEntries
            /\ \E t \in TornLens : file' = Write(kept, Junk, t)
  /\ synced' = Len(file')
  /\ dropped' = FALSE
  /\ Forget

-----------------------------------------------------------------------------
InitStep == ScanEntry \/ ScanStop \/ SetLen \/ SyncTruncated \/ InitReturn

WalNext ==
  \/ Open \/ InitStep \/ InitErr
  \/ \E r \in Entry : AppendOk(r) \/ AppendErr(r)
  \/ FsyncOk \/ FsyncErr \/ Close
  \/ Crash \/ PowerLoss

WalSpec == WalInit /\ [][WalNext]_walVars
\* Wal::init is straight-line code on a finite file: its steps are taken.
WalFairSpec == WalSpec /\ WF_walVars(InitStep)
-----------------------------------------------------------------------------
(* Properties *)

\* Types, and the ranges of the counters.
WalTypeOK ==
  /\ file \in Seq(Chunk)
  /\ synced \in 0..Len(file)
  /\ dropped \in BOOLEAN
  /\ phase \in InitPhases \cup {"down", "open"}
  /\ file_len \in Nat
  /\ entry_count \in Nat
  /\ map_index \in [Keys -> Vals \cup {NoVal}]
  /\ logged \in Seq(Entry)
  /\ promised \in Seq(Entry)
  /\ sound \in Nat

\* m maps every key to what its last entry among the first n of f left it at:
\* the reference definition of replay, with no loop.
IsReplayOf(m, f, n) ==
  \A k \in Keys :
    LET writes == {i \in 1..n : f[i].rec.key = k} IN
      \/ writes = {} /\ m[k] = NoVal
      \/ \E i \in writes : /\ \A j \in writes : j <= i
                           /\ m[k] = f[i].rec.val

\* The index Wal::init has built at any point, across its truncation too, is
\* the replay of the entries it has scanned.
RecoveredIndex ==
  phase \in InitPhases => IsReplayOf(map_index, file, entry_count)

\* Wal::init returns a file it has scanned to the end, without a trace of torn
\* or corrupt bytes, and next_offset() is its length: the next append cannot
\* land behind junk.
CleanAfterInit ==
  phase = "ready" => /\ NoJunk
                     /\ entry_count = Len(file) /\ file_len = FileLen(file)

\* The offset append returns, size_on_disk() and entry_count() describe the
\* file exactly as long as no append has failed halfway since init.
TrackedLength ==
  phase = "open" =>
    /\ file_len = FileLen(file) <=> NoJunk
    /\ NoJunk => entry_count = Len(file)

\* Every entry that an fsync covered before any fault in the file (a torn
\* append, a failed fsync that dropped pages) is there after every restart:
\* process crash, power loss, or either one in the middle of recovery.
SoundPromisesKept ==
  phase = "open" =>
    /\ sound <= Len(logged)
    /\ \A i \in 1..sound : logged[i] = promised[i]

\* wal.rs, comment on append: "call `fsync()` to ensure durability".  Every
\* entry an fsync that returned Ok covered is there after every restart.
PromisesKept ==
  phase = "open" =>
    /\ Len(promised) <= Len(logged)
    /\ \A i \in 1..Len(promised) : logged[i] = promised[i]

\* A running process removes an entry from the file only when it is corrupt or
\* lies behind corrupt bytes ("truncate torn/corrupt tail to last valid
\* entry"), and never changes one.
DiscardsOnlyBehindJunk ==
  [][ phase' # "down" =>
        \A i \in DOMAIN file :
          \/ i \in DOMAIN file' /\ file'[i] = file[i]
          \/ \E j \in 1..i : file[j].rec = Junk ]_walVars

\* Every call of Wal::init returns, with a handle or with an error.
RecoveryEnds == phase \in InitPhases ~> phase \in {"open", "down"}
=============================================================================
