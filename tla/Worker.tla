------------------------------- MODULE Worker -------------------------------
(***************************************************************************)
(* One database: its worker task (src/src/worker.rs) with the WAL it owns, *)
(* and the connection tasks that query it (handle_client in                *)
(* src/src/bin/main.rs).  They share a bounded mpsc queue and one oneshot  *)
(* channel per query; the worker alone touches the WAL and the index.      *)
(*                                                                         *)
(* Every `.await` that can suspend a task is a boundary between actions.   *)
(* A connection has one query at a time, so that a queued query is named   *)
(* by its connection.                                                      *)
(***************************************************************************)
EXTENDS Wal, FiniteSetsExt

CONSTANTS
  Clients,         \* connection tasks; a closed one is reused for the next
  NoOne,           \* not a connection
  FsyncInterval,   \* --fsync-interval
  MaxQueueSize,    \* --max-queue-size
  U32Max           \* u32::MAX, at which the sizes of an InfoPacket saturate

ASSUME WorkerAssumption ==
  /\ NoOne \notin Clients
  /\ FsyncInterval \in Nat
  /\ MaxQueueSize \in Nat \ {0}     \* mpsc::channel(0) panics
  /\ U32Max \in Nat

VARIABLES
  main_sender,   \* DBHandle.worker_handle is in the manager's map
  queue,         \* the mpsc queue
  pc,            \* "off", "recv", "append", "fsync", "final" or "exited"
  cur,           \* the connection whose write is being executed
  writes,        \* writes_executed modulo the interval
  memory_index,
  conn,          \* per connection: "idle", "sending", "waiting", "replying"
  req, rsp,      \* its query and the answer to it
  (* history variables, read by no action *)
  failed,        \* positions of the log whose fsync was answered with Err
  backlog        \* chunks off the medium at start or at a failed fsync

workerVars == <<queue, pc, cur, writes, memory_index>>
connVars == <<conn, req, rsp>>
ghosts == <<failed, backlog>>
vars == <<walVars, main_sender, workerVars, connVars, ghosts>>

Nothing == [op |-> "none", key |-> NoVal, val |-> NoVal]
Reads == [op : {"GET"}, key : Keys, val : {NoVal}]
           \cup [op : {"INFO"}, key : {NoVal}, val : {NoVal}]

\* fsync_interval.max(1)
Interval == IF FsyncInterval = 0 THEN 1 ELSE FsyncInterval

\* A connection holds a clone of the sender from get_db_handle until its
\* answer is written to the socket.
Holders == {c \in Clients : conn[c] # "idle"}

Init ==
  /\ WalInit
  /\ main_sender = FALSE
  /\ queue = <<>> /\ pc = "off" /\ cur = NoOne /\ writes = 0
  /\ memory_index = NoIndex
  /\ conn = [c \in Clients |-> "idle"]
  /\ req = [c \in Clients |-> Nothing] /\ rsp = [c \in Clients |-> Nothing]
  /\ failed = {} /\ backlog = 0

-----------------------------------------------------------------------------
(* The life of the worker, around its loop *)

\* The steps of Wal::init that concern nobody else.
Recover ==
  /\ pc = "off"
  /\ Open \/ ScanEntry \/ ScanStop \/ SetLen \/ SyncTruncated \/ InitErr
  /\ UNCHANGED <<main_sender, workerVars, connVars, ghosts>>

\* DatabaseWorker::init, the spawn and the insertion into the map.
Start ==
  /\ pc = "off"
  /\ InitReturn
  /\ main_sender' = TRUE
  /\ pc' = "recv" /\ writes' = 0 /\ memory_index' = map_index
  /\ failed' = {} /\ backlog' = Len(file) - synced
  /\ UNCHANGED <<queue, cur, connVars>>

\* drop_db or shutdown_all_workers lets go of the main sender.
DropMainSender ==
  /\ main_sender
  /\ main_sender' = FALSE
  /\ UNCHANGED <<walVars, workerVars, connVars, ghosts>>

-----------------------------------------------------------------------------
(* handle_client *)

\* A query has been read and validated, and get_db_handle finds the database.
\* The bound on the file is put here, so that the worker never meets it.
PendingWrites == {c \in Clients : conn[c] \in {"sending", "waiting"}
                                    /\ req[c] \in Entry}
GetHandle(c, q) ==
  /\ conn[c] = "idle"
  /\ main_sender
  /\ q \in Entry => Len(file) + Cardinality(PendingWrites) < MaxEntries
  /\ conn' = [conn EXCEPT ![c] = "sending"]
  /\ req' = [req EXCEPT ![c] = q]
  /\ UNCHANGED <<walVars, main_sender, workerVars, rsp, ghosts>>

AlwaysRoom == TRUE   \* mutant
RoomInQueue == Len(queue) < MaxQueueSize

\* db_handler.send(...).await
Send(c) ==
  /\ conn[c] = "sending"
  /\ RoomInQueue
  /\ queue' = Append(queue, c)
  /\ conn' = [conn EXCEPT ![c] = "waiting"]
  /\ UNCHANGED <<walVars, main_sender, pc, cur, writes, memory_index,
                 req, rsp, ghosts>>

\* send_response returns, Ok or Err: the arm ends and drops the sender.  After
\* an Err, or an InternalError, the connection is closed.  write_all returns
\* early while the kernel's buffers have room; how much is left open here, so
\* an answer may wait for its reader as if they were full.
Done(c) ==
  /\ conn[c] = "replying"
  /\ conn' = [conn EXCEPT ![c] = "idle"]
  /\ req' = [req EXCEPT ![c] = Nothing]
  /\ rsp' = [rsp EXCEPT ![c] = Nothing]
  /\ UNCHANGED <<walVars, main_sender, workerVars, ghosts>>

-----------------------------------------------------------------------------
(* DatabaseWorker::execute_queries *)

\* tx.send(answer): never waits for the connection.
Reply(c, answer) ==
  /\ conn' = [conn EXCEPT ![c] = "replying"]
  /\ rsp' = [rsp EXCEPT ![c] = answer]
  /\ UNCHANGED req

Present(m) == {k \in DOMAIN m : m[k] # NoVal}
Saturate(n) == IF n < U32Max THEN n ELSE U32Max

MinUnguarded(sizes) == Min(sizes \cup {U32Max})   \* mutant: usize::MAX escapes
MinSize(sizes) == IF sizes = {} THEN 0 ELSE Min(sizes)

Total(size, keys) == MapThenSumSet(LAMBDA k : size[k], keys)

InfoPacket(m, disk) ==
  LET keys == Present(m)
      sizes == {KeyLen[k] : k \in keys}
      total == Total(KeyLen, keys)
      bytes == Total([k \in keys |-> KeyLen[k] + ValLen[m[k]]], keys)
  IN [op |-> "Info",
      size_on_disk |-> Saturate(disk), size_in_memory |-> Saturate(bytes),
      min_key_size |-> MinSize(sizes),
      max_key_size |-> IF keys = {} THEN 0 ELSE Max(sizes),
      mean_key_size |-> IF keys = {} THEN 0 ELSE total \div Cardinality(keys),
      key_count |-> Cardinality(keys)]

Answer(code, v) == [op |-> code, key |-> NoVal, val |-> v]

ReadyWhenAllRead ==   \* mutant: waits until earlier answers are read
  pc = "recv" /\ queue # <<>> /\ \A c \in Clients : conn[c] # "replying"
\* recv() returns Some(query).
Ready == pc = "recv" /\ queue # <<>>

\* recv() and a query that only reads: answered without an await in between.
ExecuteRead ==
  /\ Ready
  /\ LET c == Head(queue) IN
       /\ req[c] \in Reads
       /\ Reply(c, IF req[c].op = "INFO" THEN InfoPacket(memory_index, file_len)
                   ELSE LET v == memory_index[req[c].key] IN
                     IF v # NoVal THEN Answer("KeyValue", v)
                                  ELSE Answer("KeyNotFound", NoVal))
  /\ queue' = Tail(queue)
  /\ UNCHANGED <<walVars, main_sender, pc, cur, writes, memory_index, ghosts>>

\* recv() and a query that writes: on to wal.append.
TakeWrite ==
  /\ Ready
  /\ req[Head(queue)] \in Entry
  /\ pc' = "append" /\ cur' = Head(queue) /\ queue' = Tail(queue)
  /\ UNCHANGED <<walVars, main_sender, writes, memory_index, connVars, ghosts>>

\* The tail of the SET and DELETE arms: the index, then the answer.
Apply ==
  LET r == req[cur] IN
    /\ memory_index' = ReplayInto(memory_index, r)
    /\ Reply(cur, IF r.op = "DELETE" /\ memory_index[r.key] = NoVal
                    THEN Answer("KeyNotFound", NoVal) ELSE Answer("Ok", NoVal))
    /\ pc' = "recv" /\ cur' = NoOne

FailApplies ==     \* mutant: the index is updated before the fsync
  /\ Reply(cur, Answer("InternalError", NoVal))
  /\ pc' = "recv" /\ cur' = NoOne
  /\ memory_index' = ReplayInto(memory_index, req[cur])
FailAnswersOk ==   \* mutant: the error is swallowed
  /\ Reply(cur, Answer("Ok", NoVal))
  /\ pc' = "recv" /\ cur' = NoOne
  /\ UNCHANGED memory_index

\* tx.send(Err(e)); continue: the index is not touched.
Fail ==
  /\ Reply(cur, Answer("InternalError", NoVal))
  /\ pc' = "recv" /\ cur' = NoOne
  /\ UNCHANGED memory_index

\* append Ok, and writes_executed not yet a multiple of the interval.
WriteUnsynced ==
  /\ pc = "append"
  /\ (writes + 1) % Interval # 0
  /\ AppendOk(req[cur])
  /\ writes' = (writes + 1) % Interval
  /\ Apply
  /\ UNCHANGED <<main_sender, queue, ghosts>>

\* append Ok, and the interval is full: on to wal.fsync.
WriteDue ==
  /\ pc = "append"
  /\ (writes + 1) % Interval = 0
  /\ AppendOk(req[cur])
  /\ writes' = 0
  /\ pc' = "fsync"
  /\ UNCHANGED <<main_sender, queue, cur, memory_index, connVars, ghosts>>

WriteFails ==
  /\ pc = "append"
  /\ AppendErr(req[cur])
  /\ Fail
  /\ UNCHANGED <<main_sender, queue, writes, ghosts>>

SyncDue ==
  /\ pc = "fsync"
  /\ FsyncOk
  /\ Apply
  /\ backlog' = 0
  /\ UNCHANGED <<main_sender, queue, writes, failed>>

SyncDueFails ==
  /\ pc = "fsync"
  /\ FsyncErr
  /\ Fail
  /\ failed' = failed \cup {Len(logged)}
  /\ backlog' = Len(file') - synced'
  /\ UNCHANGED <<main_sender, queue, writes>>

MainSenderGone == ~main_sender   \* mutant: clones of it do not count
SendersNeverGone == FALSE        \* mutant: the worker keeps a clone itself
SendersGone == ~main_sender /\ Holders = {}

\* recv() returns None: every sender is gone and the queue is drained.
LastSenderGone ==
  /\ pc = "recv"
  /\ queue = <<>> /\ SendersGone
  /\ pc' = "final"
  /\ UNCHANGED <<walVars, main_sender, queue, cur, writes, memory_index,
                 connVars, ghosts>>

FinalSyncSkipped ==   \* mutant
  /\ pc = "final"
  /\ pc' = "exited"
  /\ UNCHANGED <<walVars, main_sender, queue, cur, writes, memory_index,
                 connVars, ghosts>>

\* let _ = self.wal.fsync().await, then notify_one().
FinalSync ==
  /\ pc = "final"
  /\ \/ FsyncOk /\ backlog' = 0
     \/ FsyncErr /\ backlog' = Len(file') - synced'
  /\ pc' = "exited"
  /\ UNCHANGED <<main_sender, queue, cur, writes, memory_index, connVars,
                 failed>>

\* The task returns: the worker is dropped, its Wal with it.
Return ==
  /\ pc = "exited"
  /\ Close
  /\ pc' = "off" /\ memory_index' = NoIndex
  /\ failed' = {} /\ backlog' = 0
  /\ UNCHANGED <<main_sender, queue, cur, writes, connVars>>

-----------------------------------------------------------------------------
(* The environment *)

\* The process dies, or the machine does: nothing in memory survives.
LoseMemory ==
  /\ main_sender' = FALSE
  /\ queue' = <<>> /\ pc' = "off" /\ cur' = NoOne /\ writes' = 0
  /\ memory_index' = NoIndex
  /\ conn' = [c \in Clients |-> "idle"]
  /\ req' = [c \in Clients |-> Nothing] /\ rsp' = [c \in Clients |-> Nothing]
  /\ failed' = {} /\ backlog' = 0

Die ==
  /\ \/ Crash /\ (pc # "append" => file' = file)
     \/ PowerLoss
  /\ LoseMemory

-----------------------------------------------------------------------------
WorkerStep ==
  \/ ExecuteRead \/ TakeWrite \/ WriteUnsynced \/ WriteDue \/ WriteFails
  \/ SyncDue \/ SyncDueFails \/ LastSenderGone \/ FinalSync \/ Return

Next ==
  \/ Recover \/ Start \/ DropMainSender
  \/ \E c \in Clients : \/ \E q \in Entry \cup Reads : GetHandle(c, q)
                        \/ Send(c) \/ Done(c)
  \/ WorkerStep \/ Die

Spec == Init /\ [][Next]_vars

\* tokio runs every task that can run, and hands the permits of a full mpsc
\* queue out in the order they were asked for.  Nothing is assumed of the
\* remote ends: a client may never read its answer.
FairSpec ==
  /\ Spec
  /\ WF_vars(WorkerStep)
  /\ \A c \in Clients : SF_vars(Send(c))
-----------------------------------------------------------------------------
(* Properties *)

\* Types, and who can be in the queue.
TypeOK ==
  /\ WalTypeOK
  /\ main_sender \in BOOLEAN
  /\ queue \in Seq(Clients) /\ Len(queue) <= MaxQueueSize
  /\ pc \in {"off", "recv", "append", "fsync", "final", "exited"}
  /\ cur \in Clients \cup {NoOne}
  /\ writes \in 0..(Interval - 1)
  /\ memory_index \in [Keys -> Vals \cup {NoVal}]
  /\ conn \in [Clients -> {"idle", "sending", "waiting", "replying"}]
  /\ req \in [Clients -> Entry \cup Reads \cup {Nothing}]
  /\ failed \subseteq 1..Len(logged)
  /\ backlog \in Nat

Running == pc \in {"recv", "append", "fsync", "final", "exited"}

\* The index the worker answers from is the replay of the log it owns, less
\* the entry being synced and the entries whose fsync failed: those are in the
\* file, were answered with an error, and come back at the next start.
IndexIsReplay ==
  Running =>
    LET applied == (1..Len(logged)) \ (failed \cup
                      (IF pc = "fsync" THEN {Len(logged)} ELSE {}))
    IN \A k \in Keys :
         LET on == {i \in applied : logged[i].key = k} IN
           IF on = {} THEN memory_index[k] = NoVal
                      ELSE memory_index[k] = logged[Max(on)].val

\* Between two fsyncs at most `interval - 1` answered writes are off the medium
\* on top of what the start or a failed fsync left there, and after an orderly
\* exit none at all.  (A torn append or dropped pages void it: see Wal.)
LossWindow ==
  Running /\ Faultless =>
    Len(file) - synced <= backlog + CASE pc = "fsync" -> Interval
                                      [] pc = "exited" -> 0
                                      [] OTHER -> writes

\* manager.rs fears that a drop loses queries in flight.  Every connection that
\* waits is in the queue or being served, once, and the worker is there for it.
NobodyStranded ==
  \A c \in Clients : conn[c] = "waiting" =>
    /\ Running /\ pc \notin {"final", "exited"}
    /\ Cardinality({i \in DOMAIN queue : queue[i] = c})
         = IF c = cur THEN 0 ELSE 1

\* The packet of Info is coherent: nothing divides by zero, the minimum is not
\* usize::MAX for an empty index, the mean lies between the extremes.
InfoCoherent ==
  \A c \in Clients : rsp[c].op = "Info" =>
    LET p == rsp[c] IN
      /\ p.key_count = 0 <=> p.max_key_size = 0
      /\ p.min_key_size <= p.mean_key_size
      /\ p.mean_key_size <= p.max_key_size
      /\ \/ p.key_count * p.mean_key_size <= p.size_in_memory
         \/ p.size_in_memory = U32Max

\* A query that was given a handle is answered, or the process dies: no client
\* that does not read its answers can hold the worker up.
QueriesAnswered ==
  \A c \in Clients :
    conn[c] \in {"sending", "waiting"} ~> conn[c] \in {"replying", "idle"}

\* Once the main sender is gone the worker exits, if the clients that hold
\* clones of it read their answers.
DrainEnds ==
  (\A c \in Clients : []<>(conn[c] # "replying")) =>
    (Running /\ ~main_sender ~> pc = "off")

\* manager.rs, comment in drop_db: "drop main sender -> worker exits loop ->
\* final fsync -> notify_one -> task returns".
DropEndsWorker == Running /\ ~main_sender ~> pc = "off"
=============================================================================
