---------------------------- MODULE WorkerProofs ----------------------------
(***************************************************************************)
(* What TLAPS proves about Worker, for every set of clients, keys and      *)
(* values, every queue size and fsync interval and every pattern of        *)
(* faults.                                                                 *)
(*                                                                         *)
(* The worker owns an open log (WalProofs) and whoever it owes an answer   *)
(* is in its queue or its current query (QueueInv); it has a log as long   *)
(* as anyone has a sender (TaskInv); and its index is the replay of that   *)
(* log, less the entries it has refused (ReplayInv).                       *)
(***************************************************************************)
EXTENDS WorkerRefinement, WalProofs, FiniteSetTheorems

Serving == pc \in {"recv", "append", "fsync"}

\* The worker serves while there are senders, on a log that is open.
TaskInv ==
  /\ Running <=> phase = "open"
  /\ main_sender => Serving
  /\ \A c \in Clients : conn[c] # "idle" => Serving
  /\ pc = "off" => failed = {}

\* The query being executed is a write of a connection that waits for it.
CurInv ==
  /\ cur \in Clients <=> pc \in {"append", "fsync"}
  /\ cur \in Clients => conn[cur] = "waiting" /\ req[cur] \in Entry

\* A connection has a query from the handle to the answer, and an answer until
\* it is written.
ConnInv ==
  /\ rsp = [c \in Clients |-> rsp[c]]
  /\ \A c \in Clients :
       /\ conn[c] = "idle" => req[c] = Nothing
       /\ conn[c] # "idle" => req[c] \in Entry \cup Reads
       /\ conn[c] = "replying" <=> rsp[c] # Nothing

\* Those who wait are in the queue, once each, or being served.
QueueInv ==
  /\ \A i \in DOMAIN queue : conn[queue[i]] = "waiting" /\ queue[i] # cur
  /\ \A i, j \in DOMAIN queue : queue[i] = queue[j] => i = j
  /\ \A c \in Clients : conn[c] = "waiting" =>
       c = cur \/ \E i \in DOMAIN queue : queue[i] = c

\* The entry whose fsync is due is the last one of the log.
DueInv ==
  pc = "fsync" => /\ Len(logged) > 0 /\ logged[Len(logged)] = req[cur]
                  /\ Len(logged) \notin failed /\ writes = 0

\* The entries of the log that the index shows.
Applied ==
  (1..Len(logged)) \ (failed \cup (IF pc = "fsync" THEN {Len(logged)} ELSE {}))

\* k stands in m as the last entry of l among the positions S left it.
LastWrite(m, l, S, k) ==
  \/ (\A i \in S : l[i].key # k) /\ m[k] = NoVal
  \/ \E i \in S : /\ l[i].key = k /\ m[k] = l[i].val
                  /\ \A j \in S : l[j].key = k => j <= i

ReplayInv ==
  Running => \A k \in Keys : LastWrite(memory_index, logged, Applied, k)

\* The chunks in front of any junk are the first entries of the log.
PrefixInv ==
  phase = "open" =>
    \A i \in DOMAIN file :
      (\A j \in 1..i : file[j].rec # Junk)
        => i <= Len(logged) /\ logged[i] = file[i].rec

WorkerInv ==
  /\ WalInv /\ TypeOK /\ TaskInv /\ CurInv /\ ConnInv /\ QueueInv
  /\ DueInv /\ ReplayInv /\ PrefixInv /\ LossWindow

-----------------------------------------------------------------------------
(* Facts about the operators of the model. *)

\* fsync_interval.max(1) is positive, and the count of writes stays below it.
LEMMA IntervalPositive == Interval \in Nat \ {0}
BY WorkerAssumption DEF Interval

\* A set of naturals has a least element.
LEMMA LeastNatural ==
  ASSUME NEW T \in SUBSET Nat, T # {}
  PROVE  \E m \in T : \A n \in T : m <= n
<1> DEFINE R == OpToRel(<, Nat)
<1>1. R = {ss \in Nat \X Nat : ss[1] < ss[2]}
  BY DEF OpToRel
<1>2. PICK m \in T : \A n \in T : <<n, m>> \notin R
  <2>1. IsWellFoundedOn(R, Nat)
    BY NatLessThanWellFounded DEF R
  <2> HIDE DEF R
  <2> QED
    BY <2>1, WFMin
<1> HIDE DEF R
<1>3. \A n \in T : n \in Nat /\ m \in Nat /\ ~(n < m)
  BY <1>1, <1>2
<1>4. \A n \in T : m <= n
  BY <1>3
<1> QED
  BY <1>4

\* writes_executed % interval: zero exactly when the interval is full.
LEMMA NextWrites ==
  ASSUME NEW w \in 0..(Interval - 1)
  PROVE  /\ (w + 1) % Interval \in 0..(Interval - 1)
         /\ (w + 1) % Interval # 0 => (w + 1) % Interval = w + 1
<1>1. ASSUME NEW i \in Nat \ {0}, NEW x \in 0..(i - 1)
      PROVE  (x + 1) % i \in 0..(i - 1) /\ ((x + 1) % i # 0 => (x + 1) % i = x + 1)
  OBVIOUS
<1> QED
  BY <1>1, IntervalPositive

\* An answer is not the absence of one.
LEMMA AnswersAreSomething ==
  /\ \A code, v : code # "none" => Answer(code, v) # Nothing
  /\ \A m, d : InfoPacket(m, d) # Nothing
<1>1. Nothing.op = "none"
  BY DEF Nothing
<1>2. ASSUME NEW code, NEW v PROVE Answer(code, v).op = code
  BY DEF Answer
<1>3. ASSUME NEW m, NEW d PROVE InfoPacket(m, d).op = "Info"
  BY DEF InfoPacket
<1> QED
  BY <1>1, <1>2, <1>3

\* A query is a query: none of them is the absence of one, or a read and a
\* write at once.
LEMMA QueriesAreSomething ==
  /\ Nothing \notin Entry \cup Reads
  /\ \A r \in Entry : r \notin Reads /\ r.key \in Keys /\ r.op \in {"SET", "DELETE"}
                        /\ r.val \in Vals \cup {NoVal}
                        /\ (r.op = "DELETE" <=> r.val = NoVal)
BY WalAssumption DEF Nothing, Entry, Reads

-----------------------------------------------------------------------------
(* The worker uses its log as Wal says. *)

\* Every step of the worker, of the connections and of the environment is a
\* step of the log or leaves it alone.
LEMMA StepsOfWal ==
  WorkerInv /\ [Next]_vars => [WalNext]_walVars
<1> SUFFICES ASSUME WorkerInv, [Next]_vars PROVE [WalNext]_walVars
  OBVIOUS
<1>1. CASE Recover
  BY <1>1 DEF Recover, WalNext, InitStep
<1>2. CASE Start
  BY <1>2 DEF Start, WalNext, InitStep
<1>3. CASE WorkerStep
  <2>1. pc \in {"append", "fsync"} => req[cur] \in Entry
    BY DEF WorkerInv, CurInv
  <2>2. CASE WriteUnsynced \/ WriteDue \/ WriteFails
    BY <2>1, <2>2 DEF WriteUnsynced, WriteDue, WriteFails, WalNext
  <2>3. CASE SyncDue \/ SyncDueFails \/ FinalSync \/ Return
    BY <2>3 DEF SyncDue, SyncDueFails, FinalSync, Return, WalNext
  <2>4. CASE ExecuteRead \/ TakeWrite \/ LastSenderGone
    BY <2>4 DEF ExecuteRead, TakeWrite, LastSenderGone
  <2> QED
    BY <1>3, <2>2, <2>3, <2>4 DEF WorkerStep
<1>4. CASE Die
  BY <1>4 DEF Die, WalNext
<1>5. CASE DropMainSender
  BY <1>5 DEF DropMainSender
<1>6. ASSUME NEW c \in Clients, (\E q \in Entry \cup Reads : GetHandle(c, q)) \/ Send(c) \/ Done(c)
      PROVE  UNCHANGED walVars
  BY <1>6 DEF GetHandle, Send, Done
<1>7. CASE UNCHANGED vars
  BY <1>7 DEF vars
<1> QED
  BY <1>1, <1>2, <1>3, <1>4, <1>5, <1>6, <1>7 DEF Next

-----------------------------------------------------------------------------
(* Every action keeps the invariant. *)

\* The parts of the invariant that are about the worker and the connections
\* alone, and those that relate the worker to its log.
TalkInv == TaskInv /\ CurInv /\ ConnInv /\ QueueInv
LogInv == DueInv /\ ReplayInv /\ PrefixInv /\ LossWindow

\* A step that leaves the log, the index and the counters alone, and neither
\* starts nor ends a sync, keeps what relates them.
LEMMA SameLog ==
  ASSUME WorkerInv, UNCHANGED <<walVars, memory_index, writes, ghosts>>,
         \/ pc' = pc /\ cur' = cur /\ (pc = "fsync" => req'[cur] = req[cur])
         \/ pc = "recv" /\ pc' \in {"append", "final"}
  PROVE  LogInv'
<1> USE DEF WorkerInv, Running, walVars, ghosts, handle, history
<1>1. DueInv'
  BY DEF DueInv
<1>2. ReplayInv'
  BY DEF ReplayInv, Applied, LastWrite
<1>3. PrefixInv'
  BY DEF PrefixInv
<1>4. LossWindow'
  BY DEF LossWindow, Faultless, NoJunk
<1> QED
  BY <1>1, <1>2, <1>3, <1>4 DEF LogInv

\* DropMainSender: the worker goes on for those who hold clones.
LEMMA DropMainSenderInv ==
  ASSUME WorkerInv, WalInv', DropMainSender
  PROVE  WorkerInv'
<1> USE DEF WorkerInv, DropMainSender, workerVars, connVars, ghosts
<1>1. TypeOK'
  BY DEF WalInv, TypeOK, walVars, history
<1>2. TaskInv' /\ CurInv' /\ ConnInv' /\ QueueInv'
  BY DEF TaskInv, CurInv, ConnInv, QueueInv, Running, Serving, walVars
<1>3. LogInv'
  BY SameLog
<1> QED
  BY <1>1, <1>2, <1>3 DEF LogInv

\* GetHandle: the map has a sender, so the worker serves.
LEMMA GetHandleInv ==
  ASSUME WorkerInv, WalInv', NEW c \in Clients, NEW q \in Entry \cup Reads,
         GetHandle(c, q)
  PROVE  WorkerInv'
<1> USE DEF WorkerInv, GetHandle, workerVars, connVars, ghosts
<1>1. TypeOK'
  BY DEF WalInv, TypeOK, walVars, history
<1>2. TaskInv'
  BY DEF TypeOK, TaskInv, Running, Serving, walVars
<1>3. CurInv' /\ QueueInv'
  BY DEF TypeOK, CurInv, QueueInv
<1>4. ConnInv'
  BY QueriesAreSomething DEF TypeOK, ConnInv
<1>5. LogInv'
  <2>1. pc = "fsync" => cur # c
    BY DEF CurInv
  <2> QED
    BY <2>1, SameLog DEF TypeOK
<1> QED
  BY <1>1, <1>2, <1>3, <1>4, <1>5 DEF LogInv

\* Send: the connection joins the queue, in which it was not.
LEMMA SendInv ==
  ASSUME WorkerInv, WalInv', NEW c \in Clients, Send(c)
  PROVE  WorkerInv'
<1> USE DEF WorkerInv, Send, workerVars, connVars, ghosts
<1>1. /\ queue' \in Seq(Clients) /\ Len(queue') = Len(queue) + 1
      /\ DOMAIN queue = 1..Len(queue) /\ DOMAIN queue' = 1..(Len(queue) + 1)
      /\ \A i \in 1..Len(queue) : queue'[i] = queue[i]
      /\ queue'[Len(queue) + 1] = c
  BY DEF TypeOK
<1>2. TypeOK'
  BY <1>1, WorkerAssumption DEF WalInv, TypeOK, RoomInQueue, walVars, history
<1>3. TaskInv' /\ CurInv' /\ ConnInv'
  BY DEF TypeOK, TaskInv, CurInv, ConnInv, Running, Serving, walVars
<1>4. \A i \in 1..Len(queue) : queue[i] # c
  BY <1>1 DEF QueueInv
<1>5. QueueInv'
  <2>1. c # cur
    BY DEF CurInv
  <2>2. \A d \in Clients : conn'[d] = IF d = c THEN "waiting" ELSE conn[d]
    BY DEF TypeOK
  <2>3. \A i \in DOMAIN queue' : conn'[queue'[i]] = "waiting" /\ queue'[i] # cur'
    BY <1>1, <2>1, <2>2 DEF QueueInv, TypeOK
  <2>4. \A i, j \in DOMAIN queue' : queue'[i] = queue'[j] => i = j
    BY <1>1, <1>4 DEF QueueInv
  <2>5. ASSUME NEW d \in Clients, conn'[d] = "waiting"
        PROVE  d = cur' \/ \E i \in DOMAIN queue' : queue'[i] = d
    BY <1>1, <2>2, <2>5 DEF QueueInv
  <2> QED
    BY <2>3, <2>4, <2>5 DEF QueueInv
<1>6. LogInv'
  BY SameLog
<1> QED
  BY <1>2, <1>3, <1>5, <1>6 DEF LogInv

\* Done: a connection whose answer is written is not in the queue.
LEMMA DoneInv ==
  ASSUME WorkerInv, WalInv', NEW c \in Clients, Done(c)
  PROVE  WorkerInv'
<1> USE DEF WorkerInv, Done, workerVars, connVars, ghosts
<1>1. TypeOK'
  BY DEF WalInv, TypeOK, walVars, history
<1>2. TaskInv' /\ CurInv' /\ ConnInv'
  BY DEF TypeOK, TaskInv, CurInv, ConnInv, Running, Serving, walVars
<1>3. QueueInv'
  BY DEF TypeOK, QueueInv
<1>4. LogInv'
  <2>1. pc = "fsync" => cur # c
    BY DEF CurInv
  <2> QED
    BY <2>1, SameLog DEF TypeOK
<1> QED
  BY <1>1, <1>2, <1>3, <1>4 DEF LogInv

\* The head of the queue waits, has a query, and leaves the queue for good.
LEMMA HeadOfQueue ==
  ASSUME WorkerInv, queue # <<>>, queue' = Tail(queue)
  PROVE  /\ Head(queue) \in Clients /\ conn[Head(queue)] = "waiting"
         /\ Head(queue) # cur
         /\ req[Head(queue)] \in Entry \cup Reads
         /\ queue' \in Seq(Clients) /\ Len(queue') <= MaxQueueSize
         /\ \A i \in DOMAIN queue' : /\ conn[queue'[i]] = "waiting"
                                     /\ queue'[i] # cur
                                     /\ queue'[i] # Head(queue)
         /\ \A i, j \in DOMAIN queue' : queue'[i] = queue'[j] => i = j
         /\ \A c \in Clients : conn[c] = "waiting" /\ c # Head(queue) =>
              c = cur \/ \E i \in DOMAIN queue' : queue'[i] = c
<1> USE DEF WorkerInv
<1>1. /\ queue \in Seq(Clients) /\ Len(queue) > 0 /\ Len(queue) <= MaxQueueSize
      /\ MaxQueueSize \in Nat
  BY WorkerAssumption DEF TypeOK
<1>2. /\ Head(queue) = queue[1] /\ 1 \in DOMAIN queue
      /\ queue' \in Seq(Clients) /\ Len(queue') = Len(queue) - 1
      /\ DOMAIN queue' = 1..(Len(queue) - 1) /\ DOMAIN queue = 1..Len(queue)
      /\ \A i \in DOMAIN queue' : queue'[i] = queue[i + 1] /\ i + 1 \in DOMAIN queue
  BY <1>1
<1>3. /\ Head(queue) \in Clients /\ conn[Head(queue)] = "waiting"
      /\ Head(queue) # cur /\ req[Head(queue)] \in Entry \cup Reads
  BY <1>1, <1>2 DEF QueueInv, ConnInv
<1>4. \A i \in DOMAIN queue' : /\ conn[queue'[i]] = "waiting"
                               /\ queue'[i] # cur
                               /\ queue'[i] # Head(queue)
  BY <1>1, <1>2 DEF QueueInv
<1>5. \A i, j \in DOMAIN queue' : queue'[i] = queue'[j] => i = j
  BY <1>1, <1>2 DEF QueueInv
<1>6. ASSUME NEW c \in Clients, conn[c] = "waiting", c # Head(queue), c # cur
      PROVE  \E i \in DOMAIN queue' : queue'[i] = c
  <2>1. PICK i \in DOMAIN queue : queue[i] = c
    BY <1>6 DEF QueueInv
  <2>2. i - 1 \in DOMAIN queue' /\ queue'[i - 1] = c
    BY <1>1, <1>2, <1>6, <2>1
  <2> QED
    BY <2>2
<1> QED
  BY <1>1, <1>2, <1>3, <1>4, <1>5, <1>6

\* ExecuteRead: the head of the queue has its answer.
LEMMA ExecuteReadInv ==
  ASSUME WorkerInv, WalInv', ExecuteRead
  PROVE  WorkerInv'
<1> USE DEF WorkerInv, ExecuteRead, Ready, ghosts
<1> DEFINE c == Head(queue)
<1>1. /\ c \in Clients /\ conn[c] = "waiting" /\ c # cur
      /\ req[c] \in Entry \cup Reads
      /\ queue' \in Seq(Clients) /\ Len(queue') <= MaxQueueSize
      /\ \A i \in DOMAIN queue' : /\ conn[queue'[i]] = "waiting"
                                  /\ queue'[i] # cur
                                  /\ queue'[i] # c
      /\ \A i, j \in DOMAIN queue' : queue'[i] = queue'[j] => i = j
      /\ \A d \in Clients : conn[d] = "waiting" /\ d # c =>
           d = cur \/ \E i \in DOMAIN queue' : queue'[i] = d
  BY HeadOfQueue
<1>2. PICK a : /\ a # Nothing /\ req' = req
               /\ conn' = [conn EXCEPT ![c] = "replying"]
               /\ rsp' = [rsp EXCEPT ![c] = a]
  BY AnswersAreSomething DEF Reply
<1> HIDE DEF c
<1>3. TypeOK'
  BY <1>1, <1>2 DEF WalInv, TypeOK, walVars, history
<1>4. TaskInv' /\ CurInv' /\ ConnInv'
  BY <1>1, <1>2 DEF TypeOK, TaskInv, CurInv, ConnInv, Running, Serving, walVars
<1>5. QueueInv'
  BY <1>1, <1>2 DEF TypeOK, QueueInv
<1>6. LogInv'
  BY <1>2, SameLog
<1> QED
  BY <1>3, <1>4, <1>5, <1>6 DEF LogInv

\* TakeWrite: the head of the queue becomes the one being served.
LEMMA TakeWriteInv ==
  ASSUME WorkerInv, WalInv', TakeWrite
  PROVE  WorkerInv'
<1> USE DEF WorkerInv, TakeWrite, Ready, ghosts, connVars
<1> DEFINE c == Head(queue)
<1>1. /\ c \in Clients /\ conn[c] = "waiting"
      /\ req[c] \in Entry /\ cur' = c
      /\ queue' \in Seq(Clients) /\ Len(queue') <= MaxQueueSize
      /\ \A i \in DOMAIN queue' : /\ conn[queue'[i]] = "waiting"
                                  /\ queue'[i] # c
      /\ \A i, j \in DOMAIN queue' : queue'[i] = queue'[j] => i = j
      /\ \A d \in Clients : conn[d] = "waiting" /\ d # c =>
           d = cur \/ \E i \in DOMAIN queue' : queue'[i] = d
  BY HeadOfQueue
<1> HIDE DEF c
<1>2. cur \notin Clients
  BY DEF CurInv
<1>3. TypeOK'
  BY <1>1 DEF WalInv, TypeOK, walVars, history
<1>4. TaskInv' /\ CurInv' /\ ConnInv'
  BY <1>1 DEF TypeOK, TaskInv, CurInv, ConnInv, Running, Serving, walVars
<1>5. QueueInv'
  BY <1>1, <1>2 DEF QueueInv
<1>6. LogInv'
  BY SameLog
<1> QED
  BY <1>3, <1>4, <1>5, <1>6 DEF LogInv

\* LastSenderGone: nobody is left who waits or could ask.
LEMMA LastSenderGoneInv ==
  ASSUME WorkerInv, WalInv', LastSenderGone
  PROVE  WorkerInv'
<1> USE DEF WorkerInv, LastSenderGone, SendersGone, Holders, ghosts, connVars
<1>1. TypeOK'
  BY DEF WalInv, TypeOK, walVars, history
<1>2. TaskInv' /\ CurInv' /\ ConnInv' /\ QueueInv'
  BY DEF TypeOK, TaskInv, CurInv, ConnInv, QueueInv, Running, Serving, walVars
<1>3. LogInv'
  BY SameLog
<1> QED
  BY <1>1, <1>2, <1>3 DEF LogInv

\* Recover: the log is not open, before and after.
LEMMA RecoverInv ==
  ASSUME WorkerInv, WalInv', Recover
  PROVE  WorkerInv'
<1> USE DEF WorkerInv, Recover, workerVars, connVars, ghosts
<1>1. phase' # "open" /\ (logged' = logged \/ logged' = <<>>) /\ failed = {}
  BY DEF TaskInv, Running, Open, ScanEntry, ScanStop, SetLen, SyncTruncated,
     InitErr, Forget, history
<1>2. TypeOK'
  BY <1>1 DEF WalInv, TypeOK
<1>3. TaskInv' /\ CurInv' /\ ConnInv' /\ QueueInv'
  BY <1>1 DEF TaskInv, CurInv, ConnInv, QueueInv, Running, Serving
<1>4. DueInv' /\ ReplayInv' /\ PrefixInv' /\ LossWindow'
  BY <1>1 DEF DueInv, ReplayInv, PrefixInv, LossWindow, Running
<1> QED
  BY <1>2, <1>3, <1>4

\* Start: the index Wal::init returns is the replay of the log it returns.
LEMMA StartInv ==
  ASSUME WorkerInv, WalInv', Start
  PROVE  WorkerInv'
<1> USE DEF WorkerInv, Start, InitReturn, handle
<1>1. /\ phase = "ready" /\ phase' = "open" /\ entry_count = Len(file)
      /\ IsReplayOf(map_index, file, Len(file))
      /\ file' = file /\ synced' = synced
  BY DEF WalInv, ScanInv, InitPhases
<1>2. /\ logged' \in Seq(Entry) /\ Len(logged') = Len(file)
      /\ \A i \in 1..Len(file) : logged'[i] = file[i].rec
  <2>1. file \in Seq(Chunk) /\ Len(file) \in Nat /\ logged' \in Seq(Entry)
    BY DEF TypeOK, WalTypeOK, WalInv
  <2> QED
    BY <1>1, <2>1
<1>3. backlog' \in Nat /\ backlog' = Len(file) - synced
  BY DEF TypeOK, WalTypeOK
<1>4. TypeOK'
  BY <1>3, IntervalPositive DEF WalInv, TypeOK, WalTypeOK, connVars
<1>5. /\ main_sender = FALSE /\ cur \notin Clients
      /\ \A c \in Clients : conn[c] = "idle"
  BY DEF TaskInv, CurInv, Serving, TypeOK
<1>6. TaskInv' /\ CurInv' /\ ConnInv' /\ QueueInv'
  BY <1>1, <1>5 DEF TaskInv, CurInv, ConnInv, QueueInv, Running, Serving,
     connVars
<1>7. ReplayInv'
  <2> SUFFICES ASSUME NEW k \in Keys
               PROVE  LastWrite(map_index, logged', 1..Len(file), k)
    BY <1>2 DEF ReplayInv, Applied
  <2>1. \/ {i \in 1..Len(file) : file[i].rec.key = k} = {} /\ map_index[k] = NoVal
        \/ \E i \in {i \in 1..Len(file) : file[i].rec.key = k} :
             /\ \A j \in {j \in 1..Len(file) : file[j].rec.key = k} : j <= i
             /\ map_index[k] = file[i].rec.val
    BY <1>1 DEF IsReplayOf
  <2> QED
    BY <1>2, <2>1 DEF LastWrite
<1>8. DueInv' /\ PrefixInv' /\ LossWindow'
  <2>1. DOMAIN file = 1..Len(file)
    BY DEF TypeOK, WalTypeOK
  <2> QED
    BY <1>1, <1>2, <1>3, <2>1 DEF DueInv, PrefixInv, LossWindow, TypeOK,
       WalTypeOK
<1> QED
  BY <1>4, <1>6, <1>7, <1>8

\* tx.send and back to recv(): the one being served has its answer.
LEMMA AnsweredInv ==
  ASSUME WorkerInv, pc \in {"append", "fsync"}, NEW a, a # Nothing, Reply(cur, a),
         pc' = "recv", cur' = NoOne, phase' = phase, UNCHANGED <<main_sender, queue>>
  PROVE  /\ TaskInv' /\ CurInv' /\ ConnInv' /\ QueueInv'
         /\ conn' \in [Clients -> {"idle", "sending", "waiting", "replying"}]
<1> USE DEF WorkerInv, Reply
<1>1. /\ cur \in Clients /\ conn[cur] = "waiting" /\ NoOne \notin Clients
      /\ conn' \in [Clients -> {"idle", "sending", "waiting", "replying"}]
  BY WorkerAssumption DEF CurInv, TypeOK
<1>2. TaskInv' /\ CurInv' /\ ConnInv'
  BY <1>1 DEF TypeOK, TaskInv, CurInv, ConnInv, Running, Serving
<1>3. QueueInv'
  BY <1>1 DEF TypeOK, QueueInv
<1> QED
  BY <1>1, <1>2, <1>3

\* One more entry at the end of the log, applied to the index.
LEMMA ApplyEntry ==
  ASSUME NEW m \in [Keys -> Vals \cup {NoVal}], NEW l, NEW g, NEW n \in Nat,
         NEW S \in SUBSET (1..n), \A k \in Keys : LastWrite(m, l, S, k),
         \A i \in S : g[i] = l[i], g[n + 1] \in Entry
  PROVE  /\ ReplayInto(m, g[n + 1]) \in [Keys -> Vals \cup {NoVal}]
         /\ \A k \in Keys :
              LastWrite(ReplayInto(m, g[n + 1]), g, S \cup {n + 1}, k)
<1> DEFINE r == g[n + 1]
           mm == ReplayInto(m, r)
<1>1. /\ r.key \in Keys /\ r.val \in Vals \cup {NoVal} /\ r.op \in {"SET", "DELETE"}
      /\ r.op = "DELETE" <=> r.val = NoVal
  BY QueriesAreSomething
<1>2. /\ mm \in [Keys -> Vals \cup {NoVal}] /\ mm[r.key] = r.val
      /\ \A k \in Keys : k # r.key => mm[k] = m[k]
  BY <1>1 DEF ReplayInto
<1> HIDE DEF mm
<1>3. ASSUME NEW k \in Keys PROVE LastWrite(mm, g, S \cup {n + 1}, k)
  <2>1. CASE k = r.key
    <3>1. \A j \in S \cup {n + 1} : j <= n + 1
      OBVIOUS
    <3> QED
      BY <1>2, <2>1, <3>1 DEF LastWrite
  <2>2. CASE k # r.key
    <3>1. LastWrite(m, l, S, k)
      OBVIOUS
    <3> QED
      BY <1>2, <2>2, <3>1 DEF LastWrite
  <2> QED
    BY <2>1, <2>2
<1> QED
  BY <1>2, <1>3 DEF mm

\* A successful append adds the same entry to the file and to the log.
LEMMA AppendFacts ==
  ASSUME WorkerInv, NEW r \in Entry, AppendOk(r)
  PROVE  /\ logged' \in Seq(Entry) /\ Len(logged') = Len(logged) + 1
         /\ \A i \in 1..Len(logged) : logged'[i] = logged[i]
         /\ logged'[Len(logged) + 1] = r
         /\ Len(file') = Len(file) + 1 /\ synced' = synced
         /\ phase = "open" /\ phase' = "open"
         /\ Faultless' => Faultless
         /\ PrefixInv'
<1> USE DEF WorkerInv
<1>1. file \in Seq(Chunk) /\ logged \in Seq(Entry) /\ RecLen(r) \in Nat \ {0}
  BY RecLenPositive DEF TypeOK, WalTypeOK
<1>2. /\ logged' \in Seq(Entry) /\ Len(logged') = Len(logged) + 1
      /\ \A i \in 1..Len(logged) : logged'[i] = logged[i]
      /\ logged'[Len(logged) + 1] = r
  BY <1>1 DEF AppendOk
<1>3. Extends(file', file, r, RecLen(r))
  BY <1>1, WriteExtends DEF AppendOk
<1>4. /\ file' \in Seq(Chunk) /\ Len(file') = Len(file) + 1
      /\ \A i \in 1..Len(file) : file'[i] = file[i]
      /\ file'[Len(file) + 1].rec = r
      /\ DOMAIN file = 1..Len(file) /\ DOMAIN file' = 1..(Len(file) + 1)
  BY <1>1, <1>3 DEF Extends
<1>5. synced' = synced /\ dropped' = dropped /\ phase = "open" /\ phase' = "open"
  BY DEF AppendOk
<1>6. Faultless' => Faultless
  BY <1>4, <1>5 DEF Faultless, NoJunk
<1>7. PrefixInv'
  <2> SUFFICES ASSUME NEW i \in 1..(Len(file) + 1), \A j \in 1..i : file'[j].rec # Junk
               PROVE  i <= Len(logged') /\ logged'[i] = file'[i].rec
    BY <1>4 DEF PrefixInv
  <2>1. Len(file) \in Nat /\ Len(logged) \in Nat
    BY <1>1
  <2>2. CASE i \in 1..Len(file)
    <3>1. \A j \in 1..i : file[j].rec # Junk
      BY <1>4, <2>1, <2>2
    <3>2. i <= Len(logged) /\ logged[i] = file[i].rec
      BY <1>4, <1>5, <2>2, <3>1 DEF PrefixInv
    <3> QED
      BY <1>2, <1>4, <2>1, <2>2, <3>2
  <2>3. CASE i = Len(file) + 1
    <3>1. NoJunk
      BY <1>4, <2>1, <2>3 DEF NoJunk
    <3>2. Len(logged) = Len(file)
      BY <1>5, <3>1 DEF WalInv, OpenInv
    <3> QED
      BY <1>2, <1>4, <2>1, <2>3, <3>2
  <2> QED
    BY <2>1, <2>2, <2>3
<1> QED
  BY <1>2, <1>4, <1>5, <1>6, <1>7

\* Apply answers.
LEMMA ApplyAnswers ==
  ASSUME Apply
  PROVE  /\ \E a : a # Nothing /\ Reply(cur, a)
         /\ memory_index' = ReplayInto(memory_index, req[cur])
         /\ pc' = "recv" /\ cur' = NoOne
BY AnswersAreSomething DEF Apply

\* Fail answers, and leaves the index alone.
LEMMA FailAnswers ==
  ASSUME Fail
  PROVE  /\ \E a : a # Nothing /\ Reply(cur, a)
         /\ memory_index' = memory_index
         /\ pc' = "recv" /\ cur' = NoOne
BY AnswersAreSomething DEF Fail

\* WriteUnsynced: the entry is appended and applied, and the interval is not
\* full.
LEMMA WriteUnsyncedInv ==
  ASSUME WorkerInv, WalInv', WriteUnsynced
  PROVE  WorkerInv'
<1> USE DEF WorkerInv
<1>1. /\ pc = "append" /\ req[cur] \in Entry /\ AppendOk(req[cur]) /\ Apply
      /\ UNCHANGED <<main_sender, queue, failed, backlog>>
  BY DEF CurInv, WriteUnsynced, ghosts
<1>2. /\ logged' \in Seq(Entry) /\ Len(logged') = Len(logged) + 1
      /\ \A i \in 1..Len(logged) : logged'[i] = logged[i]
      /\ logged'[Len(logged) + 1] = req[cur]
      /\ Len(file') = Len(file) + 1 /\ synced' = synced
      /\ phase = "open" /\ phase' = "open"
      /\ Faultless' => Faultless
      /\ PrefixInv'
  BY <1>1, AppendFacts
<1>3. PICK a : a # Nothing /\ Reply(cur, a)
  BY <1>1, ApplyAnswers
<1>4. /\ memory_index' = ReplayInto(memory_index, req[cur])
      /\ pc' = "recv" /\ cur' = NoOne
  BY <1>1, ApplyAnswers
<1>5. /\ TaskInv' /\ CurInv' /\ ConnInv' /\ QueueInv'
      /\ conn' \in [Clients -> {"idle", "sending", "waiting", "replying"}]
  BY <1>1, <1>2, <1>3, <1>4, AnsweredInv
<1>6. writes' \in 0..(Interval - 1) /\ writes' = writes + 1
  BY NextWrites DEF TypeOK, WriteUnsynced
<1>7. /\ Applied \in SUBSET (1..Len(logged)) /\ Applied' = Applied \cup {Len(logged) + 1}
      /\ Len(logged) \in Nat
  <2>1. failed \subseteq 1..Len(logged) /\ Len(logged) \in Nat
    BY DEF TypeOK, WalTypeOK
  <2> QED
    BY <1>1, <1>2, <1>4, <2>1 DEF Applied
<1>8. /\ memory_index' \in [Keys -> Vals \cup {NoVal}]
      /\ ReplayInv'
  <2>1. /\ memory_index \in [Keys -> Vals \cup {NoVal}]
        /\ \A k \in Keys : LastWrite(memory_index, logged, Applied, k)
    BY <1>1 DEF TypeOK, ReplayInv, Running
  <2> DEFINE g == logged'
             n == Len(logged)
  <2>2. n \in Nat /\ Applied \in SUBSET (1..n) /\ g[n + 1] = req[cur]
    BY <1>2, <1>7
  <2>3. \A i \in Applied : g[i] = logged[i]
    BY <1>2, <1>7
  <2> HIDE DEF g, n
  <2>4. /\ ReplayInto(memory_index, g[n + 1]) \in [Keys -> Vals \cup {NoVal}]
        /\ \A k \in Keys : LastWrite(ReplayInto(memory_index, g[n + 1]), g,
                                     Applied \cup {n + 1}, k)
    BY <1>1, <2>1, <2>2, <2>3, ApplyEntry
  <2> QED
    BY <1>4, <1>7, <2>2, <2>4 DEF ReplayInv, g, n
<1>9. TypeOK'
  <2>1. req' = req /\ failed \subseteq 1..Len(logged')
    BY <1>1, <1>2, <1>3, <1>7 DEF Reply, TypeOK
  <2> QED
    BY <1>1, <1>4, <1>5, <1>6, <1>8, <2>1 DEF WalInv, TypeOK
<1>10. DueInv'
  BY <1>4 DEF DueInv
<1>11. LossWindow'
  <2> SUFFICES ASSUME Faultless'
               PROVE  Len(file') - synced' <= backlog' + writes'
    BY <1>4 DEF LossWindow
  <2>1. Len(file) - synced <= backlog + writes
    BY <1>1, <1>2 DEF LossWindow, Running
  <2>2. Len(file) \in Nat /\ synced \in Nat /\ backlog \in Nat /\ writes \in Nat
    BY IntervalPositive DEF TypeOK, WalTypeOK
  <2> QED
    BY <1>1, <1>2, <1>6, <2>1, <2>2
<1> QED
  BY <1>2, <1>5, <1>8, <1>9, <1>10, <1>11

\* WriteDue: the entry is appended but not applied until it is synced.
LEMMA WriteDueInv ==
  ASSUME WorkerInv, WalInv', WriteDue
  PROVE  WorkerInv'
<1> USE DEF WorkerInv, WriteDue, ghosts
<1>1. req[cur] \in Entry
  BY DEF CurInv
<1>2. /\ logged' \in Seq(Entry) /\ Len(logged') = Len(logged) + 1
      /\ \A i \in 1..Len(logged) : logged'[i] = logged[i]
      /\ logged'[Len(logged) + 1] = req[cur]
      /\ Len(file') = Len(file) + 1 /\ synced' = synced
      /\ phase = "open" /\ phase' = "open"
      /\ Faultless' => Faultless
      /\ PrefixInv'
  BY <1>1, AppendFacts
<1>3. failed \subseteq 1..Len(logged) /\ Len(logged) \in Nat
  BY DEF TypeOK, WalTypeOK
<1>4. TypeOK'
  BY <1>2, <1>3, IntervalPositive DEF WalInv, TypeOK, connVars
<1>5. TaskInv' /\ CurInv' /\ ConnInv' /\ QueueInv'
  BY <1>2 DEF TypeOK, TaskInv, CurInv, ConnInv, QueueInv, Running, Serving,
     connVars
<1>6. DueInv'
  BY <1>2, <1>3 DEF DueInv, connVars
<1>7. ReplayInv'
  <2>1. Applied' = Applied /\ \A i \in Applied : logged'[i] = logged[i]
    BY <1>2, <1>3 DEF Applied
  <2> QED
    BY <2>1 DEF ReplayInv, LastWrite, Running
<1>8. LossWindow'
  <2>1. /\ writes \in 0..(Interval - 1) /\ Interval \in Nat /\ backlog \in Nat
        /\ Len(file) \in Nat /\ synced \in Nat
    BY IntervalPositive DEF TypeOK, WalTypeOK
  <2>2. Faultless => Len(file) - synced <= backlog + writes
    BY DEF LossWindow, Running
  <2>3. Faultless' => Len(file') - synced' <= backlog' + Interval
    BY <1>2, <2>1, <2>2
  <2> QED
    BY <2>3 DEF LossWindow
<1> QED
  BY <1>2, <1>4, <1>5, <1>6, <1>7, <1>8

\* A failed append leaves a file that is longer by junk, or as it was.
LEMMA AppendErrFacts ==
  ASSUME WorkerInv, NEW r \in Entry, AppendErr(r)
  PROVE  /\ phase = "open" /\ phase' = "open" /\ UNCHANGED <<synced, dropped, history>>
         /\ Faultless' => Faultless /\ Len(file') = Len(file)
         /\ PrefixInv'
<1> USE DEF WorkerInv
<1>1. phase = "open" /\ phase' = "open" /\ UNCHANGED <<synced, dropped, history>>
  BY DEF AppendErr
<1>2. CASE file' = file
  BY <1>1, <1>2 DEF Faultless, NoJunk, PrefixInv, history
<1>3. ASSUME NEW n \in TornLens, file' = Write(file, Junk, n)
      PROVE  /\ Faultless' => Faultless /\ Len(file') = Len(file)
             /\ PrefixInv'
  <2>1. file \in Seq(Chunk) /\ n \in Nat \ {0}
    BY WalAssumption DEF TypeOK, WalTypeOK
  <2>2. Extends(file', file, Junk, n)
    BY <1>3, <2>1, WriteExtends
  <2>3. /\ Len(file') = Len(file) + 1 /\ Len(file) \in Nat
        /\ \A i \in 1..Len(file) : file'[i] = file[i]
        /\ file'[Len(file) + 1].rec = Junk
        /\ DOMAIN file = 1..Len(file) /\ DOMAIN file' = 1..(Len(file) + 1)
    BY <2>1, <2>2 DEF Extends
  <2>4. ~Faultless'
    BY <2>3 DEF Faultless, NoJunk
  <2>5. PrefixInv'
    <3> SUFFICES ASSUME NEW i \in 1..(Len(file) + 1), \A j \in 1..i : file'[j].rec # Junk
                 PROVE  i <= Len(logged) /\ logged[i] = file'[i].rec
      BY <1>1, <2>3 DEF PrefixInv, history
    <3>1. i \in 1..Len(file) /\ \A j \in 1..i : file[j].rec # Junk
      BY <2>3
    <3> QED
      BY <1>1, <2>3, <3>1 DEF PrefixInv
  <2> QED
    BY <2>4, <2>5
<1> QED
  BY <1>1, <1>2, <1>3 DEF AppendErr, Torn

\* WriteFails: the index and the log keep their entries.
LEMMA WriteFailsInv ==
  ASSUME WorkerInv, WalInv', WriteFails
  PROVE  WorkerInv'
<1> USE DEF WorkerInv
<1>1. /\ pc = "append" /\ req[cur] \in Entry /\ AppendErr(req[cur]) /\ Fail
      /\ UNCHANGED <<main_sender, queue, writes, failed, backlog>>
  BY DEF CurInv, WriteFails, ghosts
<1>2. /\ phase = "open" /\ phase' = "open" /\ UNCHANGED <<synced, dropped, history>>
      /\ Faultless' => Faultless /\ Len(file') = Len(file)
      /\ PrefixInv'
  BY <1>1, AppendErrFacts
<1>3. PICK a : a # Nothing /\ Reply(cur, a)
  BY <1>1, FailAnswers
<1>4. memory_index' = memory_index /\ pc' = "recv" /\ cur' = NoOne
  BY <1>1, FailAnswers
<1>5. /\ TaskInv' /\ CurInv' /\ ConnInv' /\ QueueInv'
      /\ conn' \in [Clients -> {"idle", "sending", "waiting", "replying"}]
  BY <1>1, <1>2, <1>3, <1>4, AnsweredInv
<1>6. TypeOK'
  BY <1>1, <1>2, <1>3, <1>4, <1>5 DEF WalInv, TypeOK, Reply, history
<1>7. DueInv'
  BY <1>4 DEF DueInv
<1>8. ReplayInv'
  <2>1. Applied' = Applied /\ logged' = logged
    BY <1>1, <1>2, <1>4 DEF Applied, history
  <2> QED
    BY <1>1, <1>4, <2>1 DEF ReplayInv, LastWrite, Running
<1>9. LossWindow'
  BY <1>1, <1>2, <1>4 DEF LossWindow, Running
<1> QED
  BY <1>2, <1>5, <1>6, <1>7, <1>8, <1>9

\* An fsync, Ok or not, neither makes a fault good nor touches the entries.
LEMMA FsyncFacts ==
  ASSUME WorkerInv, FsyncOk \/ FsyncErr
  PROVE  /\ phase = "open" /\ phase' = "open" /\ file' = file /\ logged' = logged
         /\ Faultless' => Faultless
         /\ FsyncOk /\ Faultless' => synced' = Len(file)
         /\ PrefixInv'
<1> USE DEF WorkerInv
<1>1. phase = "open" /\ phase' = "open" /\ file' = file /\ logged' = logged
  BY DEF FsyncOk, FsyncErr, SyncMedium, SyncFails, history
<1>2. /\ Faultless' => Faultless
      /\ FsyncOk /\ Faultless' => synced' = Len(file)
  BY <1>1 DEF Faultless, NoJunk, FsyncOk, FsyncErr, SyncMedium, SyncFails,
     TypeOK, WalTypeOK
<1> QED
  BY <1>1, <1>2 DEF PrefixInv

\* SyncDue: the last entry of the log is applied.
LEMMA SyncDueInv ==
  ASSUME WorkerInv, WalInv', SyncDue
  PROVE  WorkerInv'
<1> USE DEF WorkerInv
<1>1. /\ pc = "fsync" /\ req[cur] \in Entry /\ FsyncOk /\ Apply /\ backlog' = 0
      /\ UNCHANGED <<main_sender, queue, writes, failed>>
  BY DEF CurInv, SyncDue
<1>2. /\ phase = "open" /\ phase' = "open" /\ file' = file /\ logged' = logged
      /\ Faultless' => synced' = Len(file)
      /\ PrefixInv'
  BY <1>1, FsyncFacts
<1>3. PICK a : a # Nothing /\ Reply(cur, a)
  BY <1>1, ApplyAnswers
<1>4. /\ memory_index' = ReplayInto(memory_index, req[cur])
      /\ pc' = "recv" /\ cur' = NoOne
  BY <1>1, ApplyAnswers
<1>5. /\ TaskInv' /\ CurInv' /\ ConnInv' /\ QueueInv'
      /\ conn' \in [Clients -> {"idle", "sending", "waiting", "replying"}]
  BY <1>1, <1>2, <1>3, <1>4, AnsweredInv
<1> DEFINE n == Len(logged) - 1
<1>6. /\ n \in Nat /\ n + 1 = Len(logged) /\ logged[n + 1] = req[cur]
      /\ Applied \in SUBSET (1..n) /\ Applied' = Applied \cup {n + 1}
  <2>1. /\ failed \subseteq 1..Len(logged) /\ Len(logged) \in Nat /\ Len(logged) > 0
        /\ Len(logged) \notin failed /\ logged[Len(logged)] = req[cur]
    BY <1>1 DEF TypeOK, WalTypeOK, DueInv
  <2> QED
    BY <1>1, <1>2, <1>4, <2>1 DEF Applied
<1>7. memory_index' \in [Keys -> Vals \cup {NoVal}] /\ ReplayInv'
  <2>1. /\ memory_index \in [Keys -> Vals \cup {NoVal}]
        /\ \A k \in Keys : LastWrite(memory_index, logged, Applied, k)
    BY <1>1 DEF TypeOK, ReplayInv, Running
  <2> HIDE DEF n
  <2>2. /\ ReplayInto(memory_index, logged[n + 1]) \in [Keys -> Vals \cup {NoVal}]
        /\ \A k \in Keys : LastWrite(ReplayInto(memory_index, logged[n + 1]),
                                     logged, Applied \cup {n + 1}, k)
    BY <1>1, <1>6, <2>1, ApplyEntry
  <2> QED
    BY <1>2, <1>4, <1>6, <2>2 DEF ReplayInv
<1>8. TypeOK'
  BY <1>1, <1>2, <1>3, <1>4, <1>5, <1>7 DEF WalInv, TypeOK, Reply
<1>9. DueInv'
  BY <1>4 DEF DueInv
<1>10. LossWindow'
  BY <1>1, <1>2, <1>4, IntervalPositive DEF LossWindow, TypeOK, WalTypeOK
<1> QED
  BY <1>2, <1>5, <1>7, <1>8, <1>9, <1>10

\* SyncDueFails: the last entry of the log joins those that are not applied.
LEMMA SyncDueFailsInv ==
  ASSUME WorkerInv, WalInv', SyncDueFails
  PROVE  WorkerInv'
<1> USE DEF WorkerInv
<1>1. /\ pc = "fsync" /\ FsyncErr /\ Fail
      /\ failed' = failed \cup {Len(logged)} /\ backlog' = Len(file') - synced'
      /\ UNCHANGED <<main_sender, queue, writes>>
  BY DEF SyncDueFails
<1>2. /\ phase = "open" /\ phase' = "open" /\ file' = file /\ logged' = logged
      /\ PrefixInv'
  BY <1>1, FsyncFacts
<1>3. PICK a : a # Nothing /\ Reply(cur, a)
  BY <1>1, FailAnswers
<1>4. memory_index' = memory_index /\ pc' = "recv" /\ cur' = NoOne
  BY <1>1, FailAnswers
<1>5. /\ TaskInv' /\ CurInv' /\ ConnInv' /\ QueueInv'
      /\ conn' \in [Clients -> {"idle", "sending", "waiting", "replying"}]
  BY <1>1, <1>2, <1>3, <1>4, AnsweredInv
<1>6. /\ Len(logged) \in Nat /\ Len(logged) > 0
      /\ backlog' \in Nat /\ Len(file') \in Nat /\ synced' \in Nat
  <2>1. Len(logged) \in Nat /\ Len(logged) > 0
    BY <1>1 DEF DueInv, TypeOK, WalTypeOK
  <2>2. Len(file') \in Nat /\ synced' \in 0..Len(file')
    BY DEF WalInv, WalTypeOK
  <2> QED
    BY <1>1, <2>1, <2>2
<1>7. TypeOK'
  <2>1. req' = req
    BY <1>3 DEF Reply
  <2>2. failed \subseteq 1..Len(logged) /\ Len(logged) \in 1..Len(logged)
    BY <1>6 DEF TypeOK
  <2>3. failed' \subseteq 1..Len(logged')
    BY <1>1, <1>2, <2>2
  <2> QED
    BY <1>1, <1>4, <1>5, <1>6, <2>1, <2>3 DEF WalInv, TypeOK
<1>8. DueInv'
  BY <1>4 DEF DueInv
<1>9. ReplayInv'
  <2>1. Applied' = Applied
    BY <1>1, <1>2, <1>4 DEF Applied
  <2> QED
    BY <1>1, <1>2, <1>4, <2>1 DEF ReplayInv, LastWrite, Running
<1>10. LossWindow'
  BY <1>1, <1>4, <1>6, IntervalPositive DEF LossWindow, TypeOK
<1> QED
  BY <1>2, <1>5, <1>7, <1>8, <1>9, <1>10

\* FinalSync: nobody is there any more, and the index is not touched.
LEMMA FinalSyncInv ==
  ASSUME WorkerInv, WalInv', FinalSync
  PROVE  WorkerInv'
<1> USE DEF WorkerInv
<1>1. /\ pc = "final" /\ pc' = "exited"
      /\ \/ FsyncOk /\ backlog' = 0
         \/ FsyncErr /\ backlog' = Len(file') - synced'
      /\ UNCHANGED <<main_sender, queue, cur, writes, memory_index, conn, req, rsp, failed>>
  BY DEF FinalSync, connVars
<1>2. /\ phase = "open" /\ phase' = "open" /\ file' = file /\ logged' = logged
      /\ FsyncOk /\ Faultless' => synced' = Len(file)
      /\ PrefixInv'
  BY <1>1, FsyncFacts
<1>3. backlog' \in Nat /\ Len(file') \in Nat /\ synced' \in Nat
  BY <1>1 DEF WalInv, WalTypeOK
<1>4. TypeOK'
  BY <1>1, <1>2, <1>3 DEF WalInv, TypeOK
<1>5. TaskInv' /\ CurInv' /\ ConnInv' /\ QueueInv'
  BY <1>1, <1>2 DEF TypeOK, TaskInv, CurInv, ConnInv, QueueInv, Running,
     Serving
<1>6. DueInv' /\ ReplayInv'
  BY <1>1, <1>2 DEF DueInv, ReplayInv, Applied, LastWrite, Running
<1>7. LossWindow'
  BY <1>1, <1>2, <1>3 DEF LossWindow
<1> QED
  BY <1>2, <1>4, <1>5, <1>6, <1>7

\* Return: the log is closed and the index gone.
LEMMA ReturnInv ==
  ASSUME WorkerInv, WalInv', Return
  PROVE  WorkerInv'
<1> USE DEF WorkerInv
<1>1. /\ pc = "exited" /\ pc' = "off" /\ phase' = "down" /\ logged' = <<>>
      /\ memory_index' = NoIndex /\ failed' = {} /\ backlog' = 0
      /\ UNCHANGED <<main_sender, queue, cur, writes, conn, req, rsp>>
  BY DEF Return, Close, Forget, connVars
<1>2. TypeOK'
  BY <1>1 DEF WalInv, TypeOK, NoIndex
<1>3. TaskInv' /\ CurInv' /\ ConnInv' /\ QueueInv'
  BY <1>1 DEF TypeOK, TaskInv, CurInv, ConnInv, QueueInv, Running, Serving
<1>4. DueInv' /\ ReplayInv' /\ PrefixInv' /\ LossWindow'
  BY <1>1 DEF DueInv, ReplayInv, PrefixInv, LossWindow, Running
<1> QED
  BY <1>2, <1>3, <1>4

\* Die: nothing but the file is left.
LEMMA DieInv ==
  ASSUME WorkerInv, WalInv', Die
  PROVE  WorkerInv'
<1> USE DEF WorkerInv
<1>1. phase' = "down" /\ logged' = <<>> /\ LoseMemory
  BY DEF Die, Crash, PowerLoss, Forget
<1>2. TypeOK'
  <2>1. /\ queue' \in Seq(Clients) /\ Len(queue') <= MaxQueueSize
        /\ writes' \in 0..(Interval - 1) /\ failed' \subseteq 1..Len(logged')
    BY <1>1, IntervalPositive, WorkerAssumption DEF LoseMemory
  <2>2. /\ conn' \in [Clients -> {"idle", "sending", "waiting", "replying"}]
        /\ req' \in [Clients -> Entry \cup Reads \cup {Nothing}]
        /\ memory_index' \in [Keys -> Vals \cup {NoVal}]
    BY <1>1 DEF LoseMemory, NoIndex
  <2> QED
    BY <1>1, <2>1, <2>2 DEF WalInv, TypeOK, LoseMemory
<1>3. TaskInv' /\ CurInv' /\ ConnInv' /\ QueueInv'
  BY <1>1, WorkerAssumption DEF TaskInv, CurInv, ConnInv, QueueInv, Running,
     Serving, LoseMemory
<1>4. DueInv' /\ ReplayInv' /\ PrefixInv' /\ LossWindow'
  BY <1>1 DEF DueInv, ReplayInv, PrefixInv, LossWindow, Running, LoseMemory
<1> QED
  BY <1>2, <1>3, <1>4

-----------------------------------------------------------------------------
(* The invariants of the specification. *)

\* The database starts with an empty file and no worker.
LEMMA WorkerInit == Init => WorkerInv
<1> SUFFICES ASSUME Init PROVE WorkerInv
  OBVIOUS
<1>1. WalInv
  BY InitInv DEF Init
<1>2. TypeOK
  <2>1. /\ queue \in Seq(Clients) /\ Len(queue) <= MaxQueueSize
        /\ writes \in 0..(Interval - 1) /\ failed \subseteq 1..Len(logged)
    BY IntervalPositive, WorkerAssumption DEF Init
  <2> QED
    BY <1>1, <2>1 DEF WalInv, TypeOK, Init, NoIndex
<1>3. TaskInv /\ CurInv /\ ConnInv /\ QueueInv
  BY WorkerAssumption DEF TaskInv, CurInv, ConnInv, QueueInv, Running, Serving,
     Init, WalInit
<1>4. DueInv /\ ReplayInv /\ PrefixInv /\ LossWindow
  BY DEF DueInv, ReplayInv, PrefixInv, LossWindow, Running, Init, WalInit
<1> QED
  BY <1>1, <1>2, <1>3, <1>4 DEF WorkerInv

\* Every step keeps the invariant.
LEMMA WorkerNext == WorkerInv /\ [Next]_vars => WorkerInv'
<1> SUFFICES ASSUME WorkerInv, [Next]_vars PROVE WorkerInv'
  OBVIOUS
<1>1. WalInv'
  BY StepsOfWal, NextKeeps DEF WorkerInv
<1>2. CASE Recover \/ Start \/ DropMainSender \/ Die
  BY <1>1, <1>2, RecoverInv, StartInv, DropMainSenderInv, DieInv
<1>3. ASSUME NEW c \in Clients,
             (\E q \in Entry \cup Reads : GetHandle(c, q)) \/ Send(c) \/ Done(c)
      PROVE  WorkerInv'
  BY <1>1, <1>3, GetHandleInv, SendInv, DoneInv
<1>4. CASE WorkerStep
  BY <1>1, <1>4, ExecuteReadInv, TakeWriteInv, WriteUnsyncedInv, WriteDueInv,
     WriteFailsInv, SyncDueInv, SyncDueFailsInv, LastSenderGoneInv,
     FinalSyncInv, ReturnInv DEF WorkerStep
<1>5. CASE UNCHANGED vars
  <2> USE <1>5 DEF vars, workerVars, connVars, ghosts, WorkerInv
  <2>1. TypeOK'
    BY <1>1 DEF WalInv, TypeOK, walVars, history
  <2>2. TaskInv' /\ CurInv' /\ ConnInv' /\ QueueInv'
    BY DEF TaskInv, CurInv, ConnInv, QueueInv, Running, Serving, walVars
  <2>3. LogInv'
    BY SameLog
  <2> QED
    BY <1>1, <2>1, <2>2, <2>3 DEF LogInv
<1> QED
  BY <1>2, <1>3, <1>4, <1>5 DEF Next

\* The inductive invariant of the worker and its log holds.
THEOREM WorkerInvariant == Spec => []WorkerInv
<1>1. Init => WorkerInv
  BY WorkerInit
<1>2. WorkerInv /\ [Next]_vars => WorkerInv'
  BY WorkerNext
<1> QED
  BY <1>1, <1>2, PTL DEF Spec

\* The worker drives its log only through Wal::init, append, fsync and the end
\* of the handle: whatever is proved of WalSpec holds of every database.
THEOREM WorkerUsesWal == Spec => WalSpec
<1>1. Init => WalInit
  BY DEF Init
<1>2. WorkerInv /\ [Next]_vars => [WalNext]_walVars
  BY StepsOfWal
<1> QED
  BY <1>1, <1>2, WorkerInvariant, PTL DEF Spec, WalSpec

\* What the log promises, it promises for every database: a write that an fsync
\* covered before any fault is there after a restart, the index Wal::init builds
\* is the replay of the file, and nothing but what lies behind junk is discarded.
THEOREM DatabaseKeepsLogPromises ==
  Spec => [](SoundPromisesKept /\ RecoveredIndex /\ CleanAfterInit /\ TrackedLength)
            /\ DiscardsOnlyBehindJunk
BY WorkerUsesWal, SoundPromisesSurvive, RecoveryIsReplay, RecoveryCleans,
   LengthIsTracked, DiscardsOnlyJunk, PTL

\* Every variable of the worker, the queue and the connections keeps its type.
THEOREM WorkerTypeCorrect == Spec => []TypeOK
<1>1. WorkerInv => TypeOK
  BY DEF WorkerInv
<1> QED
  BY <1>1, WorkerInvariant, PTL

\* execute_queries syncs often enough: at most interval - 1 answered writes
\* are off the medium, on top of what a failed fsync or the start left there.
THEOREM LossIsBounded == Spec => []LossWindow
<1>1. WorkerInv => LossWindow
  BY DEF WorkerInv
<1> QED
  BY <1>1, WorkerInvariant, PTL

\* Max of a set that has a largest element is that element.
LEMMA MaxIs ==
  ASSUME NEW S \in SUBSET Nat, NEW i \in S, \A j \in S : j <= i
  PROVE  Max(S) = i
<1>1. \E x \in S : \A y \in S : x >= y
  OBVIOUS
<1>2. Max(S) \in S /\ \A y \in S : Max(S) >= y
  BY <1>1 DEF Max
<1>3. Max(S) \in Nat /\ i \in Nat /\ Max(S) >= i /\ Max(S) <= i
  BY <1>2
<1> QED
  BY <1>3

\* The index GET and INFO are answered from is the replay of the log, less the
\* entries whose fsync is due or has failed.
THEOREM IndexReplaysLog == Spec => []IndexIsReplay
<1>1. WorkerInv => IndexIsReplay
  <2> SUFFICES ASSUME WorkerInv, Running, NEW k \in Keys
               PROVE  LET on == {i \in Applied : logged[i].key = k} IN
                        IF on = {} THEN memory_index[k] = NoVal
                                   ELSE memory_index[k] = logged[Max(on)].val
    BY DEF IndexIsReplay, Applied
  <2> DEFINE on == {i \in Applied : logged[i].key = k}
  <2>1. LastWrite(memory_index, logged, Applied, k)
    BY DEF WorkerInv, ReplayInv
  <2>2. on \in SUBSET Nat
    BY DEF Applied
  <2>3. CASE on = {}
    BY <2>1, <2>3 DEF LastWrite
  <2>4. CASE on # {}
    <3>1. PICK i \in on : /\ \A j \in on : j <= i
                          /\ memory_index[k] = logged[i].val
      BY <2>1, <2>4 DEF LastWrite
    <3>2. Max(on) = i
      BY <2>2, <3>1, MaxIs
    <3> QED
      BY <2>4, <3>1, <3>2
  <2> QED
    BY <2>3, <2>4
<1> QED
  BY <1>1, WorkerInvariant, PTL

\* Whoever waits for an answer is in the queue once, or is being served, and
\* the worker has not left its loop: no drop strands a query.
THEOREM NoQueryStranded == Spec => []NobodyStranded
<1>1. WorkerInv => NobodyStranded
  <2> SUFFICES ASSUME WorkerInv, NEW c \in Clients, conn[c] = "waiting"
               PROVE  /\ Running /\ pc \notin {"final", "exited"}
                      /\ Cardinality({i \in DOMAIN queue : queue[i] = c})
                           = IF c = cur THEN 0 ELSE 1
    BY DEF NobodyStranded
  <2> USE DEF WorkerInv
  <2>1. Running /\ pc \notin {"final", "exited"}
    BY DEF TaskInv, Serving, Running
  <2>2. CASE c = cur
    <3>1. {i \in DOMAIN queue : queue[i] = c} = {}
      BY <2>2 DEF QueueInv
    <3> QED
      BY <2>1, <2>2, <3>1, FS_EmptySet
  <2>3. CASE c # cur
    <3>1. PICK i \in DOMAIN queue : queue[i] = c
      BY <2>3 DEF QueueInv
    <3>2. {j \in DOMAIN queue : queue[j] = c} = {i}
      BY <3>1 DEF QueueInv
    <3>3. Cardinality({i}) = 1
      BY FS_Singleton
    <3> QED
      BY <2>1, <2>3, <3>2, <3>3
  <2> QED
    BY <2>2, <2>3
<1> QED
  BY <1>1, WorkerInvariant, PTL

-----------------------------------------------------------------------------
(* The worker is the task that Manager relies on. *)

SendersOf == Holders \cup (IF main_sender THEN {NoOne} ELSE {})

\* There is a sender when the map has one or a connection does.
LEMMA SomeSender ==
  /\ SendersOf = {} <=> SendersGone
  /\ SendersOf' = {} <=> SendersGone'
BY DEF SendersOf, SendersGone, Holders

\* Every step is one of WorkerTask's or changes neither state nor holders.
LEMMA StepsOfTask ==
  WorkerInv /\ [Next]_vars => [Task!Next]_(Task!vars)
<1> SUFFICES ASSUME WorkerInv, [Next]_vars PROVE [Task!Next]_(Task!vars)
  OBVIOUS
<1> USE DEF WorkerInv, Task!Next
<1>1. CASE Recover
  BY <1>1 DEF Recover, Task!vars, Holders, workerVars, connVars
<1>2. CASE Start
  <2>1. SendersOf = {} /\ SendersOf' # {}
    BY <1>2, SomeSender DEF Start, SendersGone, Holders, TaskInv, Serving
  <2> QED
    BY <1>2, <2>1 DEF Start, Task!Spawn, SendersOf
<1>3. CASE DropMainSender
  BY <1>3 DEF DropMainSender, Task!CloneOrDrop, TaskInv, Serving, workerVars
<1>4. ASSUME NEW c \in Clients,
             (\E q \in Entry \cup Reads : GetHandle(c, q)) \/ Send(c) \/ Done(c)
      PROVE  Task!CloneOrDrop
  <2>1. Serving /\ pc' = pc /\ SendersOf # {}
    BY <1>4, SomeSender DEF GetHandle, Send, Done, TaskInv, SendersGone,
       Holders, workerVars
  <2> QED
    BY <2>1 DEF Task!CloneOrDrop, SendersOf, Serving
<1>5. CASE ExecuteRead \/ TakeWrite
  <2>1. Serving /\ pc' \in {"recv", "append"} /\ SendersOf # {}
    <3>1. pc = "recv" /\ queue # <<>>
      BY <1>5 DEF ExecuteRead, TakeWrite, Ready
    <3>2. Head(queue) \in Clients /\ conn[Head(queue)] = "waiting"
      BY <3>1 DEF QueueInv, TypeOK
    <3> QED
      BY <1>5, <3>1, <3>2, SomeSender DEF ExecuteRead, TakeWrite, Serving,
         SendersGone, Holders
  <2> QED
    BY <2>1 DEF Task!CloneOrDrop, SendersOf, Serving
<1>6. CASE WriteUnsynced \/ WriteDue \/ WriteFails \/ SyncDue \/ SyncDueFails
  <2>1. Serving /\ pc' \in {"recv", "fsync"} /\ SendersOf # {}
    <3>1. pc \in {"append", "fsync"} /\ pc' \in {"recv", "fsync"}
      BY <1>6 DEF WriteUnsynced, WriteDue, WriteFails, SyncDue, SyncDueFails,
         Apply, Fail
    <3> QED
      BY <3>1, SomeSender DEF CurInv, Serving, SendersGone, Holders
  <2> QED
    BY <2>1 DEF Task!CloneOrDrop, SendersOf, Serving
<1>7. CASE LastSenderGone
  BY <1>7 DEF LastSenderGone, Task!vars, Holders, connVars
<1>8. CASE FinalSync
  <2>1. SendersOf = {} /\ SendersOf' = {}
    BY <1>8, SomeSender DEF FinalSync, SendersGone, Holders, TaskInv, Serving,
       connVars
  <2> QED
    BY <1>8, <2>1 DEF FinalSync, Task!Exit, SendersOf
<1>9. CASE Return
  BY <1>9 DEF Return, Task!Return, Holders, connVars
<1>10. CASE Die
  BY <1>10 DEF Die, LoseMemory, Task!ProcessEnds, Holders
<1>11. CASE UNCHANGED vars
  BY <1>11 DEF vars, Task!vars, Holders, workerVars, connVars
<1> QED
  BY <1>1, <1>2, <1>3, <1>4, <1>5, <1>6, <1>7, <1>8, <1>9, <1>10, <1>11 DEF
     Next, WorkerStep

\* execute_queries lives the life of a WorkerTask: what Manager assumes of the
\* worker of each database is what Worker does.
THEOREM WorkerIsTask == Spec => IsWorkerTask
<1>1. Init => Task!Init
  BY DEF Init, Task!Init, Holders
<1>2. WorkerInv /\ [Next]_vars => [Task!Next]_(Task!vars)
  BY StepsOfTask
<1> QED
  BY <1>1, <1>2, WorkerInvariant, PTL DEF Spec, IsWorkerTask, Task!Spec
=============================================================================
