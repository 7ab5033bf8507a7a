# mini-db: TLA+ models, checks and proofs

mini-db is an asynchronous key-value server in Rust: several databases, each a
write-ahead log (WAL) and an in-memory index owned by one worker task, queried
over TCP. This directory models the server, its client and its
benchmark, checks the models with TLC on small instances and proves their safety
properties and refinements with TLAPS for all instances.

## The system

| Component | State | Operations | Talks to |
|---|---|---|---|
| WAL (`src/wal.rs`) | the file; `file_len`, `entry_count` | `init` (scan, truncate, sync), `append`, `fsync` | owned by one worker; the file system |
| Worker (`src/worker.rs`) | `memory_index`, `writes_executed`, its WAL | `execute_queries`: INFO, GET, SET, DELETE, final fsync | bounded mpsc queue in, one oneshot per query out, a `Notify` at the end |
| Manager (`src/manager.rs`) | `db_map` (copy-on-write), `write_lock`, the WAL directory | `init`, `create_db`, `drop_db`, `get_db_handle`, `shutdown_all_workers` | spawns workers; waits for their `Notify` |
| Server loop (`src/bin/main.rs`) | `active_connections` | accept, signal, drain, shutdown | one task per connection |
| Connection (`handle_client`) | one request at a time | read, validate, look up, send, wait, answer | manager, worker, socket |
| Protocol (`src/protocol.rs`) | none | request and response framing | client and server |
| Client (`src/bin/client.rs`) | `current_db`, one request at a time | USE, nine requests, print the answer | server, over TCP |
| Benchmark (`bench/bench.rs`) | its clients, a barrier, the samples | prefill, warm-up, measured run, report | server, over TCP |
| Logging (`src/log.rs`) | `LOG_LEVEL` | `println!`, which panics without a reader | called by all of the server |

What is hard about it:

* **Failure.** A write can stop halfway, an fsync can fail and even lose pages,
  the process or the machine can die at any step, recovery included.
* **Concurrency.** Connections look handles up without a lock while databases
  are created and dropped; a worker lives as long as any clone of its sender.
* **Waiting.** `drop_db` waits for the worker with the lock held, the worker for
  connections, a connection for its client; shutdown waits for all of them.
* **Framing.** Fields are read as they arrive, lengths are what the other side
  claims, refusals leave unread bytes, either side may vanish inside a frame.
* **Signals and panics.** A signal may find no listener, a panic skips the code
  behind it.
* **Lost notifications, stale copies.** The exit notice may come before anyone
  waits for it; `create_db` stores a copy of the map it took earlier.

`PROJECT.json` lists every such point under `hazards`, with the properties that
would catch it.

## Modules

| Module | Models | Uses |
|---|---|---|
| `Wal` | `wal.rs` and the file system | |
| `Worker` | `worker.rs` with its queue and connections | extends `Wal`, conjoins its actions with Wal's |
| `KVStore` | nothing: what a client may rely on | |
| `WorkerTask` | nothing: what the manager relies on | |
| `WorkerRefinement` | that `Worker` implements both | extends `Worker` |
| `Manager` | `manager.rs`, startup, drain, shutdown | instantiates `WorkerTask` |
| `Connection` | `handle_client`, `protocol.rs`, `client.rs` | |
| `Server` | `run_server`, `ctrl_c_handler`, `log.rs` | |
| `Bench` | `bench.rs` | |
| `WalProofs`, `ServerProofs`, `ManagerProofs`, `ConnectionProofs`, `BenchProofs` | proofs about the module they are named after | extend it |
| `WorkerProofs` | proofs about `Worker`, alone and as a `WorkerTask` | extends `WorkerRefinement`, `WalProofs` |
| `StoreProofs` | the proof that `Worker` implements `KVStore` | extends `WorkerProofs` |
| `InfoProofs` | proofs about the sums of INFO | extends `WorkerProofs` |

The modules meet where the code does. `Manager` and `Worker` meet in
`WorkerTask`: `Worker` is shown to be one (`IsWorkerTask`), `Manager` to treat
every worker as one (`WorkersAreTasks`). `Connection` takes the answers of
databases as a choice; which one is given is `Worker`'s and `Manager`'s
business. That a query is answered is `QueriesAnswered`; that a create or a drop
returns holds only if other clients read (`AdminEnds`), so that `Connection` does
not assume it. `Server` takes a connection as something that ends; `TasksEnd`,
`QueriesAnswered` and `AdminEnds` say when it does.

`MC*` modules give constants their values. Operators marked `mutant` are wrong
versions of the definition below them: each is listed in `PROJECT.json` with the
property that notices the difference.

### Wal

A file is a sequence of *chunks*, each a valid entry or `Junk` (whatever makes
the scan stop: a short header, a bad op, a length past the end, a wrong CRC) with
the byte offset of its end. `synced` chunks are on the medium; `dropped` says
that the kernel forgot dirty pages after a failed fsync. `phase` is the position
in `Wal::init`; `file_len` and `entry_count` are the handle's fields, and the
scan's locals while it runs.

| Action | Code |
|---|---|
| `Open`, `ScanEntry`, `ScanStop`, `SetLen`, `SyncTruncated`, `InitReturn`, `InitErr` | `Wal::init`, one step per effect that a crash can separate |
| `AppendOk`, `AppendErr` | `Wal::append`; the error may leave some of the bytes |
| `FsyncOk`, `FsyncErr`, `Close` | `Wal::fsync`, dropping the handle |
| `Crash`, `PowerLoss` | the process dies, perhaps mid-write; the machine dies and keeps the synced chunks, perhaps more, perhaps junk behind them |

`logged`, `promised` and `sound` are history variables: the entries of the
handle, what the last `Ok` fsync covered, and how much of it was covered while
the file had no fault.

Checks of arguments in `append` (op, empty key, DELETE with a value) cannot fail
for the requests the server makes and are represented by the set `Entry`.

### Worker

One worker, its WAL and a few connections. A task's steps are cut at its
`await`s: `TakeWrite`, then `WriteUnsynced`, `WriteDue` or `WriteFails` (append),
then `SyncDue` or `SyncDueFails` (fsync). Reads and INFO are answered in the step
that receives them. A connection holds its clone of the sender from `GetHandle`
to `Done`; `Done` is the remote end's: it happens when the client has read, or
the kernel's buffers have room for the answer, which the model leaves open.
`LastSenderGone`, `FinalSync` and `Return` are the end of the task; `Return`
comes after the notification, as in the code. `Die` is a crash or power loss.

`U32Max` stands for `u32::MAX`, so that the saturation of the INFO sizes happens
on small sizes. Histories: `failed` (log positions whose fsync was answered with
an error) and `backlog` (what was unsynced at start or at a failed fsync).

### Manager

All databases of a server, the connections' administrative requests, startup and
shutdown. Files are inodes, because a removed file that is still open is not the
file created after it. `snap` is `create_db`'s clone of the map, which is taken
under the lock, lives across `Wal::init` and holds a sender of every database.
`drop_db` is `DropUnmap`, `DropNotified`, `DropRemove`, with the lock held
throughout. `remove_file` and `Wal::init` may fail. A `WorkerExit` needs that
nobody references the sender any more; the permit of the `Notify` is the worker's
state `exited` or `returned`, which is kept until it is awaited.

### KVStore, WorkerTask, WorkerRefinement

`KVStore` is the database as a client may think of it: a log of committed writes
and the view they leave. Each query takes effect once, between its call and its
answer; a write answered with `InternalError` has no effect on the view, but may
be in the log and come back at the next start. When the store stops it keeps a
prefix of the log that covers `settled`, or gains a write that was pending.

The mapping: `view` is `memory_index`; `log` is the handle's log without the
entry that waits for its fsync, and, while no process runs, what a scan of the
file would find; `settled` is `sound`, the part an `Ok` fsync covered before any
fault of the file.

`WorkerTask` is the life of a worker task and the set of those who hold a clone
of its sender.

### Connection

One client and one connection task over a byte stream. Every `write_*` of the
client and every `read_*` of the server is a step. A byte has `Base` values
(256 in the code) and a `u32` two bytes instead of four, so that lengths wrap
on small inputs; `len() as u8` is `% Base`. The packets of STATS and INFO are
records with the fields of the code, written and read in its order; the `f64` is
its bits, twice as long as a `u32`. `from_bytes` of too few bytes is `Panicked`.

| Action | Code |
|---|---|
| `Ask`, `Use` | a line of the prompt; CREATE, INFO and DROP check the length of a name, USE and `--db-name` do not |
| `Write`, `ReadResponse`, `IoErr`, `Kill`, `EndOfInput` | `send_*`, `read_response`, the `?`s, the end of the client, the end of its input |
| `ReadField` | the reads of `handle_client`, with the validation that follows the name |
| `Execute` | the request is carried out and answered, or ends the connection with or without an answer |
| `ReadErr`, `CloseSocket` | the client has gone; the socket is dropped, with a reset if bytes are unread |

Refusals close the connection after the answer; errors of `create_db` and
`drop_db`, DROP of an unknown database among them, close it without one.
`sent`, `served` and `got` are histories of requests and answers.

### Server

`run_server` from `DbManager::init`, which like the bind may fail and end it, to
its return. `PollSelect` begins a sleep in
`select!`: it makes the `ctrl_c_handler` of this round, which hears signals from
then on. `Accept` ends the round and drops the listener with what it has heard.
The first poll installs the process-wide handler, after which an unheard signal
does nothing (before, it kills the process). The connection task counts itself
off at its end unless its log line panics, which it does when the level is
printed and standard output is closed. The level is chosen at the start.

### Bench

Clients, the main task, the barrier of `clients + 1`, the joins and the report.
Keys are chosen at random in the code and freely in the model; the latency of a
request is any of a few numbers. `percentile` works with thousandths: the code's
`f64` expression `ceil(q * n)` agrees with the exact value for the five
percentiles it reports and all sample counts tried (128 to 300 000).

## Runs

| Run | Question | Result |
|---|---|---|
| `wal` | What does recovery rebuild and discard, what survives? | holds; 731 220 states |
| `wal_torn_append` | Is everything an `Ok` fsync covered durable? | **violated** |
| `worker` | Is the index the replay of the log; is any query stranded; is INFO coherent; is it all one linearizable store with bounded loss, and the task the manager takes it for? | holds; 991 832 states |
| `worker_loss` | How much can a power loss take? | holds; 1 277 834 states |
| `worker_live` | Is every query answered; does a dropped database drain? | holds; 32 100 states |
| `worker_drop_stalls` | Does dropping the main sender end the worker? | **violated** |
| `manager` | One worker per file, live handles, no lost update, drops for good, clean stop; who waits for whom? | holds; 2 946 878 states |
| `manager_live` | Do creates, drops and shutdown end; are workers used as `WorkerTask`s? | holds; 27 012 states |
| `connection` | Are requests executed exactly as typed and exactly when valid, is every answer the right one and does it arrive, do requests and tasks end if creates and drops return? | holds; 637 370 states |
| `connection_long_name` | Does a query go to the database that was named? | **violated** |
| `server` | Does shutdown overtake a connection; do repeated signals stop the server; does the drain end? | holds; 119 567 states |
| `bench` | Does the benchmark measure what it reports, and end? | holds; 91 635 states |

**`wal_torn_append`.** An append fails after some bytes were written (a full
disk, say); the handle stays in use, the next append lands behind the torn
bytes, its fsync returns `Ok`; the next start stops at the torn bytes and
truncates. The code comments assume that corruption in the middle of a file does
not happen; this makes one. `SoundPromisesKept` is the promise that does hold.

**`worker_drop_stalls`.** The comment in `drop_db` describes the worker leaving
its loop when the main sender is dropped. It leaves when the last clone is
dropped, and connections keep theirs until the answer is on the socket. A client
that stops reading keeps `drop_db` waiting, lock in hand. `DrainEnds` and
`AdminEnds` state what must be assumed of clients for it to finish.

**`connection_long_name`.** `USE` and `--db-name` take names of any length, and
the length byte of GET, SET and DELETE wraps: a name of 257 bytes is announced as
one byte long. The server reads the first byte as the name and the rest of it as
the key, and executes the query there.

Two more things the models made plain and no run is spent on. One signal alone
need not stop the server: it is lost when it comes between two rounds of
`select!` or together with a connection, which is why `RepeatedSignalStops` is
about repeated ones. And the layout of requests in the repository's README holds
for SET only: the other operations leave out the fields they do not need
(`Writes` and `Fields` in `Connection`).

### Bounds

* `wal`: two keys of different length, one value, files of three chunks, torn
  writes of 1 and of 14 bytes (inside the header, and just short of the smallest
  SET). Three chunks give every order of entry, junk and entry behind junk; a
  longer file repeats them. DELETE and SET of two keys tell replays apart.
* `worker`: two connections, a queue of one (so that senders wait), two keys,
  two chunks, an fsync interval of two: one unsynced and one due write; a failed
  fsync may or may not forget pages.
* `worker_loss`: one connection, four chunks: two full intervals, so that what a
  restart or a failed fsync leaves adds up with new writes.
* `worker_live`: as `worker` with one key. `MaxEntries` is enforced where a
  connection takes a write, so that it never blocks the worker.
* `manager`: three names (two concurrent creates beside the default database),
  two connections, three workers and three files at a time. `manager_live`: two
  of each.
* `connection`: a byte of eleven values: nine operation codes, a letter, and a
  byte that is neither. Names empty, of the limit (2), one above it, of the
  greatest length a byte can announce, and one with a bad byte; keys and values
  empty, of the limit (1) and above; three requests, the first of which is the
  PING the client sends on its own. What a request leaves behind shows in the
  next one, what that one makes of it in the third. `connection_long_name` adds a
  name of `Base + 1`.
* `server`: four clients and the log levels trace, debug, info and error; a task
  for each way to end and one that panics.
* `bench`: three clients (and main) at the barrier, five operations and two of
  warm-up, neither divisible by three, three latencies, two keys.
* Symmetry is used on connections, and only in runs without liveness.

An interval of 0 (treated as 1) is covered by the proofs, which assume
`FsyncInterval \in Nat`, and is not a run of its own.

### Fairness

* `Wal`: weak fairness of the steps of `Wal::init`, straight-line code on a finite
  file.
* `Worker`: weak fairness of the worker task (tokio runs what can run) and strong
  fairness of `Send`: tokio hands out the permits of a full queue in order.
* `Manager`: weak fairness of workers, of the execution of queries (that is
  `QueriesAnswered` of `Worker`) and of the shutdown; strong fairness of creates
  and drops, since tokio's `Mutex` is served in order.
* `Connection`: weak fairness of the client's writes and reads and of the
  connection task: bytes written arrive. Nothing of the user, and nothing of
  `create_db` and `drop_db` (`Administering`), which wait for the lock and for a
  worker, that is for other clients. That they return again and again
  (`AdminReturns`) is the antecedent of `RequestsEnd` and `TasksEnd`; `AdminEnds` of
  `Manager` says when they do.
* `Server`: weak fairness of the main task and of the connection tasks, and of
  the clients hanging up, which the drain waits for and which also ends every
  create and drop; strong fairness of `Stop`:
  `select!` picks among ready branches at random, so that one that is ready again
  and again is picked. `RepeatedSignalStops` has the operator's persistence,
  `WF_vars(Signal)`, as its antecedent.
* `Bench`: weak fairness of main and of the tasks; requests are answered or fail.
* Otherwise never assumed: that a client reads, hangs up or sends anything. Where
  a property needs it, it is its antecedent (`DrainEnds`, `AdminEnds`, `ShutdownEnds`, and
  through `AdminReturns` `RequestsEnd` and `TasksEnd`).

## Proofs

Every theorem holds for all values of the constants that satisfy the assumption
of its module, the bounds of the runs among them. Each inductive invariant was
checked by TLC on the instance of the component's run before it was proved. The
proofs have one lemma per action, or per family of actions that disturb the same
conjuncts; the last step combines them with `PTL`.

### The log

`WalProofs` proves for all keys, values, lengths, files and faults:

| Theorem | Statement |
|---|---|
| `WalTypeCorrect` | `WalSpec => []WalTypeOK` |
| `RecoveryIsReplay` | `WalSpec => []RecoveredIndex` |
| `RecoveryCleans` | `WalSpec => []CleanAfterInit` |
| `LengthIsTracked` | `WalSpec => []TrackedLength` |
| `SoundPromisesSurvive` | `WalSpec => []SoundPromisesKept` |
| `DiscardsOnlyJunk` | `WalSpec => DiscardsOnlyBehindJunk` |

All rest on one inductive invariant, `WalInv`, and on `WalAssumption` (entries
and junk differ, keys are not empty, torn writes leave at least a byte).

* `Contiguous(file)`: chunks lie end to end and an entry has its encoded length.
  Without it the scan's offset says nothing about chunks. Its order is stated for
  every pair of chunks, since going from neighbours to pairs needs induction.
* `ScanInv`: what the scan knows: offset and count agree, all scanned chunks are
  entries, the index is their replay; before a cut, the next chunk is junk.
* `OpenInv`: while there is no junk, file, fields and `logged` agree; once there
  is, the file is longer than `file_len` for good.
* `MediumInv`: the sound promises are on the medium, at the front of the file.
  Crashes and power losses keep that front; `SetLen` cuts at junk, a promise is an
  entry, so the cut lies behind all of them.

One lemma per action shows that it keeps `WalInv`; `ForgetInv` serves all the
actions that end the process.

### The drain

`ServerProofs` proves for every finite set of clients and all log levels:

| Theorem | Statement |
|---|---|
| `CountIsRight` | `Spec => []ServerInv` |
| `ServerTypeCorrect` | `Spec => []TypeOK`, with `active_connections` between zero and the clients |
| `ShutdownOvertakesNobody` | `Spec => []DrainIsComplete` |

`DrainIsComplete` alone is not inductive: that nobody is left follows from a
count of zero only if the count is right. `CountInv` says that it is the number
of tasks that live or have panicked, until the process ends, and that there are
none once the drain is over. `OneMore` and `OneLess` are the steps of the count;
the only assumption used is that the clients are finitely many.

### The manager

`ManagerProofs` proves for every finite set of connections and all sets of names,
workers and files:

| Theorem | Statement |
|---|---|
| `ManagerInvariant` | `Spec => []ManagerInv` |
| `ManagerTypeCorrect` | `Spec => []TypeOK` |
| `OneWriterPerFile` | `Spec => []SingleOwner` |
| `MapIsLive` | `Spec => []HandlesAreLive` |
| `DropsAreFinal` | `Spec => []DroppedIsGone` |
| `ShutdownIsClean` | `Spec => []StoppedClean` |
| `UpdatesAreNotLost` | `Spec => NoLostUpdate` |
| `CreatedAreEmpty` | `Spec => CreatedEmpty` |
| `WorkersLiveAsTasks` | `Spec => WorkersAreTasks` |
| `NoCircularWait` | `Spec => []WaitsForClientsOnly` |

`SingleOwner` is not inductive: a create opens the file of a name that is not in
the map, and only the history of that name says that nobody writes to it.
`ManagerInv` says it with the present state:

* `LockInv`: a connection between the lock and its release has it, and has a name.
* `SnapInv`: `create_db`'s copy is the map itself as long as it is held. This is
  what the lock is for, and all that `NoLostUpdate` needs.
* `OwnedInv`: a running worker is in the map, or is being dropped by somebody who
  waits for it while its file is still in the directory, or is being stopped. With
  the lock free, a name without an entry has no writer.
* `UsingInv`: a connection that uses a worker keeps it running; whoever removes a
  file has seen its worker end.
* `DirInv`, `EmptyInv`: files belong to one name; a file with entries whose name
  is not in the map is one whose drop is under way or has failed.
* `ServerInv`: what the phases of `run_server` leave behind.

`WaitsForClientsOnly` is the safety in `AdminEnds` and `ShutdownEnds`: the worker
that `drop_db` awaits, lock in hand, is in the map under no name and in no clone
of the map; the workers that `shutdown_all_workers` awaits are referred to by
nobody; a connection with a query finds its worker running. So only clients that
do not read can hold up the lock. It needs one more invariant, `UnmappedInv`,
which rests on the map being injective: a worker has one file and a file one name.

`TypeOK` of `Manager` is proved and not checked by a run. That the connections
are finitely many is used once: a shutdown whose connections have all closed.

### The worker

`WorkerProofs` proves for all clients, keys and values, queue sizes, fsync
intervals (0 included) and faults:

| Theorem | Statement |
|---|---|
| `WorkerInvariant` | `Spec => []WorkerInv` |
| `WorkerUsesWal` | `Spec => WalSpec` |
| `DatabaseKeepsLogPromises` | `Spec =>` the five properties of the log (`SoundPromisesKept`, ...) |
| `WorkerTypeCorrect` | `Spec => []TypeOK` |
| `IndexReplaysLog` | `Spec => []IndexIsReplay` |
| `LossIsBounded` | `Spec => []LossWindow` |
| `NoQueryStranded` | `Spec => []NobodyStranded` |
| `WorkerIsTask` | `Spec => IsWorkerTask` |

`WorkerUsesWal` carries the theorems about the log over to every database, which
`DatabaseKeepsLogPromises` does.
`WorkerInv` is `WalInv` and:

* `TaskInv`: the log is open exactly while the task runs, and whoever has a
  sender finds it serving. `CurInv`, `ConnInv`, `QueueInv`: who waits is queued
  once or being served, and has a query; nobody else is in the queue.
* `DueInv`: the entry whose fsync is due is the last of the log, not yet refused.
* `ReplayInv`: `IndexIsReplay` with the last write of a key as a quantified fact
  instead of `Max` of a set, which the provers follow from one append to the next.
* `PrefixInv`: the chunks in front of any junk are the first entries of the log.
  `StoreProofs` needs it: it ties what a later scan finds to what was answered.

### The store

`StoreProofs` proves `WorkerImplementsStore`, `Spec => ImplementsKVStore`: with
the mapping of `WorkerRefinement` every step of the worker, of its log, of its
clients and of the machine is a step of `KVStore` or changes nothing it shows.
Calls, answers and writes are direct, given `WorkerInv`. The ends of a worker
carry the argument (`StopsWithPrefix`): what a scan of the file will find has to
be a prefix of the store's log, perhaps with one pending write behind it, that
covers what has settled. `ScanStops` and `ScanLengthIs` say where a scan stops: at
the first junk, which exists because a set of naturals has a least element
(`LeastNatural`, from the library's `NatLessThanWellFounded` and `WFMin`).
`RecoverStep` and `StartStep` show that recovery keeps what the scan finds and
that the index it builds is the view of that log. No assumption is added to those
of `Wal` and `Worker`.

`SettledForGood`, `Spec => [][KeepsSettled]_vars`, is what the refinement means
for a write that has settled: no step of the worker, its clients or the machine
moves it, removes it from what the next recovery finds, or puts anything in front
of it. It follows from the steps of `KVStore` alone, with `SettledInv` (the settled
writes are part of the log) as invariant.

### INFO

`InfoProofs` proves `InfoIsCoherent`, `Spec => []InfoCoherent`, for every index.
Minimum and maximum are direct; mean and size in memory are sums, `MapThenSumSet`
of the community modules, which is a recursive function chosen by its equation.
The library's induction rules cannot be used, so the argument is this:

* `SetInduction`: a set of numbers with 0 in it and with the successor of each of
  its members is `Nat`. It has no predicate to instantiate; each use gives the
  set of sizes for which the claim holds. It rests on `LeastNatural`.
* `SumsExist`: for every finite set the equation of the sum has a solution, by
  induction on its size. Without this nothing could be said of a sum, `CHOOSE` of
  an equation without a solution being anything.
* `SumsBounded`, `SumsMonotone`: a solution lies between the number of keys times
  the least and times the greatest size, and smaller sizes have a smaller sum.
  `MeanBetween` divides; `PacketCoherent` puts the packet together.
* `PresentIsFinite`: a running worker's index has finitely many keys although
  `Keys` may be infinite, since by `ReplayInv` each has an entry in the log.

### The benchmark

`BenchProofs` proves for every number of clients and operations and all latencies:

| Theorem | Statement |
|---|---|
| `PercentileIsNearestRank` | `percentile(s, q) = NearestRank(s, q)` for every ascending, nonempty list and every thousandth `q` |
| `BenchInvariant` | `Spec => []BenchInv` |
| `MeasuredAtOnce` | `Spec => []MeasuredTogether` |
| `ReportIsExact` | `Spec => []ReportExact` |

`PhaseInv` says where clients can be while main is where it is, and who waits at
the barrier: it is full only when everybody waits, by cardinality. `SampleInv`
gives a client one sample for each operation done. `JoinInv` counts what has been
joined: the sum of the shares of a set of clients is stated with two
cardinalities (`Share`), so that adding a client needs no induction over a sum.
The sort is any ascending list with the same number of each sample (`Sortings`).

### The connection

`ConnectionProofs` proves for every alphabet, all limits and all names, keys and
values:

| Theorem | Statement |
|---|---|
| `PacketRoundTrip` | `StatsFromBytes(StatsToBytes(p)) = p` for every `StatsPacket`, `InfoFromBytes(InfoToBytes(p)) = p` for every `InfoPacket` |
| `ConnectionShape` | `Spec => []ShapeInv` |
| `ConnectionTypeCorrect` | `Spec => []TypeOK` |
| `ReadsAreBounded` | `Spec => []BoundedReads` |
| `ConnectionInvariant` | `Spec => []FittingInv` |
| `ExactUntilOverlong` | `Spec => [](FitSoFar => ExecutedAsAsked /\ AnswersMatch)` |
| `NoMutualWait` | `Spec => [](FitSoFar => NeverBothWait)` |

and, if `LengthsFit`,

| Theorem | Statement |
|---|---|
| `RequestsAreExecutedAsAsked` | `Spec => []ExecutedAsAsked` |
| `AnswersArriveUnchanged` | `Spec => []AnswersMatch` |
| `NoAnswerIsLost` | `Spec => ExecutedAnswersArrive` |

`FitSoFar` says of a state that the request being made and all before it have
names shorter than `Base` and keys and values shorter than a `u32` can say.
`LengthsFit` says the same of everything that can be typed, and makes `FitSoFar`
an invariant (`FitsAlways`). Neither is an assumption of the model, because the
client does not ensure it: `connection_long_name` is the counterexample. So the
guarantee is exact up to the first request that does not fit, and
`ExactUntilOverlong` says that such a request spoils nothing before it. The first
four theorems need no such thing: the server is safe from lengths that lie.

`NeverBothWait` is the safety in `RequestsEnd`: if the client awaits its answer
and the task reads, the answer is in the stream whole, or the request has been
read, or the bytes of the field that `read_exact` waits for have arrived.

`ConnectionAssumption` has of the constants what the code has: a byte can hold an
operation, a name of the greatest length (64) fits its length byte and a value of
the greatest size (24 MiB) its `u32`, what is typed consists of bytes, and the
numbers in a packet are `u32`s (and the bits of an `f64`).

* `ShapeInv` (`ClientInv`, `StreamTypes`, `FrameInv`): which fields of a frame
  have been read when others are still to do, and that name, key and value are
  only read after the lengths were found valid.
* `PendingInv`: before the answer, what is in the stream and what the client has
  still to write are together exactly what the server has still to read of this
  request. No cut between writes and reads can move a byte from one field into
  the next.
* `AnsweredInv`: after it, the stream to the client holds that answer and nothing
  else; if the request was executed nothing unread is left behind it, so that
  closing the socket does not reset the connection.
* `RequestInv`: the request last written is the one last asked for, and fits.
* `FittingInv`: the shape always, the conversation while `FitSoFar`. That is
  inductive because requests are only added to the history: with `AskedInv`, a
  state that fits so far comes after states that did (`FitBefore`).

### Left to TLC

* Liveness, since fairness and `ENABLED` are beyond the prover: `RecoveryEnds`,
  `QueriesAnswered`, `DrainEnds`, `AdminEnds`, `ShutdownEnds`, `RequestsEnd`,
  `TasksEnd`, `RepeatedSignalStops`, `ServerDrains`, `BenchEnds`.
* The three disagreements (`wal_torn_append`, `worker_drop_stalls`,
  `connection_long_name`), which are counterexamples.
* That `f64` rounding agrees with the exact percentile rank: `percentile` is
  proved about in thousandths.

## Plan

Every invariant and every action property that a passing run checks is now also a
theorem (for `ExecutedAnswersArrive`, `ExecutedAsAsked` and `AnswersMatch` under
the hypothesis given above), and so are both refinements. What could be added:

1. The composition of `Manager` with one `Worker` per database in one
   specification, with the guarantee of `KVStore` for each name in the map.
   `WorkersAreTasks` and `IsWorkerTask` have the two sides of it meet in
   `WorkerTask`; the joint specification is not written.
2. Liveness, with a prover that has fairness and `ENABLED`. `NoCircularWait`,
   `NoMutualWait`, `NobodyStranded` and `DrainIsComplete` are the safety parts that
   such proofs would start from.

## Not modelled

* Printing: the text of prompt, help, results, reports and log lines, colours and
  time stamps; `lib.rs`, which formats uptime and sizes.
* The byte layout of a WAL entry and its CRC: chunks stand for them. An accidental
  CRC match is taken not to happen.
* Durability of the directory: `Manager` models the death of the process only.
  The code never syncs the directory and promises nothing about it.
* Two processes on one directory. Nothing prevents it: a start recovers, and
  truncates, before it binds its address, and the address is given up before the
  drain ends. Every model has one process per directory.
* A client at the end of its input, beyond the fact that it holds its connection
  (`EndOfInput`): it spins at the prompt until it is killed.
* Panics other than those of `println!`.
* The wrap of `key_count`, a `u32`, at 2^32 keys: an index is taken to be smaller.
* `--lazy-indexing` and `build_index`, which the code does not implement; sizes
  beyond `u64` offsets; `.log` files that no request can name; file names that
  differ by case only on a file system that does not tell them apart.
