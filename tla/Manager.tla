------------------------------ MODULE Manager ------------------------------
(***************************************************************************)
(* The databases of one server: DbManager (src/src/manager.rs), the accept *)
(* loop and the orderly shutdown (run_server in src/src/bin/main.rs), and  *)
(* the part of every connection that creates, drops and looks up           *)
(* databases (handle_client).                                              *)
(*                                                                         *)
(* What module Worker says of one database is reduced here to: a worker    *)
(* runs while any clone of its sender exists, then notifies, then closes   *)
(* its file; and a file has been written to or not.  Files are inodes: a   *)
(* removed file that is still open is not the one created after it.        *)
(***************************************************************************)
EXTENDS Naturals, FiniteSets

CONSTANTS
  Names, Default,  \* database names; DEFAULT_DB_NAME
  Conns,           \* client connections
  Workers,         \* bound: worker tasks alive at a time
  Inodes,          \* bound: files existing at a time
  None

ASSUME ManagerAssumption ==
  /\ Default \in Names
  /\ IsFiniteSet(Conns)
  /\ None \notin Workers \cup Inodes \cup Conns \cup Names

VARIABLES
  server,      \* "down", "init", "up", "draining", "stopping" or "stopped"
  dir,         \* wal_dir: the inode of `<name>.log`, or None
  written,     \* the inodes that hold entries
  db_map,      \* the name's DBHandle, named by its worker, or None
  write_lock,  \* the connection that holds it, or None
  workers,     \* per worker: its inode and what its task has done
  stopping,    \* the notifiers shutdown_all_workers awaits
  conn,        \* per connection: where handle_client is
  name,        \* the database name of its request
  snap,        \* create_db's clone of the map, a sender of every entry in it
  using,       \* the worker whose sender it has cloned, or drop_db awaits
  (* history variables, read by no action *)
  undeleted,   \* names whose remove_file failed in this process
  gone         \* names whose latest create or drop was a drop answered Ok

connVars == <<conn, name, snap, using>>
disk == <<dir, written>>
ghosts == <<undeleted, gone>>
vars == <<server, disk, db_map, write_lock, workers, stopping, connVars, ghosts>>

EmptyMap == [n \in Names |-> None]
Unborn == [ino |-> None, state |-> "free"]

ReferencedByQueries(w) ==   \* mutant: the map holds weak senders
  \E c \in Conns : conn[c] \in {"query", "reply", "farewell"} /\ using[c] = w

\* Everyone who holds a clone of the sender of w: the map, the maps that
\* create_db is about to store, the connections with a query.
Referenced(w) ==
  \/ \E n \in Names : db_map[n] = w
  \/ \E c \in Conns : \E n \in Names : snap[c][n] = w
  \/ \E c \in Conns : conn[c] \in {"query", "reply", "farewell"} /\ using[c] = w
Awaited(w) == w \in stopping \/ \E c \in Conns : using[c] = w

\* Names for the next worker and the next file: any that is not in use.
FreeWorkers == {w \in Workers : /\ workers[w].state \in {"free", "returned"}
                                /\ ~Awaited(w)}
FreeInodes == {i \in Inodes : /\ \A n \in Names : dir[n] # i
                              /\ \A w \in Workers : workers[w].ino # i}

Forgotten ==
  /\ db_map' = EmptyMap /\ write_lock' = None
  /\ workers' = [w \in Workers |-> Unborn] /\ stopping' = {}
  /\ conn' = [c \in Conns |-> "closed"] /\ name' = [c \in Conns |-> None]
  /\ snap' = [c \in Conns |-> EmptyMap] /\ using' = [c \in Conns |-> None]
  /\ undeleted' = {}

Init ==
  /\ server = "down" /\ dir = EmptyMap /\ written = {}
  /\ db_map = EmptyMap /\ write_lock = None
  /\ workers = [w \in Workers |-> Unborn] /\ stopping = {}
  /\ conn = [c \in Conns |-> "closed"] /\ name = [c \in Conns |-> None]
  /\ snap = [c \in Conns |-> EmptyMap] /\ using = [c \in Conns |-> None]
  /\ undeleted = {} /\ gone = {}

-----------------------------------------------------------------------------
(* DbManager::init *)

Boot ==
  /\ server = "down"
  /\ server' = "init"
  /\ UNCHANGED <<disk, db_map, write_lock, workers, stopping, connVars, ghosts>>

\* Wal::init on `<n>.log`, which is created if it is not there.
OpensFile(n) ==
  \/ dir[n] # None /\ UNCHANGED disk
  \/ /\ dir[n] = None /\ FreeInodes # {}
     /\ dir' = [dir EXCEPT ![n] = CHOOSE i \in FreeInodes : TRUE]
     /\ UNCHANGED written

\* spawn_db_worker: Wal::init, tokio::spawn, the handle inserted into dbs.
SpawnDbWorker(n, dbs) ==
  /\ FreeWorkers # {}
  /\ OpensFile(n)
  /\ LET w == CHOOSE w \in FreeWorkers : TRUE IN
       /\ workers' = [workers EXCEPT ![w] = [ino |-> dir'[n],
                                             state |-> "running"]]
       /\ db_map' = [dbs EXCEPT ![n] = w]

\* One `*.log` of the directory: Wal::init, spawn, insert; when all of them
\* are in the map, the same for default.log unless it was among them.
InitDb(n) ==
  /\ server = "init"
  /\ db_map[n] = None
  /\ \/ dir[n] # None
     \/ n = Default /\ \A m \in Names : dir[m] # None => db_map[m] # None
  /\ SpawnDbWorker(n, db_map)
  /\ gone' = gone \ {n}
  /\ UNCHANGED <<server, write_lock, stopping, connVars, undeleted>>

\* DbManager::init returns and the listener is bound.
Listen ==
  /\ server = "init"
  /\ db_map[Default] # None
  /\ \A n \in Names : dir[n] # None => db_map[n] # None
  /\ server' = "up"
  /\ UNCHANGED <<disk, db_map, write_lock, workers, stopping, connVars, ghosts>>

-----------------------------------------------------------------------------
(* handle_client: requests and answers *)

Accept(c) ==
  /\ server = "up" /\ conn[c] = "closed"
  /\ conn' = [conn EXCEPT ![c] = "idle"]
  /\ UNCHANGED <<server, disk, db_map, write_lock, workers, stopping,
                 name, snap, using, ghosts>>

\* CLOSE, end of stream, a read error or a request that is not valid.
Hangup(c) ==
  /\ conn[c] = "idle"
  /\ conn' = [conn EXCEPT ![c] = "closed"]
  /\ UNCHANGED <<server, disk, db_map, write_lock, workers, stopping,
                 name, snap, using, ghosts>>

\* A CREATE or a DROP has been read: on to write_lock.lock().
Request(c, what, n) ==
  /\ conn[c] = "idle"
  /\ conn' = [conn EXCEPT ![c] = what]
  /\ name' = [name EXCEPT ![c] = n]
  /\ UNCHANGED <<server, disk, db_map, write_lock, workers, stopping,
                 snap, using, ghosts>>

\* get_db_handle: a clone of the sender, or DbNotFound and the end.
GetDbHandle(c, n) ==
  /\ conn[c] = "idle"
  /\ conn' = [conn EXCEPT ![c] = IF db_map[n] # None THEN "query" ELSE "farewell"]
  /\ using' = [using EXCEPT ![c] = db_map[n]]
  /\ UNCHANGED <<server, disk, db_map, write_lock, workers, stopping,
                 name, snap, ghosts>>

\* The worker executes the query, a write or not, and answers it or its error.
Execute(c) ==
  /\ conn[c] = "query"
  /\ workers[using[c]].state = "running"
  /\ written' \in {written, written \cup {workers[using[c]].ino}}
  /\ conn' \in {[conn EXCEPT ![c] = s] : s \in {"reply", "farewell"}}
  /\ UNCHANGED <<server, dir, db_map, write_lock, workers, stopping,
                 name, snap, using, ghosts>>

\* send_response returns; the arm ends, the sender is dropped.
Done(c) ==
  /\ \/ conn[c] = "reply" /\ conn' \in {[conn EXCEPT ![c] = s] :
                                          s \in {"idle", "closed"}}
     \/ conn[c] = "farewell" /\ conn' = [conn EXCEPT ![c] = "closed"]
  /\ using' = [using EXCEPT ![c] = None]
  /\ UNCHANGED <<server, disk, db_map, write_lock, workers, stopping,
                 name, snap, ghosts>>

-----------------------------------------------------------------------------
(* DbManager::create_db *)

LockIgnored == TRUE   \* mutant
LockFree == write_lock = None

\* The lock, the snapshot of the map, and the answer if the name is taken.
CreateExists(c) ==
  /\ conn[c] = "create" /\ LockFree
  /\ db_map[name[c]] # None
  /\ conn' = [conn EXCEPT ![c] = "reply"]
  /\ name' = [name EXCEPT ![c] = None]
  /\ UNCHANGED <<server, disk, db_map, write_lock, workers, stopping,
                 snap, using, ghosts>>

CreateLock(c) ==
  /\ conn[c] = "create" /\ LockFree
  /\ db_map[name[c]] = None
  /\ write_lock' = c
  /\ snap' = [snap EXCEPT ![c] = db_map]
  /\ conn' = [conn EXCEPT ![c] = "creating"]
  /\ UNCHANGED <<server, disk, db_map, workers, stopping, name, using, ghosts>>

ReleaseKeepsLock(c) ==   \* mutant
  /\ UNCHANGED write_lock
  /\ snap' = [snap EXCEPT ![c] = EmptyMap]
  /\ name' = [name EXCEPT ![c] = None]
  /\ using' = [using EXCEPT ![c] = None]

\* The guard, the clone of the map and the handle go out of scope.
Release(c) ==
  /\ write_lock' = None
  /\ snap' = [snap EXCEPT ![c] = EmptyMap]
  /\ name' = [name EXCEPT ![c] = None]
  /\ using' = [using EXCEPT ![c] = None]

\* The snapshot with the new entry becomes the map.
CreateStore(c) ==
  /\ conn[c] = "creating"
  /\ SpawnDbWorker(name[c], snap[c])
  /\ conn' = [conn EXCEPT ![c] = "reply"]
  /\ gone' = gone \ {name[c]}
  /\ Release(c)
  /\ UNCHANGED <<server, stopping, undeleted>>

\* Wal::init fails, with the file created or not: `?` ends the connection.
CreateErr(c) ==
  /\ conn[c] = "creating"
  /\ UNCHANGED disk \/ OpensFile(name[c])
  /\ conn' = [conn EXCEPT ![c] = "closed"]
  /\ gone' = gone \ {name[c]}
  /\ Release(c)
  /\ UNCHANGED <<server, db_map, workers, stopping, undeleted>>

-----------------------------------------------------------------------------
(* DbManager::drop_db *)

\* The default database is refused; an unknown one ends the connection.
DropRefused(c) ==
  /\ conn[c] = "drop" /\ LockFree
  /\ \/ /\ name[c] = Default
        /\ conn' = [conn EXCEPT ![c] = "reply"]
     \/ /\ name[c] # Default /\ db_map[name[c]] = None
        /\ conn' = [conn EXCEPT ![c] = "closed"]
  /\ name' = [name EXCEPT ![c] = None]
  /\ UNCHANGED <<server, disk, db_map, write_lock, workers, stopping,
                 snap, using, ghosts>>

\* Out of the map, main sender dropped: on to worker_exit.notified().
DropUnmap(c) ==
  /\ conn[c] = "drop" /\ LockFree
  /\ name[c] # Default /\ db_map[name[c]] # None
  /\ write_lock' = c
  /\ using' = [using EXCEPT ![c] = db_map[name[c]]]
  /\ db_map' = [db_map EXCEPT ![name[c]] = None]
  /\ conn' = [conn EXCEPT ![c] = "dropping"]
  /\ UNCHANGED <<server, disk, workers, stopping, name, snap, ghosts>>

NotifiedAtOnce(w) == TRUE                               \* mutant
NotifiedIfWaiting(w) == workers[w].state = "exited"     \* mutant: no permit kept
\* notified() returns: notify_one has been called, now or long ago.
Notified(w) == workers[w].state \in {"exited", "returned"}

DropNotified(c) ==
  /\ conn[c] = "dropping"
  /\ Notified(using[c])
  /\ conn' = [conn EXCEPT ![c] = "removing"]
  /\ UNCHANGED <<server, disk, db_map, write_lock, workers, stopping,
                 name, snap, using, ghosts>>

RemoveNothing(n) == UNCHANGED disk   \* mutant
RemoveFile(n) ==
  /\ dir' = [dir EXCEPT ![n] = None]
  /\ written' = written \ {dir[n]}

DropRemove(c) ==
  /\ conn[c] = "removing"
  /\ \/ /\ RemoveFile(name[c])
        /\ conn' = [conn EXCEPT ![c] = "reply"]
        /\ gone' = gone \cup {name[c]}
        /\ UNCHANGED undeleted
     \/ /\ conn' = [conn EXCEPT ![c] = "closed"]
        /\ undeleted' = undeleted \cup {name[c]}
        /\ UNCHANGED <<disk, gone>>
  /\ Release(c)
  /\ UNCHANGED <<server, db_map, workers, stopping>>

-----------------------------------------------------------------------------
(* The worker tasks *)

\* recv() returns None, the final fsync, notify_one (its permit is kept).
WorkerExit(w) ==
  /\ workers[w].state = "running"
  /\ ~Referenced(w)
  /\ workers' = [workers EXCEPT ![w].state = "exited"]
  /\ UNCHANGED <<server, disk, db_map, write_lock, stopping, connVars, ghosts>>

\* The task's future is dropped, and the file closed, after the notification.
WorkerReturn(w) ==
  /\ workers[w].state = "exited"
  /\ workers' = [workers EXCEPT ![w] = [ino |-> None, state |-> "returned"]]
  /\ UNCHANGED <<server, disk, db_map, write_lock, stopping, connVars, ghosts>>

-----------------------------------------------------------------------------
(* run_server: the end *)

\* ctrl_c_handler wins the select!: the loop ends, the listener is dropped.
Signal ==
  /\ server = "up"
  /\ server' = "draining"
  /\ UNCHANGED <<disk, db_map, write_lock, workers, stopping, connVars, ghosts>>

\* active_connections counts the connection tasks that have not ended.
ActiveConnections == Cardinality({c \in Conns : conn[c] # "closed"})

Handles(m) == {m[n] : n \in Names} \ {None}

\* shutdown_all_workers: the swap, and every main sender dropped.
ShutdownWorkers ==
  /\ server = "draining"
  /\ ActiveConnections = 0
  /\ server' = "stopping"
  /\ stopping' = Handles(db_map)
  /\ db_map' = EmptyMap
  /\ UNCHANGED <<disk, write_lock, workers, connVars, ghosts>>

\* The last notified() returns, and run_server.
Stopped ==
  /\ server = "stopping"
  /\ \A w \in stopping : Notified(w)
  /\ server' = "stopped"
  /\ stopping' = {}
  /\ UNCHANGED <<disk, db_map, write_lock, workers, connVars, ghosts>>

\* The process ends: after Stopped, by an error of DbManager::init, or killed.
ProcessEnds ==
  /\ server # "down"
  /\ server' = "down"
  /\ Forgotten
  /\ UNCHANGED <<disk, gone>>

-----------------------------------------------------------------------------
WorkerStep(w) == WorkerExit(w) \/ WorkerReturn(w)

Creates(c) == CreateExists(c) \/ CreateLock(c) \/ CreateStore(c) \/ CreateErr(c)
Drops(c) == DropRefused(c) \/ DropUnmap(c) \/ DropNotified(c) \/ DropRemove(c)

Next ==
  \/ Boot \/ Listen \/ Signal \/ ShutdownWorkers \/ Stopped \/ ProcessEnds
  \/ \E n \in Names : InitDb(n)
  \/ \E c \in Conns :
       \/ Accept(c) \/ Hangup(c) \/ Execute(c) \/ Done(c)
       \/ \E n \in Names : GetDbHandle(c, n) \/ Request(c, "create", n)
                             \/ Request(c, "drop", n)
       \/ Creates(c) \/ Drops(c)
  \/ \E w \in Workers : WorkerStep(w)

Spec == Init /\ [][Next]_vars

\* tokio runs the tasks that can run, its Mutex is served in order, and a
\* worker executes the queries it is sent (Worker, QueriesAnswered).  Nothing
\* is assumed of the remote ends of the connections.
FairSpec ==
  /\ Spec
  /\ \A w \in Workers : WF_vars(WorkerStep(w))
  /\ \A c \in Conns : WF_vars(Execute(c)) /\ SF_vars(Creates(c) \/ Drops(c))
  /\ WF_vars(ShutdownWorkers) /\ WF_vars(Stopped)
-----------------------------------------------------------------------------
(* Properties *)

\* Types of the state.
TypeOK ==
  /\ server \in {"down", "init", "up", "draining", "stopping", "stopped"}
  /\ dir \in [Names -> Inodes \cup {None}]
  /\ written \subseteq Inodes
  /\ db_map \in [Names -> Workers \cup {None}]
  /\ write_lock \in Conns \cup {None}
  /\ workers \in [Workers -> [ino : Inodes \cup {None},
                              state : {"free", "running", "exited", "returned"}]]
  /\ stopping \subseteq Workers
  /\ conn \in [Conns -> {"closed", "idle", "create", "creating", "drop",
                         "dropping", "removing", "query", "reply", "farewell"}]
  /\ name \in [Conns -> Names \cup {None}]
  /\ snap \in [Conns -> [Names -> Workers \cup {None}]]
  /\ using \in [Conns -> Workers \cup {None}]
  /\ undeleted \subseteq Names
  /\ gone \subseteq Names

\* wal.rs: "Single-file WAL owned by a single DB worker".  No two workers that
\* can still write have the same file open, whatever drops and creates overlap.
SingleOwner ==
  \A v, w \in Workers :
    v # w /\ workers[v].state = "running" /\ workers[w].state = "running"
      => workers[v].ino # workers[w].ino

\* A handle in the map leads to a running worker on the file of that name, so
\* a send to it cannot fail, and what it writes is found after a restart.
HandlesAreLive ==
  \A n \in Names : db_map[n] # None =>
    /\ workers[db_map[n]].state = "running"
    /\ workers[db_map[n]].ino = dir[n]

\* manager.rs: the lock is there for "NOT risking race conditions like
\* lost-update": a create or a drop changes the map at its own name only.
NoLostUpdate ==
  [][ server' = server /\ server \in {"up", "draining"} =>
        \A n \in Names : db_map'[n] # db_map[n] =>
          \E c \in Conns : name[c] = n /\ conn'[c] # conn[c] ]_vars

\* A database that has been created Ok is empty until somebody writes to it,
\* unless an earlier drop of it in this process could not remove its file.
CreatedEmpty ==
  [][ \A n \in Names, c \in Conns :
        conn[c] = "creating" /\ conn'[c] = "reply" /\ name[c] = n
          /\ n \notin undeleted
        => dir'[n] \notin written' ]_vars

\* A drop answered Ok is for good: until the name is created again the
\* database has no file, hence no restart brings it back.
DroppedIsGone == \A n \in gone : dir[n] = None /\ db_map[n] = None

\* An orderly shutdown leaves no worker that has not made its final fsync.
StoppedClean ==
  server = "stopped" => \A w \in Workers : workers[w].state # "running"

\* A worker that is awaited is held by clients with a query in it and by nobody
\* else, and whoever has such a query finds the worker running:
\* drop_db awaits a worker that has left the map and that no clone of the map
\* refers to; shutdown_all_workers awaits workers that nobody refers to.  So the
\* lock, the drop, the worker and its clients never wait in a circle.
WaitsForClientsOnly ==
  /\ \A c \in Conns : conn[c] = "dropping" =>
       /\ \A n \in Names : db_map[n] # using[c]
       /\ \A d \in Conns, n \in Names : snap[d][n] # using[c]
  /\ \A c \in Conns : conn[c] = "query" => workers[using[c]].state = "running"
  /\ server = "stopping" => \A w \in Workers : ~Referenced(w)

\* The senders of w that exist, by who holds them.
Task(w) == INSTANCE WorkerTask WITH
  state <- workers[w].state,
  holders <- {n \in Names : db_map[n] = w}
               \cup {c \in Conns : \E n \in Names : snap[c][n] = w}
               \cup {c \in Conns : using[c] = w
                                    /\ conn[c] \in {"query", "reply", "farewell"}}

\* Every worker lives the life of a WorkerTask, which Worker implements: no
\* lookup, snapshot or drop brings a sender back after the last one has gone.
WorkersAreTasks ==
  /\ \A w \in Workers : Task(w)!Init
  /\ [][ \A w \in Workers : [Task(w)!Next]_(Task(w)!vars) ]_vars

\* The clients read their answers.
ClientsRead ==
  \A c \in Conns : []<>(conn[c] \notin {"reply", "farewell"})

\* If the clients read their answers, whoever asks for a create or a drop
\* gets it done: the lock goes round, every notification finds its waiter.
AdminEnds ==
  ClientsRead =>
    \A c \in Conns :
      conn[c] \in {"create", "creating", "drop", "dropping", "removing"} ~>
        conn[c] \in {"reply", "closed"}

\* A shutdown signal stops the server once every client has hung up: nothing
\* tells a connection to end, idle or busy.
ShutdownEnds ==
  (\A c \in Conns : []<>(conn[c] = "closed")) =>
    (server = "draining" ~> server \in {"stopped", "down"})
=============================================================================
