--------------------------- MODULE ManagerProofs ---------------------------
(***************************************************************************)
(* What TLAPS proves about Manager, for every set of names, connections,   *)
(* workers and files.                                                      *)
(*                                                                         *)
(* The argument: whoever is between taking write_lock and releasing it is  *)
(* alone there, so create_db's clone of the map is the map (LockInv,       *)
(* SnapInv); every sender leads to a running worker (UsingInv,             *)
(* HandlesAreLive); and a worker that can still write is reached from the  *)
(* map, from the drop that awaits it, or from the shutdown that does       *)
(* (OwnedInv).  So a name that is not in the map, and that nobody drops,   *)
(* has no writer, and opening its file gives it its only one.              *)
(***************************************************************************)
EXTENDS Manager, FiniteSetTheorems, TLAPS

\* write_lock is held from CreateLock or DropUnmap to Release.
LockInv ==
  /\ \A c \in Conns :
       conn[c] \in {"creating", "dropping", "removing"} <=> write_lock = c
  /\ \A c \in Conns :
       conn[c] \in {"create", "creating", "drop", "dropping", "removing"}
         => name[c] \in Names

\* The clone of the map is the map, which has no entry for the new name yet.
SnapInv ==
  \A c \in Conns :
    /\ conn[c] = "creating" => snap[c] = db_map /\ db_map[name[c]] = None
    /\ conn[c] # "creating" => snap[c] = EmptyMap

\* What a connection knows of the worker it uses.
UsingInv ==
  \A c \in Conns :
    /\ conn[c] \in {"closed", "idle", "create", "creating", "drop"}
         => using[c] = None
    /\ conn[c] \in {"query", "dropping", "removing"} => using[c] # None
    /\ conn[c] \in {"query", "reply", "farewell"} /\ using[c] # None
         => workers[using[c]].state = "running"
    /\ conn[c] \in {"dropping", "removing"} => db_map[name[c]] = None
    /\ conn[c] = "removing" => workers[using[c]].state # "running"

\* What the phases of run_server leave behind.
ServerInv ==
  /\ server \in {"down", "init", "stopping", "stopped"}
       => \A c \in Conns : conn[c] = "closed"
  /\ server \in {"down", "stopping", "stopped"} => db_map = EmptyMap
  /\ server # "stopping" => stopping = {}

\* No two names have the same file, and only files have contents.
DirInv ==
  /\ \A m, n \in Names : dir[m] = dir[n] /\ dir[m] # None => m = n
  /\ \A i \in written : \E n \in Names : dir[n] = i

\* c drops the database n.
Dropping(c, n) == conn[c] \in {"dropping", "removing"} /\ name[c] = n

\* Who knows of a worker that can still write, and of the file it has open.
Owned(w) ==
  \/ \E n \in Names : db_map[n] = w
  \/ \E c \in Conns : conn[c] = "dropping" /\ using[c] = w
                        /\ dir[name[c]] = workers[w].ino
  \/ w \in stopping

OwnedInv ==
  \A w \in Workers : workers[w].state = "running" =>
    Owned(w) /\ workers[w].ino # None

\* A name without an entry has no file with entries in it, unless its drop
\* is under way or has failed.
EmptyInv ==
  server \in {"up", "draining"} =>
    \A n \in Names :
      db_map[n] = None /\ n \notin undeleted /\ dir[n] \in written
        => \E c \in Conns : Dropping(c, n)

ManagerInv ==
  /\ TypeOK /\ LockInv /\ SnapInv /\ UsingInv /\ ServerInv /\ DirInv
  /\ HandlesAreLive /\ OwnedInv /\ SingleOwner /\ EmptyInv /\ DroppedIsGone

-----------------------------------------------------------------------------
(* Facts about the operators of the model. *)

\* Wal::init leaves the name with a file: the one it had, or a new one that
\* nobody has open and that holds nothing.
LEMMA OpensFileFacts ==
  ASSUME ManagerInv, NEW n \in Names, OpensFile(n)
  PROVE  /\ dir' \in [Names -> Inodes \cup {None}] /\ written' = written
         /\ dir'[n] # None
         /\ \A m \in Names : m # n => dir'[m] = dir[m]
         /\ dir[n] # None => dir'[n] = dir[n]
         /\ dir[n] = None => /\ dir'[n] \notin written
                             /\ \A m \in Names : dir[m] # dir'[n]
                             /\ \A w \in Workers : workers[w].ino # dir'[n]
         /\ DirInv'
<1> USE DEF ManagerInv
<1>1. CASE dir[n] # None /\ UNCHANGED disk
  BY <1>1 DEF disk, TypeOK, DirInv
<1>2. CASE dir[n] = None /\ FreeInodes # {} /\ UNCHANGED written
             /\ dir' = [dir EXCEPT ![n] = CHOOSE i \in FreeInodes : TRUE]
  <2> DEFINE i == CHOOSE i \in FreeInodes : TRUE
  <2>1. i \in FreeInodes
    BY <1>2
  <2> HIDE DEF i
  <2>2. /\ i \in Inodes /\ i # None
        /\ \A m \in Names : dir[m] # i
        /\ \A w \in Workers : workers[w].ino # i
    BY <2>1, ManagerAssumption DEF FreeInodes
  <2>3. dir' = [dir EXCEPT ![n] = i]
    BY <1>2 DEF i
  <2>4. i \notin written
    BY <2>2 DEF DirInv
  <2>5. /\ dir' \in [Names -> Inodes \cup {None}] /\ dir'[n] = i
        /\ \A m \in Names : m # n => dir'[m] = dir[m]
    BY <2>2, <2>3 DEF TypeOK
  <2>6. DirInv'
    <3>1. \A k, m \in Names : dir'[k] = dir'[m] /\ dir'[k] # None => k = m
      BY <2>2, <2>5 DEF DirInv
    <3>2. \A j \in written' : \E m \in Names : dir'[m] = j
      BY <1>2, <2>5, ManagerAssumption DEF DirInv, TypeOK
    <3> QED
      BY <3>1, <3>2 DEF DirInv
  <2> QED
    BY <1>2, <2>2, <2>4, <2>5, <2>6
<1> QED
  BY <1>1, <1>2 DEF OpensFile

\* spawn_db_worker starts a worker that nobody knew on the file of its name,
\* and puts it into the map it was given.
LEMMA SpawnFacts ==
  ASSUME ManagerInv, NEW n \in Names, NEW m, SpawnDbWorker(n, m)
  PROVE  \E w \in FreeWorkers :
           /\ workers' = [workers EXCEPT ![w] = [ino |-> dir'[n],
                                                 state |-> "running"]]
           /\ db_map' = [m EXCEPT ![n] = w]
BY DEF SpawnDbWorker

\* A worker that may be given out again is not running, and nobody has a
\* sender of it or awaits it.
LEMMA FreeWorkerUnknown ==
  ASSUME ManagerInv, NEW w \in FreeWorkers
  PROVE  /\ w \in Workers /\ w # None /\ workers[w].state # "running"
         /\ w \notin stopping
         /\ \A n \in Names : db_map[n] # w
         /\ \A c \in Conns : using[c] # w
BY ManagerAssumption DEF FreeWorkers, Awaited, ManagerInv, HandlesAreLive

\* A running worker has the file of a name only if that name is in the map, or
\* the name is being dropped, or the server stops.
LEMMA NoOtherWriter ==
  ASSUME ManagerInv, NEW n \in Names, db_map[n] = None, dir[n] # None,
         stopping = {}, \A c \in Conns : conn[c] # "dropping",
         NEW w \in Workers, workers[w].state = "running"
  PROVE  workers[w].ino # dir[n]
<1>1. PICK k \in Names : db_map[k] = w
  BY DEF ManagerInv, OwnedInv, Owned
<1>2. workers[w].ino = dir[k]
  BY <1>1, ManagerAssumption DEF ManagerInv, HandlesAreLive
<1> QED
  BY <1>1, <1>2, ManagerAssumption DEF ManagerInv, DirInv

\* A worker spawned on a name without one is the only writer of its file and
\* is known through the map, and nothing else about the workers changes.
LEMMA SpawnInv ==
  ASSUME ManagerInv, NEW n \in Names, db_map[n] = None,
         stopping = {}, stopping' = {},
         \A c \in Conns : conn[c] # "dropping",
         SpawnDbWorker(n, db_map)
  PROVE  /\ workers' \in [Workers -> [ino : Inodes \cup {None},
              state : {"free", "running", "exited", "returned"}]]
         /\ db_map' \in [Names -> Workers \cup {None}]
         /\ \A m \in Names : m # n => db_map'[m] = db_map[m]
         /\ db_map'[n] # None
         /\ \A v \in Workers : workers[v].state = "running"
                                 => workers'[v] = workers[v]
         /\ \A c \in Conns : using[c] # None => workers'[using[c]] = workers[using[c]]
         /\ HandlesAreLive' /\ OwnedInv' /\ SingleOwner'
<1> USE DEF ManagerInv
<1>1. PICK w \in FreeWorkers :
        /\ workers' = [workers EXCEPT ![w] = [ino |-> dir'[n],
                                              state |-> "running"]]
        /\ db_map' = [db_map EXCEPT ![n] = w]
  BY SpawnFacts
<1>2. /\ w \in Workers /\ w # None /\ workers[w].state # "running"
      /\ \A m \in Names : db_map[m] # w
      /\ \A c \in Conns : using[c] # w
  BY FreeWorkerUnknown
<1>3. /\ dir' \in [Names -> Inodes \cup {None}]
      /\ dir'[n] # None
      /\ \A m \in Names : m # n => dir'[m] = dir[m]
      /\ dir[n] # None => dir'[n] = dir[n]
      /\ dir[n] = None => \A v \in Workers : workers[v].ino # dir'[n]
  BY OpensFileFacts DEF SpawnDbWorker
<1>4. /\ workers'[w] = [ino |-> dir'[n], state |-> "running"]
      /\ \A v \in Workers : v # w => workers'[v] = workers[v]
      /\ db_map'[n] = w
      /\ \A m \in Names : m # n => db_map'[m] = db_map[m]
  BY <1>1, <1>2 DEF TypeOK
<1>5. /\ workers' \in [Workers -> [ino : Inodes \cup {None},
              state : {"free", "running", "exited", "returned"}]]
      /\ db_map' \in [Names -> Workers \cup {None}]
  BY <1>1, <1>2, <1>3 DEF TypeOK
<1>6. HandlesAreLive'
  BY <1>2, <1>3, <1>4, ManagerAssumption DEF HandlesAreLive, TypeOK
<1>7. OwnedInv'
  <2> SUFFICES ASSUME NEW v \in Workers, workers'[v].state = "running"
               PROVE  Owned(v)' /\ workers'[v].ino # None
    BY DEF OwnedInv
  <2>1. CASE v = w
    BY <2>1, <1>3, <1>4 DEF Owned
  <2>2. CASE v # w
    <3>1. workers[v].state = "running" /\ workers'[v] = workers[v]
      BY <2>2, <1>4
    <3>2. PICK m \in Names : db_map[m] = v
      BY <3>1 DEF OwnedInv, Owned
    <3>3. m # n
      BY <3>2, ManagerAssumption
    <3> QED
      BY <3>1, <3>2, <3>3, <1>4 DEF OwnedInv, Owned
  <2> QED
    BY <2>1, <2>2
<1>8. \A v \in Workers : workers[v].state = "running"
                           => workers[v].ino # dir'[n]
  BY <1>3, NoOtherWriter
<1>9. SingleOwner'
  BY <1>2, <1>4, <1>8 DEF SingleOwner
<1> QED
  BY <1>2, <1>4, <1>5, <1>6, <1>7, <1>9, ManagerAssumption DEF TypeOK

-----------------------------------------------------------------------------
(* Every action keeps the invariant. *)

\* Boot: nothing but the phase changes.
LEMMA BootInv ==
  ASSUME ManagerInv, Boot
  PROVE  ManagerInv'
<1> USE ManagerAssumption DEF ManagerInv
<1>1. TypeOK' /\ LockInv' /\ SnapInv' /\ UsingInv' /\ ServerInv'
      /\ DirInv' /\ HandlesAreLive' /\ OwnedInv' /\ SingleOwner' /\ EmptyInv' /\ DroppedIsGone'
  BY DEF Boot, TypeOK, LockInv, SnapInv, UsingInv, ServerInv, DirInv,
     HandlesAreLive, OwnedInv, SingleOwner, EmptyInv, DroppedIsGone, EmptyMap,
     Owned, Dropping, connVars, disk, ghosts
<1> QED
  BY <1>1

\* Listen: whatever has a file is in the map, so no unmapped name has entries.
LEMMA ListenInv ==
  ASSUME ManagerInv, Listen
  PROVE  ManagerInv'
<1> USE ManagerAssumption DEF ManagerInv
<1>1. EmptyInv'
  BY DEF Listen, TypeOK, EmptyInv, Dropping, LockInv, connVars, disk, ghosts
<1>2. TypeOK' /\ LockInv' /\ SnapInv' /\ UsingInv' /\ ServerInv'
      /\ DirInv' /\ HandlesAreLive' /\ OwnedInv' /\ SingleOwner' /\ DroppedIsGone'
  BY DEF Listen, TypeOK, LockInv, SnapInv, UsingInv, ServerInv, DirInv,
     HandlesAreLive, OwnedInv, SingleOwner, DroppedIsGone, EmptyMap, Owned,
     connVars, disk, ghosts
<1> QED
  BY <1>1, <1>2

\* Signal: nothing but the phase changes.
LEMMA SignalInv ==
  ASSUME ManagerInv, Signal
  PROVE  ManagerInv'
<1> USE ManagerAssumption DEF ManagerInv
<1>1. TypeOK' /\ LockInv' /\ SnapInv' /\ UsingInv' /\ ServerInv'
      /\ DirInv' /\ HandlesAreLive' /\ OwnedInv' /\ SingleOwner' /\ EmptyInv' /\ DroppedIsGone'
  BY DEF Signal, TypeOK, LockInv, SnapInv, UsingInv, ServerInv, DirInv,
     HandlesAreLive, OwnedInv, SingleOwner, EmptyInv, DroppedIsGone, EmptyMap,
     Owned, Dropping, connVars, disk, ghosts
<1> QED
  BY <1>1

\* Accept: a connection that holds nothing.
LEMMA AcceptInv ==
  ASSUME ManagerInv, NEW c \in Conns, Accept(c)
  PROVE  ManagerInv'
<1> USE ManagerAssumption DEF ManagerInv
<1>1. LockInv' /\ SnapInv' /\ UsingInv' /\ ServerInv'
  BY DEF Accept, TypeOK, LockInv, SnapInv, UsingInv, ServerInv, EmptyMap,
     HandlesAreLive, disk, ghosts
<1>2. OwnedInv' /\ EmptyInv'
  BY DEF Accept, TypeOK, OwnedInv, EmptyInv, Owned, LockInv, Dropping, disk,
     ghosts
<1>3. TypeOK' /\ DirInv' /\ HandlesAreLive' /\ SingleOwner' /\ DroppedIsGone'
  BY DEF Accept, TypeOK, DirInv, HandlesAreLive, SingleOwner, DroppedIsGone,
     disk, ghosts
<1> QED
  BY <1>1, <1>2, <1>3

\* Hangup: an idle connection holds nothing.
LEMMA HangupInv ==
  ASSUME ManagerInv, NEW c \in Conns, Hangup(c)
  PROVE  ManagerInv'
<1> USE ManagerAssumption DEF ManagerInv
<1>1. LockInv' /\ SnapInv' /\ UsingInv' /\ ServerInv'
  BY DEF Hangup, TypeOK, LockInv, SnapInv, UsingInv, ServerInv, EmptyMap,
     HandlesAreLive, disk, ghosts
<1>2. OwnedInv' /\ EmptyInv'
  BY DEF Hangup, TypeOK, OwnedInv, EmptyInv, Owned, LockInv, Dropping, disk,
     ghosts
<1>3. TypeOK' /\ DirInv' /\ HandlesAreLive' /\ SingleOwner' /\ DroppedIsGone'
  BY DEF Hangup, TypeOK, DirInv, HandlesAreLive, SingleOwner, DroppedIsGone,
     disk, ghosts
<1> QED
  BY <1>1, <1>2, <1>3

\* Request: the connection waits for the lock and holds nothing.
LEMMA RequestInv ==
  ASSUME ManagerInv, NEW c \in Conns, NEW n \in Names,
         NEW what \in {"create", "drop"}, Request(c, what, n)
  PROVE  ManagerInv'
<1> USE ManagerAssumption DEF ManagerInv
<1>1. LockInv' /\ SnapInv' /\ UsingInv' /\ ServerInv'
  BY DEF Request, TypeOK, LockInv, SnapInv, UsingInv, ServerInv, EmptyMap,
     HandlesAreLive, disk, ghosts
<1>2. OwnedInv'
  BY DEF Request, TypeOK, OwnedInv, Owned, LockInv, disk, ghosts
<1>3. EmptyInv'
  BY DEF Request, TypeOK, EmptyInv, Dropping, LockInv, disk, ghosts
<1>4. TypeOK' /\ DirInv' /\ HandlesAreLive' /\ SingleOwner' /\ DroppedIsGone'
  BY DEF Request, TypeOK, DirInv, HandlesAreLive, SingleOwner, DroppedIsGone,
     disk, ghosts
<1> QED
  BY <1>1, <1>2, <1>3, <1>4

\* GetDbHandle: the sender is cloned from the map, whose workers run.
LEMMA GetDbHandleInv ==
  ASSUME ManagerInv, NEW c \in Conns, NEW n \in Names, GetDbHandle(c, n)
  PROVE  ManagerInv'
<1> USE ManagerAssumption DEF ManagerInv
<1>1. LockInv' /\ SnapInv' /\ ServerInv'
  BY DEF GetDbHandle, TypeOK, LockInv, SnapInv, ServerInv, EmptyMap, disk,
     ghosts
<1>2. UsingInv'
  BY DEF GetDbHandle, TypeOK, UsingInv, LockInv, HandlesAreLive, disk, ghosts
<1>3. OwnedInv' /\ EmptyInv'
  BY DEF GetDbHandle, TypeOK, OwnedInv, EmptyInv, Owned, LockInv, Dropping,
     disk, ghosts
<1>4. TypeOK' /\ DirInv' /\ HandlesAreLive' /\ SingleOwner' /\ DroppedIsGone'
  BY DEF GetDbHandle, TypeOK, DirInv, HandlesAreLive, SingleOwner,
     DroppedIsGone, disk, ghosts
<1> QED
  BY <1>1, <1>2, <1>3, <1>4

\* Execute: a worker that is sent queries runs, so its file is that of a name
\* in the map or of one being dropped.
LEMMA ExecuteInv ==
  ASSUME ManagerInv, NEW c \in Conns, Execute(c)
  PROVE  ManagerInv'
<1> USE ManagerAssumption DEF ManagerInv
<1>1. /\ using[c] \in Workers /\ workers[using[c]].ino \in Inodes
      /\ conn' \in [Conns -> {"closed", "idle", "create", "creating", "drop",
           "dropping", "removing", "query", "reply", "farewell"}]
      /\ conn'[c] \in {"reply", "farewell"}
      /\ \A d \in Conns : d # c => conn'[d] = conn[d]
  <2>1. using[c] \in Workers
    BY DEF Execute, TypeOK, UsingInv
  <2>2. workers[using[c]].ino \in Inodes
    BY <2>1 DEF Execute, TypeOK, OwnedInv
  <2>3. PICK s \in {"reply", "farewell"} : conn' = [conn EXCEPT ![c] = s]
    BY DEF Execute
  <2> QED
    BY <2>1, <2>2, <2>3 DEF TypeOK
<1>2. TypeOK'
  BY <1>1 DEF Execute, TypeOK, ghosts
<1>3. LockInv'
  BY <1>1 DEF Execute, TypeOK, LockInv, ghosts
<1>4. SnapInv'
  BY <1>1 DEF Execute, TypeOK, SnapInv, LockInv, EmptyMap, ghosts
<1>5. UsingInv' /\ ServerInv'
  BY <1>1 DEF Execute, TypeOK, UsingInv, ServerInv, LockInv, HandlesAreLive,
     EmptyMap, ghosts
<1>6. DirInv'
  BY <1>1 DEF Execute, TypeOK, DirInv, OwnedInv, Owned, HandlesAreLive,
     UsingInv, LockInv, ServerInv, ghosts
<1>7. OwnedInv'
  BY <1>1 DEF Execute, TypeOK, OwnedInv, Owned, LockInv, ghosts
<1>8. EmptyInv'
  <2> SUFFICES ASSUME server \in {"up", "draining"}, NEW n \in Names,
                      db_map[n] = None, n \notin undeleted, dir[n] \in written'
               PROVE  \E d \in Conns : Dropping(d, n)
    <3>1. \A d \in Conns, n \in Names : Dropping(d, n) => Dropping(d, n)'
      BY <1>1 DEF Execute, Dropping
    <3> QED
      BY <3>1 DEF Execute, EmptyInv, ghosts
  <2>1. CASE dir[n] \in written
    BY <2>1 DEF EmptyInv
  <2>2. CASE dir[n] = workers[using[c]].ino
    <3>1. Owned(using[c]) /\ workers[using[c]].ino # None /\ stopping = {}
      BY <1>1 DEF Execute, OwnedInv, ServerInv
    <3>2. ASSUME NEW m \in Names PROVE db_map[m] # using[c]
      BY <1>1, <2>2, <3>1 DEF HandlesAreLive, DirInv
    <3>3. PICK d \in Conns : conn[d] = "dropping" /\ dir[name[d]] = dir[n]
      BY <2>2, <3>1, <3>2 DEF Owned
    <3> QED
      BY <2>2, <3>1, <3>3 DEF DirInv, LockInv, Dropping
  <2> QED
    BY <2>1, <2>2 DEF Execute
<1>9. HandlesAreLive' /\ SingleOwner' /\ DroppedIsGone'
  BY <1>1 DEF Execute, TypeOK, HandlesAreLive, SingleOwner, DroppedIsGone,
     ghosts
<1> QED
  BY <1>2, <1>3, <1>4, <1>5, <1>6, <1>7, <1>8, <1>9

\* Done: the sender is dropped.
LEMMA DoneInv ==
  ASSUME ManagerInv, NEW c \in Conns, Done(c)
  PROVE  ManagerInv'
<1> USE ManagerAssumption DEF ManagerInv
<1>1. TypeOK'
  <2>1. PICK s \in {"idle", "closed"} : conn' = [conn EXCEPT ![c] = s]
    BY DEF Done
  <2> QED
    BY <2>1 DEF Done, TypeOK, disk, ghosts
<1>2. LockInv' /\ SnapInv' /\ UsingInv' /\ ServerInv'
  BY DEF Done, TypeOK, LockInv, SnapInv, UsingInv, ServerInv, EmptyMap,
     HandlesAreLive, disk, ghosts
<1>3. OwnedInv'
  BY DEF Done, TypeOK, OwnedInv, Owned, LockInv, disk, ghosts
<1>4. EmptyInv'
  BY DEF Done, TypeOK, EmptyInv, Dropping, LockInv, disk, ghosts
<1>5. DirInv' /\ HandlesAreLive' /\ SingleOwner' /\ DroppedIsGone'
  BY DEF Done, TypeOK, DirInv, HandlesAreLive, SingleOwner, DroppedIsGone,
     disk, ghosts
<1> QED
  BY <1>1, <1>2, <1>3, <1>4, <1>5

\* CreateExists: the lock is taken and released.
LEMMA CreateExistsInv ==
  ASSUME ManagerInv, NEW c \in Conns, CreateExists(c)
  PROVE  ManagerInv'
<1> USE ManagerAssumption DEF ManagerInv
<1>1. LockInv' /\ SnapInv' /\ UsingInv' /\ ServerInv'
  BY DEF CreateExists, LockFree, TypeOK, LockInv, SnapInv, UsingInv, ServerInv,
     EmptyMap, HandlesAreLive, disk, ghosts
<1>2. OwnedInv'
  BY DEF CreateExists, LockFree, TypeOK, OwnedInv, Owned, LockInv, disk, ghosts
<1>3. EmptyInv'
  BY DEF CreateExists, LockFree, TypeOK, EmptyInv, Dropping, LockInv, disk,
     ghosts
<1>4. TypeOK' /\ DirInv' /\ HandlesAreLive' /\ SingleOwner' /\ DroppedIsGone'
  BY DEF CreateExists, LockFree, TypeOK, DirInv, HandlesAreLive, SingleOwner,
     DroppedIsGone, disk, ghosts
<1> QED
  BY <1>1, <1>2, <1>3, <1>4

\* CreateLock: the lock was free, so nobody else creates or drops.
LEMMA CreateLockInv ==
  ASSUME ManagerInv, NEW c \in Conns, CreateLock(c)
  PROVE  ManagerInv'
<1> USE ManagerAssumption DEF ManagerInv
<1>1. TypeOK'
  BY DEF CreateLock, LockFree, TypeOK, disk, ghosts
<1>2. LockInv' /\ SnapInv' /\ UsingInv' /\ ServerInv'
  BY DEF CreateLock, LockFree, TypeOK, LockInv, SnapInv, UsingInv, ServerInv,
     EmptyMap, HandlesAreLive, disk, ghosts
<1>3. OwnedInv' /\ EmptyInv'
  BY DEF CreateLock, LockFree, TypeOK, OwnedInv, EmptyInv, Owned, LockInv,
     Dropping, disk, ghosts
<1>4. DirInv' /\ HandlesAreLive' /\ SingleOwner' /\ DroppedIsGone'
  BY DEF CreateLock, LockFree, TypeOK, DirInv, HandlesAreLive, SingleOwner,
     DroppedIsGone, disk, ghosts
<1> QED
  BY <1>1, <1>2, <1>3, <1>4

\* CreateStore: the snapshot is the map, the name has no other writer.
LEMMA CreateStoreInv ==
  ASSUME ManagerInv, NEW c \in Conns, CreateStore(c)
  PROVE  ManagerInv'
<1> USE ManagerAssumption DEF ManagerInv
<1>1. /\ name[c] \in Names /\ db_map[name[c]] = None
      /\ stopping = {} /\ stopping' = {}
      /\ \A d \in Conns : conn[d] # "dropping"
      /\ SpawnDbWorker(name[c], db_map)
  BY DEF CreateStore, LockInv, SnapInv, ServerInv
<1>2. /\ workers' \in [Workers -> [ino : Inodes \cup {None},
            state : {"free", "running", "exited", "returned"}]]
      /\ db_map' \in [Names -> Workers \cup {None}]
      /\ \A m \in Names : m # name[c] => db_map'[m] = db_map[m]
      /\ db_map'[name[c]] # None
      /\ \A v \in Workers : workers[v].state = "running"
                              => workers'[v] = workers[v]
      /\ \A d \in Conns : using[d] # None
                            => workers'[using[d]] = workers[using[d]]
      /\ HandlesAreLive' /\ OwnedInv' /\ SingleOwner'
  BY <1>1, SpawnInv
<1>3. /\ dir' \in [Names -> Inodes \cup {None}] /\ written' = written
      /\ \A m \in Names : m # name[c] => dir'[m] = dir[m]
      /\ DirInv'
  BY <1>1, OpensFileFacts DEF SpawnDbWorker
<1>4. TypeOK'
  BY <1>1, <1>2, <1>3 DEF CreateStore, Release, TypeOK, EmptyMap
<1>5. LockInv'
  BY <1>1, <1>2, <1>3 DEF CreateStore, Release, TypeOK, LockInv
<1>6. SnapInv'
  BY <1>1, <1>2, <1>3 DEF CreateStore, Release, TypeOK, SnapInv, LockInv,
     EmptyMap
<1>7. UsingInv' /\ ServerInv'
  BY <1>1, <1>2, <1>3 DEF CreateStore, Release, TypeOK, UsingInv, ServerInv,
     LockInv, HandlesAreLive, EmptyMap
<1>8. DirInv'
  BY <1>3
<1>9. HandlesAreLive' /\ OwnedInv' /\ SingleOwner'
  BY <1>2
<1>10. EmptyInv'
  BY <1>1, <1>2, <1>3 DEF CreateStore, Release, TypeOK, EmptyInv, Dropping,
     LockInv
<1>11. DroppedIsGone'
  BY <1>1, <1>2, <1>3 DEF CreateStore, Release, TypeOK, DroppedIsGone
<1> QED
  BY <1>4, <1>5, <1>6, <1>7, <1>8, <1>9, <1>10, <1>11

\* CreateErr: a file that is left behind is empty.
LEMMA CreateErrInv ==
  ASSUME ManagerInv, NEW c \in Conns, CreateErr(c)
  PROVE  ManagerInv'
<1> USE ManagerAssumption DEF ManagerInv
<1>1. /\ name[c] \in Names /\ db_map[name[c]] = None
      /\ dir' \in [Names -> Inodes \cup {None}] /\ written' = written
      /\ \A m \in Names : m # name[c] => dir'[m] = dir[m]
      /\ dir[name[c]] # None => dir'[name[c]] = dir[name[c]]
      /\ dir[name[c]] = None => dir'[name[c]] \notin written
      /\ DirInv'
  <2>1. name[c] \in Names /\ db_map[name[c]] = None
    BY DEF CreateErr, LockInv, SnapInv
  <2>2. CASE OpensFile(name[c])
    BY <2>1, <2>2, OpensFileFacts
  <2>3. CASE UNCHANGED disk
    BY <2>1, <2>3 DEF disk, TypeOK, DirInv
  <2> QED
    BY <2>2, <2>3 DEF CreateErr
<1>2. TypeOK'
  BY <1>1 DEF CreateErr, Release, TypeOK, EmptyMap, disk
<1>3. LockInv' /\ SnapInv' /\ UsingInv' /\ ServerInv'
  BY <1>1 DEF CreateErr, Release, TypeOK, LockInv, SnapInv, UsingInv,
     ServerInv, EmptyMap, HandlesAreLive, disk
<1>4. DirInv'
  BY <1>1 DEF CreateErr, Release, TypeOK, DirInv, disk
<1>5. HandlesAreLive'
  BY <1>1 DEF CreateErr, Release, TypeOK, HandlesAreLive, disk
<1>6. OwnedInv'
  BY <1>1 DEF CreateErr, Release, TypeOK, OwnedInv, Owned, LockInv, disk
<1>7. EmptyInv'
  BY <1>1 DEF CreateErr, Release, TypeOK, EmptyInv, Dropping, LockInv, disk
<1>8. SingleOwner' /\ DroppedIsGone'
  BY <1>1 DEF CreateErr, Release, TypeOK, SingleOwner, DroppedIsGone, disk
<1> QED
  BY <1>2, <1>3, <1>4, <1>5, <1>6, <1>7, <1>8

\* DropRefused: the lock is taken and released.
LEMMA DropRefusedInv ==
  ASSUME ManagerInv, NEW c \in Conns, DropRefused(c)
  PROVE  ManagerInv'
<1> USE ManagerAssumption DEF ManagerInv
<1>1. TypeOK'
  BY DEF DropRefused, LockFree, TypeOK, disk, ghosts
<1>2. LockInv' /\ SnapInv' /\ UsingInv' /\ ServerInv'
  BY DEF DropRefused, LockFree, TypeOK, LockInv, SnapInv, UsingInv, ServerInv,
     EmptyMap, HandlesAreLive, disk, ghosts
<1>3. OwnedInv'
  BY DEF DropRefused, LockFree, TypeOK, OwnedInv, Owned, LockInv, disk, ghosts
<1>4. EmptyInv'
  BY DEF DropRefused, LockFree, TypeOK, EmptyInv, Dropping, LockInv, disk,
     ghosts
<1>5. DirInv' /\ HandlesAreLive' /\ SingleOwner' /\ DroppedIsGone'
  BY DEF DropRefused, LockFree, TypeOK, DirInv, HandlesAreLive, SingleOwner,
     DroppedIsGone, disk, ghosts
<1> QED
  BY <1>1, <1>2, <1>3, <1>4, <1>5

\* DropUnmap: the lock was free; the drop takes over from the map.
LEMMA DropUnmapInv ==
  ASSUME ManagerInv, NEW c \in Conns, DropUnmap(c)
  PROVE  ManagerInv'
<1> USE ManagerAssumption DEF ManagerInv
<1>1. TypeOK'
  BY DEF DropUnmap, LockFree, TypeOK, LockInv, disk, ghosts
<1>2. LockInv'
  BY DEF DropUnmap, LockFree, TypeOK, LockInv, disk, ghosts
<1>3. SnapInv'
  BY DEF DropUnmap, LockFree, TypeOK, SnapInv, LockInv, EmptyMap, disk, ghosts
<1>4. UsingInv' /\ ServerInv'
  BY DEF DropUnmap, LockFree, TypeOK, UsingInv, ServerInv, LockInv,
     HandlesAreLive, EmptyMap, disk, ghosts
<1>5. HandlesAreLive'
  BY DEF DropUnmap, LockFree, TypeOK, HandlesAreLive, disk, ghosts
<1>6. OwnedInv'
  BY DEF DropUnmap, LockFree, TypeOK, OwnedInv, Owned, LockInv, HandlesAreLive,
     disk, ghosts
<1>7. EmptyInv'
  BY DEF DropUnmap, LockFree, TypeOK, EmptyInv, Dropping, LockInv, disk, ghosts
<1>8. DirInv' /\ SingleOwner' /\ DroppedIsGone'
  BY DEF DropUnmap, LockFree, TypeOK, DirInv, SingleOwner, DroppedIsGone, disk,
     ghosts
<1> QED
  BY <1>1, <1>2, <1>3, <1>4, <1>5, <1>6, <1>7, <1>8

\* DropNotified: the awaited worker no longer runs.
LEMMA DropNotifiedInv ==
  ASSUME ManagerInv, NEW c \in Conns, DropNotified(c)
  PROVE  ManagerInv'
<1> USE ManagerAssumption DEF ManagerInv
<1>1. LockInv' /\ SnapInv' /\ UsingInv' /\ ServerInv'
  BY DEF DropNotified, Notified, TypeOK, LockInv, SnapInv, UsingInv, ServerInv,
     EmptyMap, HandlesAreLive, disk, ghosts
<1>2. OwnedInv'
  BY DEF DropNotified, Notified, TypeOK, OwnedInv, Owned, LockInv, disk, ghosts
<1>3. EmptyInv'
  BY DEF DropNotified, Notified, TypeOK, EmptyInv, Dropping, LockInv, disk,
     ghosts
<1>4. TypeOK' /\ DirInv' /\ HandlesAreLive' /\ SingleOwner' /\ DroppedIsGone'
  BY DEF DropNotified, Notified, TypeOK, DirInv, HandlesAreLive, SingleOwner,
     DroppedIsGone, disk, ghosts
<1> QED
  BY <1>1, <1>2, <1>3, <1>4

\* DropRemove: the name is not in the map and its worker does not run.
LEMMA DropRemoveInv ==
  ASSUME ManagerInv, NEW c \in Conns, DropRemove(c)
  PROVE  ManagerInv'
<1> USE ManagerAssumption DEF ManagerInv
<1>1. /\ name[c] \in Names /\ write_lock = c /\ db_map[name[c]] = None
      /\ \A d \in Conns : d # c => conn[d] \notin {"creating", "dropping", "removing"}
  BY DEF DropRemove, LockInv, UsingInv
<1>2. /\ conn' \in [Conns -> {"closed", "idle", "create", "creating", "drop",
           "dropping", "removing", "query", "reply", "farewell"}]
      /\ conn'[c] \in {"reply", "closed"}
      /\ \A d \in Conns : d # c => conn'[d] = conn[d]
  BY DEF DropRemove, TypeOK
<1>3. /\ dir' \in [Names -> Inodes \cup {None}]
      /\ \A m \in Names : m # name[c] => dir'[m] = dir[m]
      /\ \/ /\ dir'[name[c]] = None /\ written' = written \ {dir[name[c]]}
            /\ gone' = gone \cup {name[c]} /\ undeleted' = undeleted
         \/ /\ dir' = dir /\ written' = written /\ gone' = gone
            /\ undeleted' = undeleted \cup {name[c]}
  BY <1>1 DEF DropRemove, RemoveFile, disk, TypeOK
<1>4. TypeOK'
  BY <1>1, <1>2, <1>3 DEF DropRemove, Release, TypeOK, EmptyMap, disk
<1>5. LockInv'
  BY <1>1, <1>2 DEF DropRemove, Release, LockInv
<1>6. SnapInv' /\ UsingInv' /\ ServerInv'
  BY <1>1, <1>2, <1>3 DEF DropRemove, Release, TypeOK, SnapInv, UsingInv,
     ServerInv, LockInv, EmptyMap, HandlesAreLive, disk
<1>7. DirInv'
  BY <1>1, <1>2, <1>3 DEF DropRemove, Release, TypeOK, DirInv, disk
<1>8. HandlesAreLive'
  BY <1>1, <1>2, <1>3 DEF DropRemove, Release, TypeOK, HandlesAreLive, disk
<1>9. OwnedInv'
  BY <1>1, <1>2, <1>3 DEF DropRemove, Release, TypeOK, OwnedInv, Owned,
     LockInv, disk
<1>10. EmptyInv'
  BY <1>1, <1>2, <1>3 DEF DropRemove, Release, TypeOK, EmptyInv, Dropping,
     LockInv, disk
<1>11. DroppedIsGone'
  BY <1>1, <1>2, <1>3 DEF DropRemove, Release, TypeOK, DroppedIsGone, disk
<1>12. SingleOwner'
  BY <1>1, <1>2, <1>3 DEF DropRemove, Release, TypeOK, SingleOwner, disk
<1> QED
  BY <1>4, <1>5, <1>6, <1>7, <1>8, <1>9, <1>10, <1>11, <1>12

\* WorkerExit: nobody has a sender of the worker that exits.
LEMMA WorkerExitInv ==
  ASSUME ManagerInv, NEW w \in Workers, WorkerExit(w)
  PROVE  ManagerInv'
<1> USE ManagerAssumption DEF ManagerInv
<1>1. /\ workers' \in [Workers -> [ino : Inodes \cup {None},
            state : {"free", "running", "exited", "returned"}]]
      /\ workers'[w].state = "exited" /\ workers'[w].ino = workers[w].ino
      /\ \A v \in Workers : v # w => workers'[v] = workers[v]
  <2>1. [workers[w] EXCEPT !.state = "exited"]
          = [ino |-> workers[w].ino, state |-> "exited"]
    BY DEF TypeOK
  <2>2. workers' = [workers EXCEPT ![w] = [ino |-> workers[w].ino,
                                           state |-> "exited"]]
    BY <2>1 DEF WorkerExit
  <2> QED
    BY <2>2 DEF TypeOK
<1>2. TypeOK'
  BY <1>1 DEF WorkerExit, Referenced, TypeOK, connVars, disk, ghosts
<1>3. UsingInv'
  BY <1>1 DEF WorkerExit, Referenced, TypeOK, UsingInv, LockInv,
     HandlesAreLive, connVars, disk, ghosts
<1>4. HandlesAreLive'
  BY <1>1 DEF WorkerExit, Referenced, TypeOK, HandlesAreLive, connVars, disk,
     ghosts
<1>5. OwnedInv' /\ SingleOwner'
  <2>1. UNCHANGED <<dir, db_map, stopping, conn, name, using>>
    BY DEF WorkerExit, connVars, disk
  <2> QED
    BY <1>1, <2>1 DEF OwnedInv, Owned, SingleOwner
<1>6. LockInv' /\ SnapInv' /\ ServerInv' /\ DirInv' /\ EmptyInv'
      /\ DroppedIsGone'
  BY <1>1 DEF WorkerExit, Referenced, TypeOK, LockInv, SnapInv, ServerInv,
     DirInv, EmptyInv, DroppedIsGone, EmptyMap, Dropping, connVars, disk,
     ghosts
<1> QED
  BY <1>2, <1>3, <1>4, <1>5, <1>6

\* WorkerReturn: a worker that has exited is in nobody's use.
LEMMA WorkerReturnInv ==
  ASSUME ManagerInv, NEW w \in Workers, WorkerReturn(w)
  PROVE  ManagerInv'
<1> USE ManagerAssumption DEF ManagerInv
<1>1. TypeOK'
  BY DEF WorkerReturn, TypeOK, connVars, disk, ghosts
<1>2. UsingInv'
  BY DEF WorkerReturn, TypeOK, UsingInv, LockInv, HandlesAreLive, connVars,
     disk, ghosts
<1>3. HandlesAreLive'
  BY DEF WorkerReturn, TypeOK, HandlesAreLive, connVars, disk, ghosts
<1>4. OwnedInv' /\ SingleOwner'
  BY DEF WorkerReturn, TypeOK, OwnedInv, SingleOwner, Owned, LockInv, connVars,
     disk, ghosts
<1>5. LockInv' /\ SnapInv' /\ ServerInv' /\ DirInv' /\ EmptyInv'
      /\ DroppedIsGone'
  BY DEF WorkerReturn, TypeOK, LockInv, SnapInv, ServerInv, DirInv, EmptyInv,
     DroppedIsGone, EmptyMap, Dropping, connVars, disk, ghosts
<1> QED
  BY <1>1, <1>2, <1>3, <1>4, <1>5

\* ShutdownWorkers: no connection is left, and the workers of the map become
\* the awaited ones.
LEMMA ShutdownInv ==
  ASSUME ManagerInv, ShutdownWorkers
  PROVE  ManagerInv'
<1> USE ManagerAssumption DEF ManagerInv
<1>1. \A c \in Conns : conn[c] = "closed"
  <2> DEFINE Active == {c \in Conns : conn[c] # "closed"}
  <2>1. IsFiniteSet(Active)
    BY FS_Subset
  <2>2. Active = {}
    BY <2>1, FS_EmptySet DEF ShutdownWorkers, ActiveConnections
  <2> QED
    BY <2>2
<1>2. TypeOK'
  BY <1>1 DEF ShutdownWorkers, Handles, TypeOK, EmptyMap, connVars, disk,
     ghosts
<1>3. LockInv' /\ SnapInv' /\ UsingInv' /\ ServerInv'
  BY <1>1 DEF ShutdownWorkers, Handles, TypeOK, LockInv, SnapInv, UsingInv,
     ServerInv, EmptyMap, HandlesAreLive, connVars, disk, ghosts
<1>4. HandlesAreLive'
  BY <1>1 DEF ShutdownWorkers, Handles, TypeOK, HandlesAreLive, EmptyMap,
     connVars, disk, ghosts
<1>5. OwnedInv'
  BY <1>1 DEF ShutdownWorkers, Handles, TypeOK, OwnedInv, Owned, LockInv,
     ServerInv, EmptyMap, connVars, disk, ghosts
<1>6. DirInv' /\ SingleOwner' /\ EmptyInv' /\ DroppedIsGone'
  BY <1>1 DEF ShutdownWorkers, Handles, TypeOK, DirInv, SingleOwner, EmptyInv,
     DroppedIsGone, Dropping, LockInv, EmptyMap, connVars, disk, ghosts
<1> QED
  BY <1>2, <1>3, <1>4, <1>5, <1>6

\* Stopped: the awaited workers do not run.
LEMMA StoppedInv ==
  ASSUME ManagerInv, Stopped
  PROVE  ManagerInv'
<1> USE ManagerAssumption DEF ManagerInv
<1>1. OwnedInv'
  BY DEF Stopped, Notified, TypeOK, OwnedInv, Owned, LockInv, connVars, disk,
     ghosts
<1>2. TypeOK' /\ LockInv' /\ SnapInv' /\ UsingInv' /\ ServerInv'
      /\ DirInv' /\ HandlesAreLive' /\ SingleOwner' /\ EmptyInv' /\ DroppedIsGone'
  BY DEF Stopped, Notified, TypeOK, LockInv, SnapInv, UsingInv, ServerInv,
     DirInv, HandlesAreLive, SingleOwner, EmptyInv, DroppedIsGone, EmptyMap,
     Dropping, connVars, disk, ghosts
<1> QED
  BY <1>1, <1>2

\* ProcessEnds: nothing but the files is left.
LEMMA ProcessEndsInv ==
  ASSUME ManagerInv, ProcessEnds
  PROVE  ManagerInv'
<1> USE ManagerAssumption DEF ManagerInv
<1>1. TypeOK'
  BY DEF ProcessEnds, Forgotten, Unborn, TypeOK, EmptyMap, disk
<1>2. LockInv' /\ SnapInv' /\ UsingInv' /\ ServerInv'
  BY DEF ProcessEnds, Forgotten, Unborn, TypeOK, LockInv, SnapInv, UsingInv,
     ServerInv, EmptyMap, HandlesAreLive, disk
<1>3. DirInv' /\ HandlesAreLive' /\ OwnedInv' /\ SingleOwner'
      /\ EmptyInv' /\ DroppedIsGone'
  BY DEF ProcessEnds, Forgotten, Unborn, TypeOK, DirInv, HandlesAreLive,
     OwnedInv, SingleOwner, EmptyInv, DroppedIsGone, Owned, LockInv, Dropping,
     EmptyMap, disk
<1> QED
  BY <1>1, <1>2, <1>3

\* InitDb: no connection, and the name has no writer yet.
LEMMA InitDbInv ==
  ASSUME ManagerInv, NEW n \in Names, InitDb(n)
  PROVE  ManagerInv'
<1> USE ManagerAssumption DEF ManagerInv
<1>1. /\ n \in Names /\ db_map[n] = None /\ stopping = {} /\ stopping' = {}
      /\ \A c \in Conns : conn[c] # "dropping"
      /\ SpawnDbWorker(n, db_map)
  BY DEF InitDb, ServerInv
<1>2. /\ workers' \in [Workers -> [ino : Inodes \cup {None},
            state : {"free", "running", "exited", "returned"}]]
      /\ db_map' \in [Names -> Workers \cup {None}]
      /\ \A m \in Names : m # n => db_map'[m] = db_map[m]
      /\ db_map'[n] # None
      /\ \A v \in Workers : workers[v].state = "running"
                              => workers'[v] = workers[v]
      /\ \A d \in Conns : using[d] # None
                            => workers'[using[d]] = workers[using[d]]
      /\ HandlesAreLive' /\ OwnedInv' /\ SingleOwner'
  BY <1>1, SpawnInv
<1>3. /\ dir' \in [Names -> Inodes \cup {None}] /\ written' = written
      /\ \A m \in Names : m # n => dir'[m] = dir[m]
      /\ DirInv'
  BY <1>1, OpensFileFacts DEF SpawnDbWorker
<1>4. TypeOK'
  BY <1>1, <1>2, <1>3 DEF InitDb, TypeOK, connVars
<1>5. LockInv' /\ SnapInv'
  BY <1>1, <1>2, <1>3 DEF InitDb, TypeOK, LockInv, SnapInv, EmptyMap,
     ServerInv, connVars
<1>6. UsingInv' /\ ServerInv'
  BY <1>1, <1>2, <1>3 DEF InitDb, TypeOK, UsingInv, ServerInv, LockInv,
     HandlesAreLive, EmptyMap, connVars
<1>7. DirInv'
  BY <1>3
<1>8. HandlesAreLive' /\ OwnedInv' /\ SingleOwner'
  BY <1>2
<1>9. EmptyInv' /\ DroppedIsGone'
  BY <1>1, <1>2, <1>3 DEF InitDb, TypeOK, EmptyInv, DroppedIsGone, Dropping,
     LockInv, connVars
<1> QED
  BY <1>4, <1>5, <1>6, <1>7, <1>8, <1>9

-----------------------------------------------------------------------------
(* The invariants of the specification. *)

\* The manager starts with no database, no worker and no connection.
LEMMA InitInv ==
  Init => ManagerInv
BY ManagerAssumption DEF Init, ManagerInv, TypeOK, LockInv, SnapInv, UsingInv,
   ServerInv, DirInv, HandlesAreLive, OwnedInv, SingleOwner, EmptyInv,
   DroppedIsGone, EmptyMap, Unborn

\* Every step keeps the invariant.
LEMMA NextInv ==
  ManagerInv /\ [Next]_vars => ManagerInv'
<1> SUFFICES ASSUME ManagerInv, [Next]_vars PROVE ManagerInv'
  OBVIOUS
<1>1. CASE Boot \/ Listen \/ Signal \/ ShutdownWorkers \/ Stopped \/ ProcessEnds
  BY <1>1, BootInv, ListenInv, SignalInv, ShutdownInv, StoppedInv,
     ProcessEndsInv
<1>2. ASSUME NEW n \in Names, InitDb(n) PROVE ManagerInv'
  BY <1>2, InitDbInv
<1>3. ASSUME NEW c \in Conns, Accept(c) \/ Hangup(c) \/ Execute(c) \/ Done(c)
      PROVE  ManagerInv'
  BY <1>3, AcceptInv, HangupInv, ExecuteInv, DoneInv
<1>4. ASSUME NEW c \in Conns, NEW n \in Names,
             GetDbHandle(c, n) \/ Request(c, "create", n) \/ Request(c, "drop", n)
      PROVE  ManagerInv'
  BY <1>4, GetDbHandleInv, RequestInv
<1>5. ASSUME NEW c \in Conns, Creates(c) PROVE ManagerInv'
  BY <1>5, CreateExistsInv, CreateLockInv, CreateStoreInv, CreateErrInv DEF
     Creates
<1>6. ASSUME NEW c \in Conns, Drops(c) PROVE ManagerInv'
  BY <1>6, DropRefusedInv, DropUnmapInv, DropNotifiedInv, DropRemoveInv DEF
     Drops
<1>7. ASSUME NEW w \in Workers, WorkerStep(w) PROVE ManagerInv'
  BY <1>7, WorkerExitInv, WorkerReturnInv DEF WorkerStep
<1>8. CASE UNCHANGED vars
  BY <1>8 DEF vars, connVars, disk, ghosts, ManagerInv, TypeOK, LockInv,
     SnapInv, UsingInv, ServerInv, DirInv, HandlesAreLive, OwnedInv, Owned,
     SingleOwner, EmptyInv, Dropping, DroppedIsGone
<1> QED
  BY <1>1, <1>2, <1>3, <1>4, <1>5, <1>6, <1>7, <1>8 DEF Next

\* The inductive invariant holds.
THEOREM ManagerInvariant == Spec => []ManagerInv
<1>1. Init => ManagerInv
  BY InitInv
<1>2. ManagerInv /\ [Next]_vars => ManagerInv'
  BY NextInv
<1> QED
  BY <1>1, <1>2, PTL DEF Spec

\* Every variable of DbManager and of the connections keeps its type.
THEOREM ManagerTypeCorrect == Spec => []TypeOK
<1>1. ManagerInv => TypeOK
  BY DEF ManagerInv
<1> QED
  BY <1>1, ManagerInvariant, PTL

\* However creates and drops overlap, a log file has at most one writer
\* (spawn_db_worker after drop_db on the same name).
THEOREM OneWriterPerFile == Spec => []SingleOwner
<1>1. ManagerInv => SingleOwner
  BY DEF ManagerInv
<1> QED
  BY <1>1, ManagerInvariant, PTL

\* A handle that get_db_handle finds leads to a running worker on the file of
\* the name that was asked for.
THEOREM MapIsLive == Spec => []HandlesAreLive
<1>1. ManagerInv => HandlesAreLive
  BY DEF ManagerInv
<1> QED
  BY <1>1, ManagerInvariant, PTL

\* A drop_db answered Ok has removed the file, for good.
THEOREM DropsAreFinal == Spec => []DroppedIsGone
<1>1. ManagerInv => DroppedIsGone
  BY DEF ManagerInv
<1> QED
  BY <1>1, ManagerInvariant, PTL

\* shutdown_all_workers returns when no worker is left that could write: those
\* it does not await have been dropped, and their drops have ended.
THEOREM ShutdownIsClean == Spec => []StoppedClean
<1>1. ManagerInv => StoppedClean
  <2> SUFFICES ASSUME ManagerInv, server = "stopped", NEW w \in Workers
               PROVE  workers[w].state # "running"
    BY DEF StoppedClean
  <2>1. /\ \A n \in Names : db_map[n] # w
        /\ \A c \in Conns : conn[c] # "dropping"
        /\ w \notin stopping
    BY ManagerAssumption DEF ManagerInv, ServerInv, EmptyMap
  <2> QED
    BY <2>1 DEF ManagerInv, OwnedInv, Owned
<1> QED
  BY <1>1, ManagerInvariant, PTL

-----------------------------------------------------------------------------
(* Who waits for whom. *)

\* The worker that drop_db awaits is in the map under no name.
UnmappedInv ==
  \A c \in Conns : conn[c] = "dropping" => \A n \in Names : db_map[n] # using[c]

\* DropUnmap: a worker is in the map under one name, that of the file it has
\* open, and nobody else is dropping, since the lock was free.
LEMMA DropUnmapUnmapped ==
  ASSUME ManagerInv, NEW c \in Conns, DropUnmap(c)
  PROVE  UnmappedInv'
<1>1. /\ name[c] \in Names /\ db_map[name[c]] # None
      /\ db_map' = [db_map EXCEPT ![name[c]] = None]
      /\ using'[c] = db_map[name[c]]
      /\ \A d \in Conns : conn'[d] = "dropping" => d = c
  BY ManagerAssumption DEF DropUnmap, LockFree, ManagerInv, LockInv, TypeOK
<1>2. \A m, n \in Names : db_map[m] = db_map[n] /\ db_map[m] # None => m = n
  <2> SUFFICES ASSUME NEW m \in Names, NEW n \in Names,
                      db_map[m] = db_map[n], db_map[m] # None
               PROVE  m = n
    OBVIOUS
  <2>1. db_map[m] \in Workers /\ workers[db_map[m]].state = "running"
          /\ workers[db_map[m]].ino = dir[m] /\ workers[db_map[m]].ino = dir[n]
    BY DEF ManagerInv, HandlesAreLive, TypeOK
  <2>2. workers[db_map[m]].ino # None
    BY <2>1 DEF ManagerInv, OwnedInv
  <2> QED
    BY <2>1, <2>2 DEF ManagerInv, DirInv
<1> QED
  BY <1>1, <1>2 DEF UnmappedInv, ManagerInv, TypeOK

\* The map does not change under a drop: whoever could change it needs the
\* lock, or waits until the connections have closed.
LEMMA UnmappedNext ==
  ASSUME ManagerInv, UnmappedInv, [Next]_vars
  PROVE  UnmappedInv'
<1> USE DEF ManagerInv
<1>1. CASE Boot \/ Listen \/ Signal \/ Stopped
  BY <1>1 DEF Boot, Listen, Signal, Stopped, connVars, UnmappedInv
<1>2. CASE ShutdownWorkers \/ ProcessEnds \/ \E n \in Names : InitDb(n)
  <2>1. \A c \in Conns : conn'[c] # "dropping"
    <3>1. CASE ShutdownWorkers
      <4>1. ManagerInv' /\ server' = "stopping"
        BY <3>1, ShutdownInv DEF ShutdownWorkers
      <4> QED
        BY <4>1 DEF ServerInv
    <3>2. CASE ProcessEnds
      BY <3>2 DEF ProcessEnds, Forgotten
    <3>3. ASSUME NEW n \in Names, InitDb(n) PROVE \A c \in Conns : conn'[c] # "dropping"
      BY <3>3 DEF InitDb, ServerInv, connVars
    <3> QED
      BY <1>2, <3>1, <3>2, <3>3
  <2> QED
    BY <2>1 DEF UnmappedInv
<1>3. ASSUME NEW c \in Conns,
             Accept(c) \/ Hangup(c) \/ Execute(c) \/ Done(c)
      PROVE  UnmappedInv'
  BY <1>3 DEF Accept, Hangup, Execute, Done, UnmappedInv, TypeOK
<1>4. ASSUME NEW c \in Conns, NEW n \in Names,
             GetDbHandle(c, n) \/ Request(c, "create", n) \/ Request(c, "drop", n)
      PROVE  UnmappedInv'
  BY <1>4 DEF GetDbHandle, Request, UnmappedInv, TypeOK
<1>5. ASSUME NEW c \in Conns, CreateStore(c) PROVE UnmappedInv'
  <2>1. \A d \in Conns : conn'[d] # "dropping"
    BY <1>5, ManagerAssumption DEF CreateStore, LockInv, TypeOK
  <2> QED
    BY <2>1 DEF UnmappedInv
<1>6. ASSUME NEW c \in Conns, CreateExists(c) \/ CreateLock(c) \/ CreateErr(c)
      PROVE  UnmappedInv'
  BY <1>6 DEF CreateExists, CreateLock, CreateErr, Release, UnmappedInv, TypeOK
<1>7. ASSUME NEW c \in Conns, DropRefused(c) \/ DropNotified(c) \/ DropRemove(c)
      PROVE  UnmappedInv'
  BY <1>7 DEF DropRefused, DropNotified, DropRemove, Release, UnmappedInv, TypeOK
<1>8. ASSUME NEW c \in Conns, DropUnmap(c) PROVE UnmappedInv'
  BY <1>8, DropUnmapUnmapped
<1>9. ASSUME NEW w \in Workers, WorkerStep(w) PROVE UnmappedInv'
  BY <1>9 DEF WorkerStep, WorkerExit, WorkerReturn, connVars, UnmappedInv
<1>10. CASE UNCHANGED vars
  BY <1>10 DEF vars, connVars, UnmappedInv
<1> QED
  BY <1>1, <1>2, <1>3, <1>4, <1>5, <1>6, <1>7, <1>8, <1>9, <1>10 DEF Next, Creates, Drops

\* What drop_db, holding the lock, and shutdown_all_workers wait for depends on
\* clients with a query only, never on the map, on a create or on each other.
THEOREM NoCircularWait == Spec => []WaitsForClientsOnly
<1>1. Init => UnmappedInv
  BY DEF Init, UnmappedInv
<1>2. ManagerInv /\ UnmappedInv => WaitsForClientsOnly
  <2> SUFFICES ASSUME ManagerInv, UnmappedInv PROVE WaitsForClientsOnly
    OBVIOUS
  <2>1. ASSUME NEW c \in Conns, conn[c] = "dropping", NEW d \in Conns, NEW n \in Names
        PROVE  snap[d][n] # using[c]
    <3>1. using[c] # None
      BY <2>1 DEF ManagerInv, UsingInv
    <3>2. conn[d] # "creating"
      BY <2>1, ManagerAssumption DEF ManagerInv, LockInv
    <3> QED
      BY <3>1, <3>2 DEF ManagerInv, SnapInv, EmptyMap
  <2>2. ASSUME NEW c \in Conns, conn[c] = "query"
        PROVE  workers[using[c]].state = "running"
    BY <2>2 DEF ManagerInv, UsingInv
  <2>3. ASSUME server = "stopping", NEW w \in Workers PROVE ~Referenced(w)
    <3>1. db_map = EmptyMap /\ \A c \in Conns : conn[c] = "closed"
      BY <2>3 DEF ManagerInv, ServerInv
    <3>2. w # None
      BY ManagerAssumption
    <3> QED
      BY <3>1, <3>2 DEF Referenced, ManagerInv, SnapInv, EmptyMap
  <2> QED
    BY <2>1, <2>2, <2>3 DEF WaitsForClientsOnly, UnmappedInv
<1>3. ManagerInv /\ UnmappedInv /\ [Next]_vars => UnmappedInv'
  BY UnmappedNext
<1> QED
  BY <1>1, <1>2, <1>3, ManagerInvariant, PTL DEF Spec

-----------------------------------------------------------------------------
(* Action properties. *)

\* What NoLostUpdate says of one step.
UpdatesOwnName ==
  server' = server /\ server \in {"up", "draining"} =>
    \A n \in Names : db_map'[n] # db_map[n] =>
      \E c \in Conns : name[c] = n /\ conn'[c] # conn[c]

\* A create or a drop changes the map at its own name only: the snapshot that
\* create_db stores is still the map.
THEOREM UpdatesAreNotLost == Spec => NoLostUpdate
<1>1. ManagerInv /\ [Next]_vars => [UpdatesOwnName]_vars
  <2> SUFFICES ASSUME ManagerInv, Next, server' = server, server \in {"up", "draining"},
                      NEW n \in Names, db_map'[n] # db_map[n]
               PROVE  \E c \in Conns : name[c] = n /\ conn'[c] # conn[c]
    BY DEF UpdatesOwnName
  <2>1. ASSUME NEW c \in Conns, CreateStore(c) PROVE name[c] = n /\ conn'[c] # conn[c]
    <3>1. snap[c] = db_map /\ conn[c] = "creating" /\ conn'[c] = "reply"
      BY <2>1 DEF CreateStore, ManagerInv, SnapInv, TypeOK
    <3>2. \E w : db_map' = [db_map EXCEPT ![name[c]] = w]
      BY <2>1, <3>1 DEF CreateStore, SpawnDbWorker
    <3> QED
      BY <3>1, <3>2 DEF ManagerInv, TypeOK
  <2>2. ASSUME NEW c \in Conns, DropUnmap(c) PROVE name[c] = n /\ conn'[c] # conn[c]
    BY <2>2 DEF DropUnmap, ManagerInv, TypeOK
  <2>3. ~Boot /\ ~Listen /\ ~Signal /\ ~ShutdownWorkers /\ ~Stopped /\ ~ProcessEnds
        /\ \A m \in Names : ~InitDb(m)
    BY DEF Boot, Listen, Signal, ShutdownWorkers, Stopped, ProcessEnds, InitDb
  <2>4. ASSUME NEW c \in Conns PROVE
          /\ ~Accept(c) /\ ~Hangup(c) /\ ~Execute(c) /\ ~Done(c)
          /\ ~CreateExists(c) /\ ~CreateLock(c) /\ ~CreateErr(c)
          /\ ~DropRefused(c) /\ ~DropNotified(c) /\ ~DropRemove(c)
          /\ \A m \in Names : ~GetDbHandle(c, m) /\ ~Request(c, "create", m)
                                /\ ~Request(c, "drop", m)
    BY DEF Accept, Hangup, Execute, Done, CreateExists, CreateLock, CreateErr,
       DropRefused, DropNotified, DropRemove, GetDbHandle, Request
  <2>5. \A w \in Workers : ~WorkerStep(w)
    BY DEF WorkerStep, WorkerExit, WorkerReturn
  <2> QED
    BY <2>1, <2>2, <2>3, <2>4, <2>5 DEF Next, Creates, Drops
<1> QED
  BY <1>1, ManagerInvariant, PTL DEF Spec, NoLostUpdate, UpdatesOwnName

\* What CreatedEmpty says of one step.
CreatesEmpty ==
  \A n \in Names, c \in Conns :
    conn[c] = "creating" /\ conn'[c] = "reply" /\ name[c] = n /\ n \notin undeleted
      => dir'[n] \notin written'

\* A database that has been created holds nothing, unless its last drop failed
\* to remove its file: no file with entries is left behind under a free name.
THEOREM CreatedAreEmpty == Spec => CreatedEmpty
<1>1. ManagerInv /\ [Next]_vars => [CreatesEmpty]_vars
  <2> SUFFICES ASSUME ManagerInv, Next, NEW c \in Conns, conn[c] = "creating",
                      conn'[c] = "reply", name[c] \in Names, name[c] \notin undeleted
               PROVE  dir'[name[c]] \notin written'
    BY DEF CreatesEmpty
  <2>1. ASSUME CreateStore(c) PROVE dir'[name[c]] \notin written'
    <3>1. /\ written' = written
          /\ dir[name[c]] # None => dir'[name[c]] = dir[name[c]]
          /\ dir[name[c]] = None => dir'[name[c]] \notin written
      BY <2>1, OpensFileFacts DEF CreateStore, SpawnDbWorker
    <3>2. /\ db_map[name[c]] = None /\ server \in {"up", "draining"}
          /\ \A d \in Conns : ~Dropping(d, name[c])
      BY ManagerAssumption DEF ManagerInv, TypeOK, SnapInv, ServerInv, LockInv,
         Dropping
    <3> QED
      BY <3>1, <3>2 DEF ManagerInv, EmptyInv
  <2>2. ASSUME NEW d \in Conns, d # c \/ ~CreateStore(c)
        PROVE  /\ ~Accept(d) /\ ~Hangup(d) /\ ~Execute(d) /\ ~Done(d) /\ ~Creates(d) /\ ~Drops(d)
               /\ \A m \in Names : ~GetDbHandle(d, m) /\ ~Request(d, "create", m)
                                     /\ ~Request(d, "drop", m)
    BY <2>2 DEF Accept, Hangup, Execute, Done, Creates, CreateExists,
       CreateLock, CreateErr, CreateStore, Drops, DropRefused, DropUnmap,
       DropNotified, DropRemove, GetDbHandle, Request, ManagerInv, TypeOK
  <2>3. /\ ~Boot /\ ~Listen /\ ~Signal /\ ~ShutdownWorkers /\ ~Stopped /\ ~ProcessEnds
        /\ \A m \in Names : ~InitDb(m)
        /\ \A w \in Workers : ~WorkerStep(w)
    BY DEF Boot, Listen, Signal, ShutdownWorkers, Stopped, ProcessEnds,
       Forgotten, InitDb, WorkerStep, WorkerExit, WorkerReturn, connVars
  <2> QED
    BY <2>1, <2>2, <2>3 DEF Next, Creates
<1> QED
  BY <1>1, ManagerInvariant, PTL DEF Spec, CreatedEmpty, CreatesEmpty

-----------------------------------------------------------------------------
(* Every worker lives the life of a WorkerTask. *)

Holders(w) ==
  {n \in Names : db_map[n] = w}
    \cup {c \in Conns : \E n \in Names : snap[c][n] = w}
    \cup {c \in Conns : using[c] = w
                         /\ conn[c] \in {"query", "reply", "farewell"}}

\* A worker whose sender somebody holds is running.
LEMMA HeldIsRunning ==
  ASSUME NEW w \in Workers
  PROVE  /\ ManagerInv /\ Referenced(w) => workers[w].state = "running"
         /\ ManagerInv' /\ Referenced(w)' => workers'[w].state = "running"
BY ManagerAssumption DEF ManagerInv, Referenced, HandlesAreLive, SnapInv,
   UsingInv, EmptyMap

\* Nobody holds a sender when nobody is named as its holder.
LEMMA HoldersReferenced ==
  ASSUME NEW w \in Workers
  PROVE  /\ Holders(w) = {} <=> ~Referenced(w)
         /\ Holders(w)' = {} <=> ~Referenced(w)'
BY DEF Holders, Referenced

\* No step but a spawn gives a sender to somebody when nobody has one.
LEMMA NoSenderFromNothing ==
  ASSUME ManagerInv, Next, NEW w \in Workers, ~Referenced(w), Referenced(w)'
  PROVE  workers[w].state \in {"free", "returned"} /\ workers'[w].state = "running"
<1> USE ManagerAssumption DEF ManagerInv
<1>1. ASSUME NEW n \in Names, NEW m, SpawnDbWorker(n, m),
             \A k \in Names : m[k] # w, m \in [Names -> Workers \cup {None}],
             db_map'[n] = w \/ \E k \in Names : db_map'[k] = w
      PROVE  workers[w].state \in {"free", "returned"} /\ workers'[w].state = "running"
  <2>1. PICK v \in FreeWorkers :
          /\ workers' = [workers EXCEPT ![v] = [ino |-> dir'[n],
                                                state |-> "running"]]
          /\ db_map' = [m EXCEPT ![n] = v]
    BY <1>1, SpawnFacts
  <2>2. v = w
    BY <1>1, <2>1
  <2> QED
    BY <2>1, <2>2 DEF FreeWorkers, TypeOK
<1>2. CASE Boot \/ Listen \/ Signal \/ Stopped
  BY <1>2 DEF Boot, Listen, Signal, Stopped, Referenced, connVars
<1>3. CASE ShutdownWorkers \/ ProcessEnds
  BY <1>3 DEF ShutdownWorkers, ProcessEnds, Forgotten, Referenced, connVars,
     EmptyMap
<1>4. ASSUME NEW n \in Names, InitDb(n)
      PROVE  workers[w].state \in {"free", "returned"} /\ workers'[w].state = "running"
  <2>1. \A k \in Names : db_map[k] # w
    BY DEF Referenced
  <2>2. \E k \in Names : db_map'[k] = w
    BY <1>4 DEF InitDb, connVars, Referenced
  <2> QED
    BY <1>1, <1>4, <2>1, <2>2 DEF InitDb, TypeOK
<1>5. ASSUME NEW c \in Conns, Accept(c) \/ Hangup(c) \/ Execute(c) \/ Done(c) PROVE FALSE
  BY <1>5 DEF Accept, Hangup, Execute, Done, Referenced, TypeOK, UsingInv
<1>6. ASSUME NEW c \in Conns, NEW n \in Names,
             GetDbHandle(c, n) \/ Request(c, "create", n) \/ Request(c, "drop", n)
      PROVE  FALSE
  BY <1>6 DEF GetDbHandle, Request, Referenced, TypeOK
<1>7. ASSUME NEW c \in Conns, CreateExists(c) \/ CreateLock(c) \/ CreateErr(c) PROVE FALSE
  <2>1. ~CreateExists(c)
    BY DEF CreateExists, Referenced, TypeOK, UsingInv
  <2>2. ~CreateLock(c)
    <3> SUFFICES ASSUME CreateLock(c) PROVE FALSE
      OBVIOUS
    <3>1. /\ db_map' = db_map /\ using' = using /\ conn'[c] = "creating"
          /\ \A d \in Conns : d # c => conn'[d] = conn[d]
      BY DEF CreateLock, TypeOK
    <3>2. snap'[c] = db_map /\ \A d \in Conns : d # c => snap'[d] = snap[d]
      BY DEF CreateLock, TypeOK
    <3> QED
      BY <3>1, <3>2 DEF Referenced
  <2>3. ~CreateErr(c)
    <3> SUFFICES ASSUME CreateErr(c) PROVE FALSE
      OBVIOUS
    <3>1. /\ db_map' = db_map
          /\ \A n \in Names : snap'[c][n] = None
          /\ \A d \in Conns : d # c => snap'[d] = snap[d]
      BY DEF CreateErr, Release, EmptyMap, TypeOK
    <3>2. conn'[c] = "closed"
          /\ \A d \in Conns : d # c => conn'[d] = conn[d] /\ using'[d] = using[d]
      BY DEF CreateErr, Release, TypeOK
    <3> QED
      BY <3>1, <3>2 DEF Referenced
  <2> QED
    BY <1>7, <2>1, <2>2, <2>3
<1>8. ASSUME NEW c \in Conns, CreateStore(c)
      PROVE  workers[w].state \in {"free", "returned"} /\ workers'[w].state = "running"
  <2>1. \A k \in Names : snap[c][k] # w
    BY DEF Referenced
  <2>2. \E k \in Names : db_map'[k] = w
    BY <1>8 DEF CreateStore, Release, Referenced, TypeOK, EmptyMap
  <2>3. name[c] \in Names /\ snap[c] \in [Names -> Workers \cup {None}]
    BY <1>8 DEF CreateStore, LockInv, TypeOK
  <2> QED
    BY <1>1, <1>8, <2>1, <2>2, <2>3 DEF CreateStore
<1>9. ASSUME NEW c \in Conns, DropRefused(c) \/ DropUnmap(c) \/ DropNotified(c) PROVE FALSE
  <2>1. ~DropRefused(c)
    BY DEF DropRefused, Referenced, TypeOK, UsingInv
  <2>2. ~DropUnmap(c)
    BY DEF DropUnmap, Referenced, TypeOK
  <2>3. ~DropNotified(c)
    BY DEF DropNotified, Referenced, TypeOK
  <2> QED
    BY <1>9, <2>1, <2>2, <2>3
<1>10. ASSUME NEW c \in Conns, DropRemove(c) PROVE FALSE
  BY <1>10 DEF DropRemove, Release, Referenced, TypeOK, EmptyMap
<1>11. ASSUME NEW v \in Workers, WorkerStep(v) PROVE FALSE
  BY <1>11 DEF WorkerStep, WorkerExit, WorkerReturn, connVars, Referenced
<1> QED
  BY <1>2, <1>3, <1>4, <1>5, <1>6, <1>7, <1>8, <1>9, <1>10, <1>11 DEF Next,
     Creates, Drops

\* A worker's state moves only as that of a task does.
LEMMA StateMoves ==
  ASSUME ManagerInv, Next, NEW w \in Workers, workers'[w].state # workers[w].state
  PROVE  \/ workers[w].state \in {"free", "returned"} /\ workers'[w].state = "running" /\ Referenced(w)'
         \/ workers[w].state = "running" /\ workers'[w].state = "exited" /\ ~Referenced(w)
         \/ workers[w].state = "exited" /\ workers'[w].state = "returned"
         \/ workers'[w].state = "free" /\ ~Referenced(w)'
<1> USE ManagerAssumption DEF ManagerInv
<1>1. ASSUME NEW n \in Names, NEW m, SpawnDbWorker(n, m), m \in [Names -> Workers \cup {None}]
      PROVE  workers[w].state \in {"free", "returned"} /\ workers'[w].state = "running" /\ Referenced(w)'
  <2>1. PICK v \in FreeWorkers :
          /\ workers' = [workers EXCEPT ![v] = [ino |-> dir'[n],
                                                state |-> "running"]]
          /\ db_map' = [m EXCEPT ![n] = v]
    BY <1>1, SpawnFacts
  <2>2. v = w
    BY <2>1 DEF TypeOK
  <2> QED
    BY <1>1, <2>1, <2>2 DEF FreeWorkers, TypeOK, Referenced
<1>2. ASSUME NEW n \in Names, InitDb(n)
      PROVE  workers[w].state \in {"free", "returned"} /\ workers'[w].state = "running" /\ Referenced(w)'
  BY <1>1, <1>2 DEF InitDb, TypeOK
<1>3. ASSUME NEW c \in Conns, CreateStore(c)
      PROVE  workers[w].state \in {"free", "returned"} /\ workers'[w].state = "running" /\ Referenced(w)'
  BY <1>1, <1>3 DEF CreateStore, LockInv, TypeOK
<1>4. CASE ProcessEnds
  BY <1>4 DEF ProcessEnds, Forgotten, Unborn, Referenced, EmptyMap
<1>5. ASSUME NEW v \in Workers, WorkerStep(v)
      PROVE  \/ workers[w].state = "running" /\ workers'[w].state = "exited" /\ ~Referenced(w)
             \/ workers[w].state = "exited" /\ workers'[w].state = "returned"
  BY <1>5 DEF WorkerStep, WorkerExit, WorkerReturn, TypeOK
<1>6. /\ ~Boot /\ ~Listen /\ ~Signal /\ ~ShutdownWorkers /\ ~Stopped
  BY DEF Boot, Listen, Signal, ShutdownWorkers, Stopped
<1>7. ASSUME NEW c \in Conns
      PROVE  /\ ~Accept(c) /\ ~Hangup(c) /\ ~Execute(c) /\ ~Done(c)
             /\ ~CreateExists(c) /\ ~CreateLock(c) /\ ~CreateErr(c) /\ ~Drops(c)
             /\ \A m \in Names : ~GetDbHandle(c, m) /\ ~Request(c, "create", m)
                                   /\ ~Request(c, "drop", m)
  BY DEF Accept, Hangup, Execute, Done, CreateExists, CreateLock, CreateErr,
     Drops, DropRefused, DropUnmap, DropNotified, DropRemove, GetDbHandle,
     Request
<1> QED
  BY <1>2, <1>3, <1>4, <1>5, <1>6, <1>7 DEF Next, Creates

\* What WorkersAreTasks says of one step.
TaskSteps == \A w \in Workers : [Task(w)!Next]_(Task(w)!vars)

\* Every step of the manager is, for every worker, a step of WorkerTask or
\* leaves its state and its holders alone.
LEMMA StepsAreTaskSteps ==
  ASSUME ManagerInv, ManagerInv', Next
  PROVE  TaskSteps
<1> SUFFICES ASSUME NEW w \in Workers PROVE [Task(w)!Next]_(Task(w)!vars)
  BY DEF TaskSteps
<1>1. /\ Holders(w) = {} <=> ~Referenced(w)
      /\ Holders(w)' = {} <=> ~Referenced(w)'
  BY HoldersReferenced
<1>2. /\ Referenced(w) => workers[w].state = "running"
      /\ Referenced(w)' => workers'[w].state = "running"
  BY HeldIsRunning
<1>3. CASE workers'[w].state # workers[w].state
  BY <1>1, <1>2, <1>3, StateMoves DEF Task!Next, Task!Spawn, Task!Exit,
     Task!Return, Task!ProcessEnds, Holders
<1>4. CASE workers'[w].state = workers[w].state /\ Referenced(w)
  BY <1>1, <1>2, <1>4 DEF Task!Next, Task!CloneOrDrop, Holders
<1>5. CASE workers'[w].state = workers[w].state /\ ~Referenced(w)
  BY <1>1, <1>5, NoSenderFromNothing DEF Task!vars, Holders
<1> QED
  BY <1>3, <1>4, <1>5

\* No lookup, snapshot or drop brings a sender back after the last has gone.
THEOREM WorkersLiveAsTasks == Spec => WorkersAreTasks
<1>1. Init => \A w \in Workers : Task(w)!Init
  BY ManagerAssumption DEF Init, Task!Init, Unborn, EmptyMap
<1>2. ManagerInv /\ ManagerInv' /\ [Next]_vars => [TaskSteps]_vars
  BY StepsAreTaskSteps
<1> QED
  BY <1>1, <1>2, ManagerInvariant, PTL DEF Spec, WorkersAreTasks, TaskSteps
=============================================================================
